------------------------ MODULE ChannelLifecycleProofs ------------------------
(***************************************************************************)
(* Two processes that are up share one channel until a deinit removes      *)
(* something; and as long as no init overlaps an init or deinit of the     *)
(* peer, there is one permit, nobody is disturbed inside the segment, no   *)
(* published frame is cleared and deinit removes no segment in use.        *)
(***************************************************************************)
EXTENDS ChannelLifecycle, TLAPS, FiniteSetTheorems

Keyless == {"down", "create", "semget"}
Semless == Keyless \cup {"semcreate"}
Segless == Semless \cup {"setval", "shmget", "shmcreate"}

\* What a process knows follows from where it is.
Knowing(p) ==
  /\ key[p] = None <=> pc[p] \in Keyless
  /\ sem[p] = None <=> pc[p] \in Semless
  /\ seg[p] = None <=> pc[p] \in Segless
  /\ holding[p] => pc[p] = "up"
  /\ semOwner[p] => pc[p] \notin Semless \cup {"unlink"}
  /\ segOwner[p] => pc[p] \notin Segless \cup {"rmsem", "unlink"}

\* Each object has a number of its own, and the next numbers are unused.
Numbers ==
  /\ \A p \in Procs : sem[p] <= sems /\ seg[p] <= segs
  /\ \A i \in Inodes : semAt[i] <= sems /\ segAt[i] <= segs
  /\ \A i, j \in Inodes : semAt[i] = semAt[j] /\ semAt[i] # None => i = j
  /\ \A i, j \in Inodes : segAt[i] = segAt[j] /\ segAt[i] # None => i = j
  /\ \A s \in Ids : s > sems => value[s] = 0
  /\ \A g \in Ids : g > segs => ~full[g]

\* One start creates at most one semaphore and one segment.
SemToCome(p) == IF pc[p] \in {"create", "semget", "semcreate"} THEN 1 ELSE 0
SegToCome(p) == IF pc[p] \in Segless \ {"down"} THEN 1 ELSE 0
Counted ==
  /\ sems + SemToCome("client") + SemToCome("server")
       <= starts["client"] + starts["server"]
  /\ segs + SegToCome("client") + SegToCome("server")
       <= starts["client"] + starts["server"]

Shape == TypeOK /\ (\A p \in Procs : Knowing(p)) /\ Numbers /\ Counted

\* Until a removal there is one file, and under its inode all that there is.
OneFile ==
  /\ \A p \in Procs : pc[p] \notin {"down", "create"} => file # None
  /\ \A p \in Procs : key[p] # None => key[p] = file
  /\ \A i \in Inodes : semAt[i] # None \/ segAt[i] # None => i = file
  /\ \A p \in Procs : sem[p] # None => sem[p] = semAt[file]
  /\ \A p \in Procs : seg[p] # None => seg[p] = segAt[file]

\* While no init raced with the peer: who initialises does so alone, on one
\* file, and finds what it found before, ...
Alone(p) ==
  pc[p] \in Initialising =>
    /\ pc[Peer(p)] \in {"down", "up"}
    /\ pc[p] \notin Keyless => key[p] = file
    /\ pc[p] = "semcreate" => semAt[key[p]] = None
    /\ pc[p] = "shmcreate" => segAt[key[p]] = None
    /\ pc[p] \notin Semless => semAt[key[p]] = sem[p]
    /\ pc[p] \notin Segless => segAt[key[p]] = seg[p]
    /\ pc[p] = "setval" => sem[Peer(p)] # sem[p]
    /\ pc[p] = "memset" => seg[Peer(p)] # seg[p] /\ ~full[seg[p]]

\* ... the creator of an object has it to itself, and who created the semaphore
\* creates the segment and removes it first, ...
Owned(p) ==
  /\ semOwner[p] =>
       /\ semAt[key[p]] = sem[p]
       /\ semOwner[Peer(p)] => sem[Peer(p)] # sem[p]
       /\ pc[p] \notin Segless \cup {"rmsem"} => segOwner[p]
       /\ pc[p] \in Segless \cup {"rmsem"} => segAt[key[p]] = None
  /\ segOwner[p] =>
       /\ segAt[key[p]] = seg[p]
       /\ segOwner[Peer(p)] => seg[Peer(p)] # seg[p]

\* ... and so a segment goes with one semaphore.
Paired ==
  /\ \A i \in Inodes : segAt[i] # None => semAt[i] # None
  /\ \A p \in Procs, i \in Inodes :
       seg[p] # None /\ segAt[i] = seg[p] => semAt[i] = sem[p]
  /\ \A p, q \in Procs : seg[p] # None /\ seg[p] = seg[q] => sem[p] = sem[q]

Unraced == (\A p \in Procs : Alone(p) /\ Owned(p)) /\ Paired /\ ~wiped

\* With prompt holders the permit is one, held on a semaphore that exists, and
\* not held by anybody once deinit has waited for it.
OneOf(s) ==
  LiveSem(s) =>
    /\ value[s] <= 1
    /\ \A p \in Procs : holding[p] /\ sem[p] = s =>
         value[s] = 0 /\ ~(holding[Peer(p)] /\ sem[Peer(p)] = s)
Drained(p) ==
  pc[p] \in {"rmshm", "rmsem"} =>
    /\ LiveSem(sem[p]) => value[sem[p]] = 0
    /\ ~(holding[Peer(p)] /\ sem[Peer(p)] = sem[p])
Permit ==
  /\ \A s \in Ids : OneOf(s)
  /\ \A p \in Procs : (holding[p] => LiveSem(sem[p])) /\ Drained(p)

Sound ==
  /\ Shape
  /\ ~removed => OneFile
  /\ ~raced => Unraced
  /\ PromptHolders /\ ~raced => Permit

-------------------------------------------------------------------------------
(* Steps.  p moves and o is its peer. *)

Moves(p) ==
  \/ InitOpen(p) \/ InitStep(p) \/ Use(p) \/ Deinit(p) \/ Crash(p)
  \/ Repair /\ p = "server"

LEMMA SomebodyMoves == ASSUME Next PROVE \E p \in Procs : Moves(p)
BY DEF Next, Moves, Procs

LEMMA Pair ==
  ASSUME NEW p \in Procs
  PROVE  /\ Peer(p) \in Procs /\ Peer(p) # p /\ Peer(Peer(p)) = p
         /\ \A q \in Procs : q = p \/ q = Peer(p)
BY DEF Procs, Peer

\* Types: the next numbers are numbers of objects, and no permit goes below zero.
LEMMA TypedKept ==
  ASSUME Shape, NEW p \in Procs, Moves(p) PROVE TypeOK'
<1> USE InodeAssumption, BoundAssumption
      DEF None, Initialising, Leaving, Keyless, Semless, Segless, Goto, Forget, kernel,
          owners, ghosts
<1> DEFINE o == Peer(p)
<1>0. /\ o \in Procs /\ o # p /\ Peer(o) = p /\ Peer(p) = o
      /\ \A q \in Procs : q = p \/ q = o
  BY Pair
<1> HIDE DEF o
<1>1. CASE InitOpen(p)
  <2>1. starts[p] + 1 \in 0..MaxStarts
    BY <1>1 DEF InitOpen, Shape, TypeOK
  <2> QED BY <1>1, <2>1 DEF InitOpen, Shape, TypeOK
<1>2. CASE InitCreatesFile(p)
  BY <1>0, <1>2 DEF Shape, TypeOK, InitCreatesFile
<1>3. CASE InitFails(p)
  BY <1>0, <1>3 DEF Shape, TypeOK, InitFails
<1>4. CASE SemGet(p)
  BY <1>0, <1>4 DEF Shape, TypeOK, SemGet
<1>5. CASE SemCreate(p)
  <2>1. semAt[key[p]] = None => sems + 1 \in Ids
    <3>1. SemToCome(p) = 1 /\ SemToCome(o) \in {0, 1}
      BY <1>5 DEF SemCreate, SemToCome
    <3>2. sems + SemToCome(p) + SemToCome(o) <= starts[p] + starts[o]
      BY <1>0 DEF Shape, Counted, TypeOK, Procs, SemToCome
    <3> QED BY <1>0, <3>1, <3>2 DEF Shape, TypeOK, Ids
  <2>2. key[p] \in Inodes
    BY <1>0, <1>5 DEF SemCreate, Shape, TypeOK, Knowing
  <2>3. semAt' \in [Inodes -> Ids \cup {None}] /\ sems' \in 0..(2 * MaxStarts)
    <3>1. CASE semAt[key[p]] = None
      <4>1. sems + 1 \in Ids /\ sems + 1 \in 0..(2 * MaxStarts)
        BY <2>1, <3>1 DEF Ids
      <4>2. sems' = sems + 1 /\ semAt' = [semAt EXCEPT ![key[p]] = sems + 1]
        BY <1>5, <3>1 DEF SemCreate
      <4> QED BY <2>2, <4>1, <4>2 DEF Shape, TypeOK
    <3>2. CASE semAt[key[p]] # None
      BY <1>5, <3>2 DEF SemCreate, Shape, TypeOK
    <3> QED BY <3>1, <3>2
  <2> QED BY <1>5, <2>2, <2>3 DEF SemCreate, Shape, TypeOK
<1>6. CASE SemSetval(p)
  BY <1>0, <1>6 DEF Shape, TypeOK, SemSetval
<1>7. CASE ShmGet(p)
  BY <1>0, <1>7 DEF Shape, TypeOK, ShmGet
<1>8. CASE ShmCreate(p)
  <2>1. segAt[key[p]] = None => segs + 1 \in Ids
    <3>1. SegToCome(p) = 1 /\ SegToCome(o) \in {0, 1}
      BY <1>8 DEF ShmCreate, SegToCome
    <3>2. segs + SegToCome(p) + SegToCome(o) <= starts[p] + starts[o]
      BY <1>0 DEF Shape, Counted, TypeOK, Procs, SegToCome
    <3> QED BY <1>0, <3>1, <3>2 DEF Shape, TypeOK, Ids
  <2>2. key[p] \in Inodes
    BY <1>0, <1>8 DEF ShmCreate, Shape, TypeOK, Knowing
  <2>3. segAt' \in [Inodes -> Ids \cup {None}] /\ segs' \in 0..(2 * MaxStarts)
    <3>1. CASE segAt[key[p]] = None
      <4>1. segs + 1 \in Ids /\ segs + 1 \in 0..(2 * MaxStarts)
        BY <2>1, <3>1 DEF Ids
      <4>2. segs' = segs + 1 /\ segAt' = [segAt EXCEPT ![key[p]] = segs + 1]
        BY <1>8, <3>1 DEF ShmCreate
      <4> QED BY <2>2, <4>1, <4>2 DEF Shape, TypeOK
    <3>2. CASE segAt[key[p]] # None
      BY <1>8, <3>2 DEF ShmCreate, Shape, TypeOK
    <3> QED BY <3>1, <3>2
  <2> QED BY <1>8, <2>2, <2>3 DEF ShmCreate, Shape, TypeOK
<1>9. CASE ShmMemset(p)
  BY <1>0, <1>9 DEF Shape, TypeOK, ShmMemset
<1>10. CASE Attach(p)
  BY <1>0, <1>10 DEF Shape, TypeOK, Attach
<1>11. CASE Enter(p)
  <2>1. sem[p] \in Ids /\ value[sem[p]] \in Nat
    BY <1>0, <1>11 DEF Enter, Shape, TypeOK, Knowing
  <2> QED BY <1>0, <1>11, <2>1 DEF Enter, Shape, TypeOK
<1>12. CASE Access(p)
  BY <1>0, <1>12 DEF Shape, TypeOK, Access
<1>13. CASE Leave(p)
  <2>1. sem[p] \in Ids /\ value[sem[p]] \in Nat
    BY <1>0, <1>13 DEF Leave, Shape, TypeOK, Knowing
  <2> QED BY <1>0, <1>13, <2>1 DEF Leave, Shape, TypeOK
<1>14. CASE Repair /\ p = "server"
  BY <1>0, <1>14 DEF Shape, TypeOK, Repair
<1>15. CASE DeinitDetach(p)
  BY <1>0, <1>15 DEF Shape, TypeOK, DeinitDetach
<1>16. CASE DeinitDrains(p)
  <2>1. sem[p] \in Ids /\ value[sem[p]] \in Nat
    BY <1>0, <1>16 DEF DeinitDrains, Shape, TypeOK, Knowing
  <2> QED BY <1>0, <1>16, <2>1 DEF DeinitDrains, Shape, TypeOK
<1>17. CASE DeinitDrainFails(p)
  BY <1>0, <1>17 DEF Shape, TypeOK, DeinitDrainFails
<1>18. CASE DeinitShm(p)
  BY <1>0, <1>18 DEF Shape, TypeOK, DeinitShm
<1>19. CASE DeinitSem(p)
  BY <1>0, <1>19 DEF Shape, TypeOK, DeinitSem
<1>20. CASE DeinitFails(p)
  <2>1. pc' \in [Procs -> {"down", "up"} \cup Initialising \cup Leaving]
    BY <1>20 DEF DeinitFails, Shape, TypeOK
  <2> QED BY <1>20, <2>1 DEF DeinitFails, Shape, TypeOK
<1>21. CASE DeinitUnlinks(p)
  BY <1>0, <1>21 DEF Shape, TypeOK, DeinitUnlinks
<1>22. CASE Crash(p)
  BY <1>0, <1>22 DEF Shape, TypeOK, Crash
<1> QED
  BY <1>0, <1>1, <1>2, <1>3, <1>4, <1>5, <1>6, <1>7, <1>8, <1>9, <1>10, <1>11, <1>12,
     <1>13, <1>14, <1>15, <1>16, <1>17, <1>18, <1>19, <1>20, <1>21, <1>22
  DEF Moves, InitStep, Use, Deinit

\* Forget takes everything from a process that goes down; before, it gains in order.
LEMMA KnowingKept ==
  ASSUME Shape, TypeOK', NEW p \in Procs, Moves(p) PROVE \A q \in Procs : Knowing(q)'
<1> USE InodeAssumption, BoundAssumption
      DEF None, Initialising, Leaving, Keyless, Semless, Segless, Goto, Forget, kernel,
          owners, ghosts
<1> DEFINE o == Peer(p)
<1>0. /\ o \in Procs /\ o # p /\ Peer(o) = p /\ Peer(p) = o
      /\ \A q \in Procs : q = p \/ q = o
  BY Pair
<1> HIDE DEF o
<1> SUFFICES Knowing(p)' /\ Knowing(o)'
  BY <1>0
<1>1. CASE InitOpen(p)
  BY <1>0, <1>1 DEF Shape, TypeOK, Knowing, Ids, InitOpen
<1>2. CASE InitCreatesFile(p)
  BY <1>0, <1>2 DEF Shape, TypeOK, Knowing, Ids, InitCreatesFile
<1>3. CASE InitFails(p)
  BY <1>0, <1>3 DEF Shape, TypeOK, Knowing, Ids, InitFails
<1>4. CASE SemGet(p)
  BY <1>0, <1>4 DEF Shape, TypeOK, Knowing, Ids, SemGet
<1>5. CASE SemCreate(p)
  BY <1>0, <1>5 DEF Shape, TypeOK, Knowing, Ids, SemCreate
<1>6. CASE SemSetval(p)
  BY <1>0, <1>6 DEF Shape, TypeOK, Knowing, Ids, SemSetval
<1>7. CASE ShmGet(p)
  BY <1>0, <1>7 DEF Shape, TypeOK, Knowing, Ids, ShmGet
<1>8. CASE ShmCreate(p)
  BY <1>0, <1>8 DEF Shape, TypeOK, Knowing, Ids, ShmCreate
<1>9. CASE ShmMemset(p)
  BY <1>0, <1>9 DEF Shape, TypeOK, Knowing, Ids, ShmMemset
<1>10. CASE Attach(p)
  BY <1>0, <1>10 DEF Shape, TypeOK, Knowing, Ids, Attach
<1>11. CASE Enter(p)
  BY <1>0, <1>11 DEF Shape, TypeOK, Knowing, Ids, Enter
<1>12. CASE Access(p)
  BY <1>0, <1>12 DEF Shape, TypeOK, Knowing, Ids, Access
<1>13. CASE Leave(p)
  BY <1>0, <1>13 DEF Shape, TypeOK, Knowing, Ids, Leave
<1>14. CASE Repair /\ p = "server"
  BY <1>0, <1>14 DEF Shape, TypeOK, Knowing, Ids, Repair
<1>15. CASE DeinitDetach(p)
  BY <1>0, <1>15 DEF Shape, TypeOK, Knowing, Ids, DeinitDetach
<1>16. CASE DeinitDrains(p)
  BY <1>0, <1>16 DEF Shape, TypeOK, Knowing, Ids, DeinitDrains
<1>17. CASE DeinitDrainFails(p)
  BY <1>0, <1>17 DEF Shape, TypeOK, Knowing, Ids, DeinitDrainFails
<1>18. CASE DeinitShm(p)
  BY <1>0, <1>18 DEF Shape, TypeOK, Knowing, Ids, DeinitShm
<1>19. CASE DeinitSem(p)
  BY <1>0, <1>19 DEF Shape, TypeOK, Knowing, Ids, DeinitSem
<1>20. CASE DeinitFails(p)
  BY <1>0, <1>20 DEF Shape, TypeOK, Knowing, Ids, DeinitFails
<1>21. CASE DeinitUnlinks(p)
  BY <1>0, <1>21 DEF Shape, TypeOK, Knowing, Ids, DeinitUnlinks
<1>22. CASE Crash(p)
  BY <1>0, <1>22 DEF Shape, TypeOK, Knowing, Ids, Crash
<1> QED
  BY <1>0, <1>1, <1>2, <1>3, <1>4, <1>5, <1>6, <1>7, <1>8, <1>9, <1>10, <1>11, <1>12,
     <1>13, <1>14, <1>15, <1>16, <1>17, <1>18, <1>19, <1>20, <1>21, <1>22
  DEF Moves, InitStep, Use, Deinit

\* Only SemCreate and ShmCreate give a number to an object, and a new one.
LEMMA NumbersKept ==
  ASSUME Shape, TypeOK', NEW p \in Procs, Moves(p) PROVE Numbers'
<1> USE InodeAssumption, BoundAssumption
      DEF None, Initialising, Leaving, Keyless, Semless, Segless, Goto, Forget, kernel,
          owners, ghosts
<1> DEFINE o == Peer(p)
<1>0. /\ o \in Procs /\ o # p /\ Peer(o) = p /\ Peer(p) = o
      /\ \A q \in Procs : q = p \/ q = o
  BY Pair
<1> HIDE DEF o
<1>1. CASE InitOpen(p)
  BY <1>0, <1>1 DEF Shape, TypeOK, Knowing, Numbers, Ids, InitOpen
<1>2. CASE InitCreatesFile(p)
  BY <1>0, <1>2 DEF Shape, TypeOK, Knowing, Numbers, Ids, InitCreatesFile
<1>3. CASE InitFails(p)
  BY <1>0, <1>3 DEF Shape, TypeOK, Knowing, Numbers, Ids, InitFails
<1>4. CASE SemGet(p)
  BY <1>0, <1>4 DEF Shape, TypeOK, Knowing, Numbers, Ids, SemGet
<1>5. CASE SemCreate(p)
  <2>1. key[p] \in Inodes
    BY <1>0, <1>5 DEF SemCreate, Shape, TypeOK, Knowing
  <2>0. UNCHANGED <<segAt, segs, seg, value, full>>
    BY <1>5 DEF SemCreate
  <2>2. CASE semAt[key[p]] = None
    <3>1. /\ sems' = sems + 1 /\ semAt' = [semAt EXCEPT ![key[p]] = sems + 1]
          /\ sem' = [sem EXCEPT ![p] = sems + 1]
      BY <1>5, <2>1, <2>2 DEF SemCreate, Shape, TypeOK
    <3>2. /\ sems \in Nat /\ \A s \in Ids : s \in Nat
          /\ \A q \in Procs : sem[q] \in Nat /\ sem[q] <= sems
          /\ \A i \in Inodes : semAt[i] \in Nat /\ semAt[i] <= sems
      BY DEF Shape, TypeOK, Numbers, Ids
    <3>3. \A q \in Procs : sem'[q] <= sems'
      BY <3>1, <3>2 DEF Shape, TypeOK
    <3>4. \A i \in Inodes : semAt'[i] <= sems'
      BY <3>1, <3>2 DEF Shape, TypeOK
    <3>5. \A i, j \in Inodes : semAt'[i] = semAt'[j] /\ semAt'[i] # None => i = j
      <4>1. \A i \in Inodes : semAt[i] # sems + 1
        BY <3>2
      <4> QED BY <3>1, <4>1 DEF Shape, TypeOK, Numbers
    <3> QED BY <2>0, <3>1, <3>2, <3>3, <3>4, <3>5 DEF Shape, Numbers
  <2>3. CASE semAt[key[p]] # None
    <3>1. UNCHANGED <<sems, semAt>> /\ sem' = [sem EXCEPT ![p] = semAt[key[p]]]
      BY <1>5, <2>1, <2>3 DEF SemCreate
    <3>2. /\ \A q \in Procs : sem'[q] <= sems'
          /\ \A i, j \in Inodes : semAt'[i] = semAt'[j] /\ semAt'[i] # None => i = j
      BY <2>1, <3>1 DEF Shape, TypeOK, Numbers
    <3> QED BY <2>0, <3>1, <3>2 DEF Shape, Numbers
  <2> QED BY <2>2, <2>3
<1>6. CASE SemSetval(p)
  BY <1>0, <1>6 DEF Shape, TypeOK, Knowing, Numbers, Ids, SemSetval
<1>7. CASE ShmGet(p)
  BY <1>0, <1>7 DEF Shape, TypeOK, Knowing, Numbers, Ids, ShmGet
<1>8. CASE ShmCreate(p)
  <2>1. key[p] \in Inodes
    BY <1>0, <1>8 DEF ShmCreate, Shape, TypeOK, Knowing
  <2>0. UNCHANGED <<semAt, sems, sem, value, full>>
    BY <1>8 DEF ShmCreate
  <2>2. CASE segAt[key[p]] = None
    <3>1. /\ segs' = segs + 1 /\ segAt' = [segAt EXCEPT ![key[p]] = segs + 1]
          /\ seg' = [seg EXCEPT ![p] = segs + 1]
      BY <1>8, <2>1, <2>2 DEF ShmCreate, Shape, TypeOK
    <3>2. /\ segs \in Nat /\ \A s \in Ids : s \in Nat
          /\ \A q \in Procs : seg[q] \in Nat /\ seg[q] <= segs
          /\ \A i \in Inodes : segAt[i] \in Nat /\ segAt[i] <= segs
      BY DEF Shape, TypeOK, Numbers, Ids
    <3>3. \A q \in Procs : seg'[q] <= segs'
      BY <3>1, <3>2 DEF Shape, TypeOK
    <3>4. \A i \in Inodes : segAt'[i] <= segs'
      BY <3>1, <3>2 DEF Shape, TypeOK
    <3>5. \A i, j \in Inodes : segAt'[i] = segAt'[j] /\ segAt'[i] # None => i = j
      <4>1. \A i \in Inodes : segAt[i] # segs + 1
        BY <3>2
      <4> QED BY <3>1, <4>1 DEF Shape, TypeOK, Numbers
    <3> QED BY <2>0, <3>1, <3>2, <3>3, <3>4, <3>5 DEF Shape, Numbers
  <2>3. CASE segAt[key[p]] # None
    <3>1. UNCHANGED <<segs, segAt>> /\ seg' = [seg EXCEPT ![p] = segAt[key[p]]]
      BY <1>8, <2>1, <2>3 DEF ShmCreate
    <3>2. /\ \A q \in Procs : seg'[q] <= segs'
          /\ \A i, j \in Inodes : segAt'[i] = segAt'[j] /\ segAt'[i] # None => i = j
      BY <2>1, <3>1 DEF Shape, TypeOK, Numbers
    <3> QED BY <2>0, <3>1, <3>2 DEF Shape, Numbers
  <2> QED BY <2>2, <2>3
<1>9. CASE ShmMemset(p)
  BY <1>0, <1>9 DEF Shape, TypeOK, Knowing, Numbers, Ids, ShmMemset
<1>10. CASE Attach(p)
  BY <1>0, <1>10 DEF Shape, TypeOK, Knowing, Numbers, Ids, Attach
<1>11. CASE Enter(p)
  BY <1>0, <1>11 DEF Shape, TypeOK, Knowing, Numbers, Ids, Enter
<1>12. CASE Access(p)
  BY <1>0, <1>12 DEF Shape, TypeOK, Knowing, Numbers, Ids, Access
<1>13. CASE Leave(p)
  BY <1>0, <1>13 DEF Shape, TypeOK, Knowing, Numbers, Ids, Leave
<1>14. CASE Repair /\ p = "server"
  BY <1>0, <1>14 DEF Shape, TypeOK, Knowing, Numbers, Ids, Repair
<1>15. CASE DeinitDetach(p)
  BY <1>0, <1>15 DEF Shape, TypeOK, Knowing, Numbers, Ids, DeinitDetach
<1>16. CASE DeinitDrains(p)
  BY <1>0, <1>16 DEF Shape, TypeOK, Knowing, Numbers, Ids, DeinitDrains
<1>17. CASE DeinitDrainFails(p)
  BY <1>0, <1>17 DEF Shape, TypeOK, Knowing, Numbers, Ids, DeinitDrainFails
<1>18. CASE DeinitShm(p)
  BY <1>0, <1>18 DEF Shape, TypeOK, Knowing, Numbers, Ids, DeinitShm
<1>19. CASE DeinitSem(p)
  BY <1>0, <1>19 DEF Shape, TypeOK, Knowing, Numbers, Ids, DeinitSem
<1>20. CASE DeinitFails(p)
  BY <1>0, <1>20 DEF Shape, TypeOK, Knowing, Numbers, Ids, DeinitFails
<1>21. CASE DeinitUnlinks(p)
  BY <1>0, <1>21 DEF Shape, TypeOK, Knowing, Numbers, Ids, DeinitUnlinks
<1>22. CASE Crash(p)
  BY <1>0, <1>22 DEF Shape, TypeOK, Knowing, Numbers, Ids, Crash
<1> QED
  BY <1>0, <1>1, <1>2, <1>3, <1>4, <1>5, <1>6, <1>7, <1>8, <1>9, <1>10, <1>11, <1>12,
     <1>13, <1>14, <1>15, <1>16, <1>17, <1>18, <1>19, <1>20, <1>21, <1>22
  DEF Moves, InitStep, Use, Deinit

\* A start that has passed its creation has no object to come.
LEMMA CountedKept ==
  ASSUME Shape, NEW p \in Procs, Moves(p) PROVE Counted'
<1> USE InodeAssumption, BoundAssumption
      DEF None, Initialising, Leaving, Keyless, Semless, Segless, Goto, Forget, kernel,
          owners, ghosts
<1> DEFINE o == Peer(p)
<1>0. /\ o \in Procs /\ o # p /\ Peer(o) = p /\ Peer(p) = o
      /\ \A q \in Procs : q = p \/ q = o
  BY Pair
<1> HIDE DEF o
<1>1. CASE InitOpen(p)
  BY <1>0, <1>1 DEF Shape, TypeOK, Knowing, Counted, SemToCome, SegToCome, Procs, Peer,
                    InitOpen
<1>2. CASE InitCreatesFile(p)
  BY <1>0, <1>2 DEF Shape, TypeOK, Knowing, Counted, SemToCome, SegToCome, Procs, Peer,
                    InitCreatesFile
<1>3. CASE InitFails(p)
  BY <1>0, <1>3 DEF Shape, TypeOK, Knowing, Counted, SemToCome, SegToCome, Procs, Peer,
                    InitFails
<1>4. CASE SemGet(p)
  BY <1>0, <1>4 DEF Shape, TypeOK, Knowing, Counted, SemToCome, SegToCome, Procs, Peer,
                    SemGet
<1>5. CASE SemCreate(p)
  BY <1>0, <1>5 DEF Shape, TypeOK, Knowing, Counted, SemToCome, SegToCome, Procs, Peer,
                    SemCreate
<1>6. CASE SemSetval(p)
  BY <1>0, <1>6 DEF Shape, TypeOK, Knowing, Counted, SemToCome, SegToCome, Procs, Peer,
                    SemSetval
<1>7. CASE ShmGet(p)
  BY <1>0, <1>7 DEF Shape, TypeOK, Knowing, Counted, SemToCome, SegToCome, Procs, Peer,
                    ShmGet
<1>8. CASE ShmCreate(p)
  BY <1>0, <1>8 DEF Shape, TypeOK, Knowing, Counted, SemToCome, SegToCome, Procs, Peer,
                    ShmCreate
<1>9. CASE ShmMemset(p)
  BY <1>0, <1>9 DEF Shape, TypeOK, Knowing, Counted, SemToCome, SegToCome, Procs, Peer,
                    ShmMemset
<1>10. CASE Attach(p)
  BY <1>0, <1>10 DEF Shape, TypeOK, Knowing, Counted, SemToCome, SegToCome, Procs, Peer,
                     Attach
<1>11. CASE Enter(p)
  BY <1>0, <1>11 DEF Shape, TypeOK, Knowing, Counted, SemToCome, SegToCome, Procs, Peer,
                     Enter
<1>12. CASE Access(p)
  BY <1>0, <1>12 DEF Shape, TypeOK, Knowing, Counted, SemToCome, SegToCome, Procs, Peer,
                     Access
<1>13. CASE Leave(p)
  BY <1>0, <1>13 DEF Shape, TypeOK, Knowing, Counted, SemToCome, SegToCome, Procs, Peer,
                     Leave
<1>14. CASE Repair /\ p = "server"
  BY <1>0, <1>14 DEF Shape, TypeOK, Knowing, Counted, SemToCome, SegToCome, Procs, Peer,
                     Repair
<1>15. CASE DeinitDetach(p)
  BY <1>0, <1>15 DEF Shape, TypeOK, Knowing, Counted, SemToCome, SegToCome, Procs, Peer,
                     DeinitDetach
<1>16. CASE DeinitDrains(p)
  BY <1>0, <1>16 DEF Shape, TypeOK, Knowing, Counted, SemToCome, SegToCome, Procs, Peer,
                     DeinitDrains
<1>17. CASE DeinitDrainFails(p)
  BY <1>0, <1>17 DEF Shape, TypeOK, Knowing, Counted, SemToCome, SegToCome, Procs, Peer,
                     DeinitDrainFails
<1>18. CASE DeinitShm(p)
  BY <1>0, <1>18 DEF Shape, TypeOK, Knowing, Counted, SemToCome, SegToCome, Procs, Peer,
                     DeinitShm
<1>19. CASE DeinitSem(p)
  BY <1>0, <1>19 DEF Shape, TypeOK, Knowing, Counted, SemToCome, SegToCome, Procs, Peer,
                     DeinitSem
<1>20. CASE DeinitFails(p)
  BY <1>0, <1>20 DEF Shape, TypeOK, Knowing, Counted, SemToCome, SegToCome, Procs, Peer,
                     DeinitFails
<1>21. CASE DeinitUnlinks(p)
  BY <1>0, <1>21 DEF Shape, TypeOK, Knowing, Counted, SemToCome, SegToCome, Procs, Peer,
                     DeinitUnlinks
<1>22. CASE Crash(p)
  BY <1>0, <1>22 DEF Shape, TypeOK, Knowing, Counted, SemToCome, SegToCome, Procs, Peer,
                     Crash
<1> QED
  BY <1>0, <1>1, <1>2, <1>3, <1>4, <1>5, <1>6, <1>7, <1>8, <1>9, <1>10, <1>11, <1>12,
     <1>13, <1>14, <1>15, <1>16, <1>17, <1>18, <1>19, <1>20, <1>21, <1>22
  DEF Moves, InitStep, Use, Deinit

\* Without a removal nobody finds another file, semaphore or segment.
LEMMA OneFileKept ==
  ASSUME Shape, Shape', ~removed', OneFile, NEW p \in Procs, Moves(p) PROVE OneFile'
<1> USE InodeAssumption, BoundAssumption
      DEF None, Initialising, Leaving, Keyless, Semless, Segless, Goto, Forget, kernel,
          owners, ghosts
<1> DEFINE o == Peer(p)
<1>0. /\ o \in Procs /\ o # p /\ Peer(o) = p /\ Peer(p) = o
      /\ \A q \in Procs : q = p \/ q = o
  BY Pair
<1> HIDE DEF o
<1>1. CASE InitOpen(p)
  BY <1>0, <1>1 DEF Shape, TypeOK, Knowing, OneFile, InitOpen
<1>2. CASE InitCreatesFile(p)
  BY <1>0, <1>2 DEF Shape, TypeOK, Knowing, OneFile, InitCreatesFile
<1>3. CASE InitFails(p)
  BY <1>0, <1>3 DEF Shape, TypeOK, Knowing, OneFile, InitFails
<1>4. CASE SemGet(p)
  BY <1>0, <1>4 DEF Shape, TypeOK, Knowing, OneFile, SemGet
<1>5. CASE SemCreate(p)
  BY <1>0, <1>5 DEF Shape, TypeOK, Knowing, OneFile, SemCreate
<1>6. CASE SemSetval(p)
  BY <1>0, <1>6 DEF Shape, TypeOK, Knowing, OneFile, SemSetval
<1>7. CASE ShmGet(p)
  BY <1>0, <1>7 DEF Shape, TypeOK, Knowing, OneFile, ShmGet
<1>8. CASE ShmCreate(p)
  BY <1>0, <1>8 DEF Shape, TypeOK, Knowing, OneFile, ShmCreate
<1>9. CASE ShmMemset(p)
  BY <1>0, <1>9 DEF Shape, TypeOK, Knowing, OneFile, ShmMemset
<1>10. CASE Attach(p)
  BY <1>0, <1>10 DEF Shape, TypeOK, Knowing, OneFile, Attach
<1>11. CASE Enter(p)
  BY <1>0, <1>11 DEF Shape, TypeOK, Knowing, OneFile, Enter
<1>12. CASE Access(p)
  BY <1>0, <1>12 DEF Shape, TypeOK, Knowing, OneFile, Access
<1>13. CASE Leave(p)
  BY <1>0, <1>13 DEF Shape, TypeOK, Knowing, OneFile, Leave
<1>14. CASE Repair /\ p = "server"
  BY <1>0, <1>14 DEF Shape, TypeOK, Knowing, OneFile, Repair
<1>15. CASE DeinitDetach(p)
  BY <1>0, <1>15 DEF Shape, TypeOK, Knowing, OneFile, DeinitDetach
<1>16. CASE DeinitDrains(p)
  BY <1>0, <1>16 DEF Shape, TypeOK, Knowing, OneFile, DeinitDrains
<1>17. CASE DeinitDrainFails(p)
  BY <1>0, <1>17 DEF Shape, TypeOK, Knowing, OneFile, DeinitDrainFails
<1>18. CASE DeinitShm(p)
  BY <1>0, <1>18 DEF Shape, TypeOK, Knowing, OneFile, DeinitShm
<1>19. CASE DeinitSem(p)
  BY <1>0, <1>19 DEF Shape, TypeOK, Knowing, OneFile, DeinitSem
<1>20. CASE DeinitFails(p)
  BY <1>0, <1>20 DEF Shape, TypeOK, Knowing, OneFile, DeinitFails
<1>21. CASE DeinitUnlinks(p)
  BY <1>0, <1>21 DEF Shape, TypeOK, Knowing, OneFile, DeinitUnlinks
<1>22. CASE Crash(p)
  BY <1>0, <1>22 DEF Shape, TypeOK, Knowing, OneFile, Crash
<1> QED
  BY <1>0, <1>1, <1>2, <1>3, <1>4, <1>5, <1>6, <1>7, <1>8, <1>9, <1>10, <1>11, <1>12,
     <1>13, <1>14, <1>15, <1>16, <1>17, <1>18, <1>19, <1>20, <1>21, <1>22
  DEF Moves, InitStep, Use, Deinit

\* An init alone on its file stays so, as the peer can neither start nor leave.
LEMMA UnracedKept ==
  ASSUME Shape, Shape', ~raced, ~raced', Unraced, NEW p \in Procs, Moves(p) PROVE Unraced'
<1> USE InodeAssumption, BoundAssumption
      DEF None, Initialising, Leaving, Keyless, Semless, Segless, Goto, Forget, kernel,
          owners, ghosts
<1> DEFINE o == Peer(p)
<1>0. /\ o \in Procs /\ o # p /\ Peer(o) = p /\ Peer(p) = o
      /\ \A q \in Procs : q = p \/ q = o
  BY Pair
<1> HIDE DEF o
<1> SUFFICES Alone(p)' /\ Alone(o)' /\ Owned(p)' /\ Owned(o)' /\ Paired' /\ ~wiped'
  BY <1>0 DEF Unraced
<1>1. CASE InitOpen(p)
  <2>0. pc[o] \notin Initialising \cup Leaving
    <3>1. raced' = (raced \/ pc[Peer(p)] \in Initialising \cup Leaving)
      BY <1>1 DEF InitOpen
    <3> QED BY <1>0, <3>1
  <2>1. pc[o] \in {"down", "up"} /\ pc'[o] = pc[o] /\ pc'[p] \in {"create", "semget"}
    BY <1>0, <1>1, <2>0 DEF InitOpen, Shape, TypeOK
  <2> QED
    BY <1>0, <1>1, <2>1 DEF Shape, TypeOK, Knowing, Unraced, Alone, Owned, Paired, Numbers,
                            InitOpen
<1>2. CASE InitCreatesFile(p)
  BY <1>0, <1>2 DEF Shape, TypeOK, Knowing, Unraced, Alone, Owned, Paired, Numbers,
                    InitCreatesFile
<1>3. CASE InitFails(p)
  BY <1>0, <1>3 DEF Shape, TypeOK, Knowing, Unraced, Alone, Owned, Paired, Numbers,
                    InitFails
<1>4. CASE SemGet(p)
  BY <1>0, <1>4 DEF Shape, TypeOK, Knowing, Unraced, Alone, Owned, Paired, Numbers, SemGet
<1>5. CASE SemCreate(p)
  <2>1. Alone(p)'
    BY <1>0, <1>5 DEF Shape, TypeOK, Knowing, Unraced, Alone, Owned, Paired, Numbers,
                      SemCreate
  <2>2. Alone(o)'
    BY <1>0, <1>5 DEF Shape, TypeOK, Knowing, Unraced, Alone, Owned, Paired, Numbers,
                      SemCreate
  <2>3. Owned(p)'
    BY <1>0, <1>5 DEF Shape, TypeOK, Knowing, Unraced, Alone, Owned, Paired, Numbers,
                      SemCreate
  <2>4. Owned(o)'
    <3>1. /\ semAt[key[p]] = None /\ key[p] \in Inodes /\ sems \in Nat
          /\ sem[o] <= sems /\ sem[o] \in Nat
      BY <1>0, <1>5 DEF SemCreate, Shape, TypeOK, Knowing, Unraced, Alone, Numbers, Ids
    <3>2. /\ semAt' = [semAt EXCEPT ![key[p]] = sems + 1]
          /\ sem' = [sem EXCEPT ![p] = sems + 1]
      BY <1>5, <3>1 DEF SemCreate, Shape, TypeOK
    <3>3. /\ pc'[o] = pc[o] /\ semOwner'[o] = semOwner[o] /\ sem'[o] = sem[o]
          /\ UNCHANGED <<key, segAt, segOwner, seg>>
      BY <1>0, <1>5, <3>2 DEF SemCreate, Shape, TypeOK
    <3>4. semOwner[o] => sem[o] # None /\ key[o] # key[p]
      BY <1>0, <3>1 DEF Unraced, Owned, Shape, Knowing
    <3>5. sem'[p] = sems + 1 /\ sem[o] # sems + 1
      BY <3>1, <3>2 DEF Shape, TypeOK
    <3>6. semOwner[o] => semAt'[key[o]] = semAt[key[o]]
      BY <1>0, <3>2, <3>4 DEF Shape, TypeOK, Knowing
    <3> QED BY <1>0, <3>3, <3>5, <3>6 DEF Unraced, Owned
  <2>5. Paired'
    BY <1>0, <1>5 DEF Shape, TypeOK, Knowing, Unraced, Alone, Owned, Paired, Numbers,
                      SemCreate
  <2>6. ~wiped'
    BY <1>0, <1>5 DEF Shape, TypeOK, Knowing, Unraced, Alone, Owned, Paired, Numbers,
                      SemCreate
  <2> QED BY <2>1, <2>2, <2>3, <2>4, <2>5, <2>6
<1>6. CASE SemSetval(p)
  BY <1>0, <1>6 DEF Shape, TypeOK, Knowing, Unraced, Alone, Owned, Paired, Numbers,
                    SemSetval
<1>7. CASE ShmGet(p)
  <2>1. Alone(p)'
    BY <1>0, <1>7 DEF Shape, TypeOK, Knowing, Unraced, Alone, Owned, Paired, Numbers, ShmGet
  <2>2. Alone(o)'
    BY <1>0, <1>7 DEF Shape, TypeOK, Knowing, Unraced, Alone, Owned, Paired, Numbers, ShmGet
  <2>3. Owned(p)'
    BY <1>0, <1>7 DEF Shape, TypeOK, Knowing, Unraced, Alone, Owned, Paired, Numbers, ShmGet
  <2>4. Owned(o)'
    BY <1>0, <1>7 DEF Shape, TypeOK, Knowing, Unraced, Alone, Owned, Paired, Numbers, ShmGet
  <2>5. Paired'
    <3>1. /\ file \in Inodes /\ semAt[file] = sem[p]
          /\ seg' = [seg EXCEPT ![p] = segAt[file]] /\ UNCHANGED <<semAt, segAt, sem>>
      BY <1>0, <1>7 DEF ShmGet, Shape, TypeOK, Knowing, Unraced, Alone
    <3> QED BY <1>0, <3>1 DEF Shape, TypeOK, Numbers, Unraced, Paired
  <2>6. ~wiped'
    BY <1>0, <1>7 DEF Shape, TypeOK, Knowing, Unraced, Alone, Owned, Paired, Numbers, ShmGet
  <2> QED BY <2>1, <2>2, <2>3, <2>4, <2>5, <2>6
<1>8. CASE ShmCreate(p)
  BY <1>0, <1>8 DEF Shape, TypeOK, Knowing, Unraced, Alone, Owned, Paired, Numbers,
                    ShmCreate
<1>9. CASE ShmMemset(p)
  BY <1>0, <1>9 DEF Shape, TypeOK, Knowing, Unraced, Alone, Owned, Paired, Numbers,
                    ShmMemset
<1>10. CASE Attach(p)
  BY <1>0, <1>10 DEF Shape, TypeOK, Knowing, Unraced, Alone, Owned, Paired, Numbers, Attach
<1>11. CASE Enter(p)
  BY <1>0, <1>11 DEF Shape, TypeOK, Knowing, Unraced, Alone, Owned, Paired, Numbers, Enter
<1>12. CASE Access(p)
  BY <1>0, <1>12 DEF Shape, TypeOK, Knowing, Unraced, Alone, Owned, Paired, Numbers, Access
<1>13. CASE Leave(p)
  BY <1>0, <1>13 DEF Shape, TypeOK, Knowing, Unraced, Alone, Owned, Paired, Numbers, Leave
<1>14. CASE Repair /\ p = "server"
  BY <1>0, <1>14 DEF Shape, TypeOK, Knowing, Unraced, Alone, Owned, Paired, Numbers, Repair
<1>15. CASE DeinitDetach(p)
  <2>1. Alone(p)'
    BY <1>0, <1>15 DEF Shape, TypeOK, Knowing, Unraced, Alone, Owned, Paired, Numbers,
                       DeinitDetach
  <2>2. Alone(o)'
    <3>1. raced' = (raced \/ pc[Peer(p)] \in Initialising)
      BY <1>15 DEF DeinitDetach
    <3>2. pc'[o] = pc[o]
      BY <1>0, <1>15 DEF DeinitDetach, Shape, TypeOK
    <3> QED BY <1>0, <3>1, <3>2 DEF Alone
  <2>3. Owned(p)'
    BY <1>0, <1>15 DEF Shape, TypeOK, Knowing, Unraced, Alone, Owned, Paired, Numbers,
                       DeinitDetach
  <2>4. Owned(o)'
    BY <1>0, <1>15 DEF Shape, TypeOK, Knowing, Unraced, Alone, Owned, Paired, Numbers,
                       DeinitDetach
  <2>5. Paired'
    BY <1>15 DEF DeinitDetach, Unraced, Paired
  <2>6. ~wiped'
    BY <1>0, <1>15 DEF Shape, TypeOK, Knowing, Unraced, Alone, Owned, Paired, Numbers,
                       DeinitDetach
  <2> QED BY <2>1, <2>2, <2>3, <2>4, <2>5, <2>6
<1>16. CASE DeinitDrains(p)
  BY <1>0, <1>16 DEF Shape, TypeOK, Knowing, Unraced, Alone, Owned, Paired, Numbers,
                     DeinitDrains
<1>17. CASE DeinitDrainFails(p)
  BY <1>0, <1>17 DEF Shape, TypeOK, Knowing, Unraced, Alone, Owned, Paired, Numbers,
                     DeinitDrainFails
<1>18. CASE DeinitShm(p)
  BY <1>0, <1>18 DEF Shape, TypeOK, Knowing, Unraced, Alone, Owned, Paired, Numbers,
                     DeinitShm
<1>19. CASE DeinitSem(p)
  <2>1. Alone(p)'
    BY <1>0, <1>19 DEF Shape, TypeOK, Knowing, Unraced, Alone, Owned, Paired, Numbers,
                       DeinitSem
  <2>2. Alone(o)'
    BY <1>0, <1>19 DEF Shape, TypeOK, Knowing, Unraced, Alone, Owned, Paired, Numbers,
                       DeinitSem
  <2>3. Owned(p)'
    BY <1>0, <1>19 DEF Shape, TypeOK, Knowing, Unraced, Alone, Owned, Paired, Numbers,
                       DeinitSem
  <2>4. Owned(o)'
    BY <1>0, <1>19 DEF Shape, TypeOK, Knowing, Unraced, Alone, Owned, Paired, Numbers,
                       DeinitSem
  <2>5. Paired'
    <3>1. CASE semOwner[p]
      <4>1. /\ semAt[key[p]] = sem[p] /\ segAt[key[p]] = None
            /\ key[p] \in Inodes /\ sem[p] # None
        BY <1>0, <1>19, <3>1 DEF DeinitSem, Shape, TypeOK, Knowing, Unraced, Owned
      <4>2. /\ semAt' = [i \in Inodes |-> IF semAt[i] = sem[p] THEN None ELSE semAt[i]]
            /\ UNCHANGED <<segAt, sem, seg>>
        BY <1>19, <3>1 DEF DeinitSem
      <4>3. \A i \in Inodes : segAt[i] # None => semAt'[i] = semAt[i]
        BY <4>1, <4>2 DEF Shape, Numbers
      <4> QED BY <4>2, <4>3 DEF Unraced, Paired
    <3>2. CASE ~semOwner[p]
      BY <1>19, <3>2 DEF DeinitSem, Unraced, Paired
    <3> QED BY <3>1, <3>2
  <2>6. ~wiped'
    BY <1>0, <1>19 DEF Shape, TypeOK, Knowing, Unraced, Alone, Owned, Paired, Numbers,
                       DeinitSem
  <2> QED BY <2>1, <2>2, <2>3, <2>4, <2>5, <2>6
<1>20. CASE DeinitFails(p)
  BY <1>0, <1>20 DEF Shape, TypeOK, Knowing, Unraced, Alone, Owned, Paired, Numbers,
                     DeinitFails
<1>21. CASE DeinitUnlinks(p)
  BY <1>0, <1>21 DEF Shape, TypeOK, Knowing, Unraced, Alone, Owned, Paired, Numbers,
                     DeinitUnlinks
<1>22. CASE Crash(p)
  BY <1>0, <1>22 DEF Shape, TypeOK, Knowing, Unraced, Alone, Owned, Paired, Numbers, Crash
<1> QED
  BY <1>0, <1>1, <1>2, <1>3, <1>4, <1>5, <1>6, <1>7, <1>8, <1>9, <1>10, <1>11, <1>12,
     <1>13, <1>14, <1>15, <1>16, <1>17, <1>18, <1>19, <1>20, <1>21, <1>22
  DEF Moves, InitStep, Use, Deinit

\* SETVAL meets a semaphore nobody knows, repair one nobody holds, deinit takes the
\* permit that nobody else can then have.
LEMMA PermitKept ==
  ASSUME Shape, Shape', ~raced, ~raced', Unraced, PromptHolders, Permit,
         NEW p \in Procs, Moves(p)
  PROVE  Permit'
<1> USE InodeAssumption, BoundAssumption
      DEF None, Initialising, Leaving, Keyless, Semless, Segless, Goto, Forget, kernel,
          owners, ghosts
<1> DEFINE o == Peer(p)
<1>0. /\ o \in Procs /\ o # p /\ Peer(o) = p /\ Peer(p) = o
      /\ \A q \in Procs : q = p \/ q = o
  BY Pair
<1> HIDE DEF o
<1>1. CASE InitOpen(p)
  <2>1. \A s : LiveSem(s)' <=> LiveSem(s)
    BY <1>1 DEF InitOpen, LiveSem
  <2> QED
    BY <1>0, <1>1, <2>1 DEF Shape, TypeOK, Knowing, Unraced, Alone, Owned, Permit, OneOf,
                            Drained, HolderOf, Numbers, InitOpen
<1>2. CASE InitCreatesFile(p)
  <2>1. \A s : LiveSem(s)' <=> LiveSem(s)
    BY <1>2 DEF InitCreatesFile, LiveSem
  <2> QED
    BY <1>0, <1>2, <2>1 DEF Shape, TypeOK, Knowing, Unraced, Alone, Owned, Permit, OneOf,
                            Drained, HolderOf, Numbers, InitCreatesFile
<1>3. CASE InitFails(p)
  <2>1. \A s : LiveSem(s)' <=> LiveSem(s)
    BY <1>3 DEF InitFails, LiveSem
  <2> QED
    BY <1>0, <1>3, <2>1 DEF Shape, TypeOK, Knowing, Unraced, Alone, Owned, Permit, OneOf,
                            Drained, HolderOf, Numbers, InitFails
<1>4. CASE SemGet(p)
  <2>1. \A s : LiveSem(s)' <=> LiveSem(s)
    BY <1>4 DEF SemGet, LiveSem
  <2> QED
    BY <1>0, <1>4, <2>1 DEF Shape, TypeOK, Knowing, Unraced, Alone, Owned, Permit, OneOf,
                            Drained, HolderOf, Numbers, SemGet
<1>5. CASE SemCreate(p)
  BY <1>0, <1>5 DEF Shape, TypeOK, Knowing, Unraced, Alone, Owned, Permit, OneOf, Drained,
                    HolderOf, Numbers, SemCreate, LiveSem
<1>6. CASE SemSetval(p)
  <2>1. \A s : LiveSem(s)' <=> LiveSem(s)
    BY <1>6 DEF SemSetval, LiveSem
  <2> QED
    BY <1>0, <1>6, <2>1 DEF Shape, TypeOK, Knowing, Unraced, Alone, Owned, Permit, OneOf,
                            Drained, HolderOf, Numbers, SemSetval
<1>7. CASE ShmGet(p)
  <2>1. \A s : LiveSem(s)' <=> LiveSem(s)
    BY <1>7 DEF ShmGet, LiveSem
  <2> QED
    BY <1>0, <1>7, <2>1 DEF Shape, TypeOK, Knowing, Unraced, Alone, Owned, Permit, OneOf,
                            Drained, HolderOf, Numbers, ShmGet
<1>8. CASE ShmCreate(p)
  <2>1. \A s : LiveSem(s)' <=> LiveSem(s)
    BY <1>8 DEF ShmCreate, LiveSem
  <2> QED
    BY <1>0, <1>8, <2>1 DEF Shape, TypeOK, Knowing, Unraced, Alone, Owned, Permit, OneOf,
                            Drained, HolderOf, Numbers, ShmCreate
<1>9. CASE ShmMemset(p)
  <2>1. \A s : LiveSem(s)' <=> LiveSem(s)
    BY <1>9 DEF ShmMemset, LiveSem
  <2> QED
    BY <1>0, <1>9, <2>1 DEF Shape, TypeOK, Knowing, Unraced, Alone, Owned, Permit, OneOf,
                            Drained, HolderOf, Numbers, ShmMemset
<1>10. CASE Attach(p)
  <2>1. \A s : LiveSem(s)' <=> LiveSem(s)
    BY <1>10 DEF Attach, LiveSem
  <2> QED
    BY <1>0, <1>10, <2>1 DEF Shape, TypeOK, Knowing, Unraced, Alone, Owned, Permit, OneOf,
                             Drained, HolderOf, Numbers, Attach
<1>11. CASE Enter(p)
  <2>1. \A s : LiveSem(s)' <=> LiveSem(s)
    BY <1>11 DEF Enter, LiveSem
  <2> QED
    BY <1>0, <1>11, <2>1 DEF Shape, TypeOK, Knowing, Unraced, Alone, Owned, Permit, OneOf,
                             Drained, HolderOf, Numbers, Enter
<1>12. CASE Access(p)
  <2>1. \A s : LiveSem(s)' <=> LiveSem(s)
    BY <1>12 DEF Access, LiveSem
  <2> QED
    BY <1>0, <1>12, <2>1 DEF Shape, TypeOK, Knowing, Unraced, Alone, Owned, Permit, OneOf,
                             Drained, HolderOf, Numbers, Access
<1>13. CASE Leave(p)
  <2>1. \A s : LiveSem(s)' <=> LiveSem(s)
    BY <1>13 DEF Leave, LiveSem
  <2> QED
    BY <1>0, <1>13, <2>1 DEF Shape, TypeOK, Knowing, Unraced, Alone, Owned, Permit, OneOf,
                             Drained, HolderOf, Numbers, Leave
<1>14. CASE Repair /\ p = "server"
  <2>1. \A s : LiveSem(s)' <=> LiveSem(s)
    BY <1>14 DEF Repair, LiveSem
  <2> QED
    BY <1>0, <1>14, <2>1 DEF Shape, TypeOK, Knowing, Unraced, Alone, Owned, Permit, OneOf,
                             Drained, HolderOf, Numbers, Repair
<1>15. CASE DeinitDetach(p)
  <2>1. \A s : LiveSem(s)' <=> LiveSem(s)
    BY <1>15 DEF DeinitDetach, LiveSem
  <2> QED
    BY <1>0, <1>15, <2>1 DEF Shape, TypeOK, Knowing, Unraced, Alone, Owned, Permit, OneOf,
                             Drained, HolderOf, Numbers, DeinitDetach
<1>16. CASE DeinitDrains(p)
  <2>1. \A s : LiveSem(s)' <=> LiveSem(s)
    BY <1>16 DEF DeinitDrains, LiveSem
  <2> QED
    BY <1>0, <1>16, <2>1 DEF Shape, TypeOK, Knowing, Unraced, Alone, Owned, Permit, OneOf,
                             Drained, HolderOf, Numbers, DeinitDrains
<1>17. CASE DeinitDrainFails(p)
  <2>1. \A s : LiveSem(s)' <=> LiveSem(s)
    BY <1>17 DEF DeinitDrainFails, LiveSem
  <2> QED
    BY <1>0, <1>17, <2>1 DEF Shape, TypeOK, Knowing, Unraced, Alone, Owned, Permit, OneOf,
                             Drained, HolderOf, Numbers, DeinitDrainFails
<1>18. CASE DeinitShm(p)
  <2>1. \A s : LiveSem(s)' <=> LiveSem(s)
    BY <1>18 DEF DeinitShm, LiveSem
  <2> QED
    BY <1>0, <1>18, <2>1 DEF Shape, TypeOK, Knowing, Unraced, Alone, Owned, Permit, OneOf,
                             Drained, HolderOf, Numbers, DeinitShm
<1>19. CASE DeinitSem(p)
  <2>1. ASSUME NEW s \in Ids PROVE OneOf(s)'
    <3>1. LiveSem(s)' => LiveSem(s)
      BY <1>19 DEF DeinitSem, Shape, TypeOK, LiveSem, Ids
    <3> QED BY <1>19, <3>1 DEF DeinitSem, Permit, OneOf
  <2>2. \A q \in Procs : (holding[q] => LiveSem(sem[q]))' /\ Drained(q)'
    BY <1>0, <1>19 DEF Shape, TypeOK, Knowing, Unraced, Alone, Owned, Permit, OneOf,
                       Drained,
                       HolderOf, Numbers, DeinitSem, LiveSem
  <2> QED BY <2>1, <2>2 DEF Permit
<1>20. CASE DeinitFails(p)
  <2>1. \A s : LiveSem(s)' <=> LiveSem(s)
    BY <1>20 DEF DeinitFails, LiveSem
  <2> QED
    BY <1>0, <1>20, <2>1 DEF Shape, TypeOK, Knowing, Unraced, Alone, Owned, Permit, OneOf,
                             Drained, HolderOf, Numbers, DeinitFails
<1>21. CASE DeinitUnlinks(p)
  <2>1. \A s : LiveSem(s)' <=> LiveSem(s)
    BY <1>21 DEF DeinitUnlinks, LiveSem
  <2> QED
    BY <1>0, <1>21, <2>1 DEF Shape, TypeOK, Knowing, Unraced, Alone, Owned, Permit, OneOf,
                             Drained, HolderOf, Numbers, DeinitUnlinks
<1>22. CASE Crash(p)
  <2>1. \A s : LiveSem(s)' <=> LiveSem(s)
    BY <1>22 DEF Crash, LiveSem
  <2> QED
    BY <1>0, <1>22, <2>1 DEF Shape, TypeOK, Knowing, Unraced, Alone, Owned, Permit, OneOf,
                             Drained, HolderOf, Numbers, Crash
<1> QED
  BY <1>0, <1>1, <1>2, <1>3, <1>4, <1>5, <1>6, <1>7, <1>8, <1>9, <1>10, <1>11, <1>12,
     <1>13, <1>14, <1>15, <1>16, <1>17, <1>18, <1>19, <1>20, <1>21, <1>22
  DEF Moves, InitStep, Use, Deinit

LEMMA ShapeKept == ASSUME Shape, NEW p \in Procs, Moves(p) PROVE Shape'
BY TypedKept, KnowingKept, NumbersKept, CountedKept DEF Shape

LEMMA SoundInit == Init => Sound
<1> SUFFICES ASSUME Init PROVE Sound
  OBVIOUS
<1> USE InodeAssumption, BoundAssumption
      DEF None, Initialising, Leaving, Keyless, Semless, Segless
<1>1. TypeOK
  <2>1. 0 \in Nat /\ 0 \in 0..MaxStarts /\ 0 \in 0..(2 * MaxStarts) BY DEF Ids
  <2> QED BY <2>1 DEF Init, TypeOK
<1>2. \A p \in Procs : Knowing(p) BY DEF Init, Knowing
<1>3. Numbers BY DEF Init, Numbers
<1>4. Counted BY DEF Init, Counted, SemToCome, SegToCome, Procs
<1>5. OneFile BY DEF Init, OneFile
<1>6. \A p \in Procs : Alone(p) /\ Owned(p) BY DEF Init, Alone, Owned
<1>7. Paired /\ ~wiped BY DEF Init, Paired
<1>8. Permit BY DEF Init, Permit, OneOf, Drained, LiveSem, Ids
<1> QED BY <1>1, <1>2, <1>3, <1>4, <1>5, <1>6, <1>7, <1>8 DEF Sound, Shape, Unraced

\* What has raced, and what has been removed, stays so.
LEMMA PastStays ==
  ASSUME NEW p \in Procs, Moves(p)
  PROVE  (raced => raced') /\ (removed => removed')
<1>1. CASE InitOpen(p)
  BY <1>1, Zenon DEF InitOpen
<1>2. CASE InitStep(p)
  BY <1>2 DEF InitStep, InitCreatesFile, InitFails, SemGet, SemCreate, SemSetval,
              ShmGet, ShmCreate, ShmMemset, Attach, ghosts
<1>3. CASE Use(p) \/ Repair \/ Crash(p)
  BY <1>3 DEF Use, Enter, Access, Leave, Repair, Crash, ghosts
<1>4. CASE DeinitDetach(p)
  BY <1>4, Zenon DEF DeinitDetach
<1>5. CASE DeinitShm(p) \/ DeinitSem(p) \/ DeinitUnlinks(p)
  <2>1. raced' = raced /\ (\E b : removed' = (removed \/ b))
    <3>1. CASE DeinitShm(p) BY <3>1, Zenon DEF DeinitShm
    <3>2. CASE DeinitSem(p) BY <3>2, Zenon DEF DeinitSem
    <3>3. CASE DeinitUnlinks(p) BY <3>3, Zenon DEF DeinitUnlinks
    <3> QED BY <1>5, <3>1, <3>2, <3>3
  <2> QED BY <2>1, Zenon
<1>6. CASE DeinitDrains(p) \/ DeinitDrainFails(p) \/ DeinitFails(p)
  BY <1>6 DEF DeinitDrains, DeinitDrainFails, DeinitFails, ghosts
<1> QED BY <1>1, <1>2, <1>3, <1>4, <1>5, <1>6 DEF Moves, Deinit

LEMMA SoundStep == Sound /\ [Next]_vars => Sound'
<1>1. ASSUME Sound, Next PROVE Sound'
  <2>1. PICK p \in Procs : Moves(p) BY <1>1, SomebodyMoves
  <2>2. Shape /\ Shape' BY <1>1, <2>1, ShapeKept DEF Sound
  <2>3. (raced => raced') /\ (removed => removed') BY <2>1, PastStays
  <2>4. ~removed' => OneFile' BY <1>1, <2>1, <2>2, <2>3, OneFileKept DEF Sound
  <2>5. ~raced' => Unraced' BY <1>1, <2>1, <2>2, <2>3, UnracedKept DEF Sound
  <2>6. PromptHolders /\ ~raced' => Permit'
    BY <1>1, <2>1, <2>2, <2>3, PermitKept DEF Sound
  <2> QED BY <2>2, <2>4, <2>5, <2>6 DEF Sound
<1>2. ASSUME Sound, UNCHANGED vars PROVE Sound'
  BY <1>2 DEF vars, kernel, owners, ghosts, Sound, Shape, TypeOK, Knowing, Numbers, Counted,
              SemToCome, SegToCome, OneFile, Unraced, Alone, Owned, Paired, Permit, OneOf,
              Drained, LiveSem
<1> QED BY <1>1, <1>2

LEMMA SoundAlways == Spec => []Sound
BY SoundInit, SoundStep, PTL DEF Spec

-------------------------------------------------------------------------------
(* Theorems *)

\* Sem::init and Shm::init, in two processes at once and whatever crashes in
\* between, lead both to one semaphore and one segment that exist, until some
\* deinit removed one.
THEOREM SameChannelHolds == Spec => []SameChannel
<1>1. Sound => SameChannel
  <2> SUFFICES ASSUME Sound, ~removed, \A p \in Procs : pc[p] = "up"
               PROVE  /\ sem["client"] = sem["server"] /\ seg["client"] = seg["server"]
                      /\ LiveSem(sem["client"]) /\ LiveSeg(seg["client"])
    BY DEF SameChannel
  <2>1. OneFile /\ file \in Inodes
    BY DEF Sound, OneFile, Shape, TypeOK, Procs
  <2>2. \A p \in Procs : sem[p] # None /\ seg[p] # None
    BY DEF Sound, Shape, Knowing, Keyless, Semless, Segless
  <2>3. \A p \in Procs : sem[p] = semAt[file] /\ seg[p] = segAt[file]
    BY <2>1, <2>2 DEF OneFile
  <2> QED BY <2>1, <2>3 DEF LiveSem, LiveSeg, Procs
<1> QED BY <1>1, SoundAlways, PTL

\* Sem::init with SETVAL, the critical sections, recv's repair and deinit's wait
\* never make a second permit of one semaphore, unless inits race, when nobody
\* keeps the permit as long as recv and deinit wait.
THEOREM OnePermitHolds == ASSUME PromptHolders PROVE Spec => []OnePermit
<1>1. ASSUME Sound, ~raced, NEW s \in Ids, LiveSem(s)
      PROVE  value[s] + Cardinality({p \in Procs : holding[p] /\ sem[p] = s}) <= 1
  <2> DEFINE H == {p \in Procs : holding[p] /\ sem[p] = s}
  <2>1. OneOf(s) /\ value[s] \in Nat BY <1>1 DEF Sound, Permit, Shape, TypeOK
  <2>2. CASE H = {}
    BY <1>1, <2>1, <2>2, FS_EmptySet DEF OneOf
  <2>3. ASSUME NEW p \in H PROVE value[s] + Cardinality(H) <= 1
    <3>1. value[s] = 0 /\ H = {p}
      BY <1>1, <2>1, Pair DEF OneOf
    <3>2. Cardinality(H) = 1 BY <3>1, FS_Singleton
    <3> QED BY <3>1, <3>2
  <2> QED BY <2>2, <2>3
<1>2. Sound => OnePermit BY <1>1 DEF OnePermit
<1> QED BY <1>2, SoundAlways, PTL

\* Whoever is in send or recv has the segment for itself, also when objects of
\* several generations are about, and no init clears a published frame.
THEOREM PeersUndisturbedHolds == ASSUME PromptHolders PROVE Spec => []PeersUndisturbed
<1>1. ASSUME Sound, ~raced, \A p \in Procs : holding[p], seg["client"] = seg["server"]
      PROVE  FALSE
  <2>1. seg["client"] # None
    BY <1>1 DEF Sound, Shape, Knowing, Procs, Keyless, Semless, Segless
  <2>2. sem["client"] = sem["server"]
    BY <1>1, <2>1 DEF Sound, Unraced, Paired, Procs
  <2>3. LiveSem(sem["client"]) /\ sem["client"] \in Ids
    BY <1>1 DEF Sound, Permit, Shape, TypeOK, LiveSem, Knowing, Procs, Keyless, Semless,
                None
  <2> QED BY <1>1, <2>2, <2>3 DEF Sound, Permit, OneOf, Procs, Peer
<1>2. Sound => NoFrameWiped BY DEF Sound, Unraced, NoFrameWiped
<1>3. Sound => PeersUndisturbed BY <1>1, <1>2 DEF PeersUndisturbed, ExclusiveUse
<1> QED BY <1>3, SoundAlways, PTL

\* Shm::deinit removes no segment while the peer is in send or recv on it: the
\* wait before it took the permit or found the peer gone.
THEOREM DrainedBeforeRemovalHolds ==
  ASSUME PromptHolders PROVE Spec => DrainedBeforeRemoval
<1>1. ASSUME Sound, NEW p \in Procs, ~raced, pc[p] = "rmshm"
      PROVE  ~(holding[Peer(p)] /\ seg[Peer(p)] = seg[p])
  <2>1. Peer(p) \in Procs BY Pair
  <2>2. seg[p] # None
    BY <1>1 DEF Sound, Shape, Knowing, Keyless, Semless, Segless
  <2>3. seg[Peer(p)] = seg[p] => sem[Peer(p)] = sem[p]
    BY <1>1, <2>1, <2>2 DEF Sound, Unraced, Paired
  <2> QED BY <1>1, <2>1, <2>3 DEF Sound, Permit, Drained
<1>2. Sound /\ [Next]_vars =>
        [\A p \in Procs :
           ~raced /\ segOwner[p] /\ pc[p] = "rmshm" /\ pc'[p] = "rmsem"
             => ~(holding[Peer(p)] /\ seg[Peer(p)] = seg[p])]_vars
  BY <1>1
<1> QED BY <1>2, SoundAlways, PTL DEF Spec, DrainedBeforeRemoval
===============================================================================
