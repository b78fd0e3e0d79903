----------------------------- MODULE FrameChannel -----------------------------
(***************************************************************************)
(* One shared-memory channel between two processes: a semaphore (class     *)
(* Sem), a shared header with a state flag, a one-frame data area, and the *)
(* send and recv of ShareVideo / ShareAudio / ShareTalk.  The producing    *)
(* process may call send from several threads; the consuming process calls *)
(* recv from one worker thread (WorkerTask is about why there is one).     *)
(*                                                                         *)
(* The semaphore is a plain System V counter: a process that dies while it *)
(* holds the permit takes it along (no SEM_UNDO), a process that detaches  *)
(* takes the permit and never gives it back (ShareX::deinit), and recv     *)
(* repairs that by adding a permit after __MAX_CNT__ + 1 failed waits, once in  *)
(* the life of the channel object.                                         *)
(*                                                                         *)
(* Abstractions.  A frame is a value; its shared image is one word per     *)
(* element of Parts (header fields and pieces of the payload), stored and  *)
(* loaded one by one.  The millisecond polling of waitTmOut is a wait that *)
(* may take a free permit at any time and may give up while none is free.  *)
(***************************************************************************)
EXTENDS Naturals, FiniteSets, ChannelClasses

CONSTANTS
  Senders,        \* threads of the producing process
  Receiver,       \* the worker thread of the consuming process
  Frames,         \* frame contents
  NoFrame,        \* an unwritten word, an empty box
  Torn,           \* what a callback saw if its words belong to different frames
  Parts,          \* the words of the shared image of a frame
  StateWord,      \* the store to head->state that publishes a frame
  Class,          \* the channel class, a record of ChannelClasses
  PromptHolders,  \* no thread keeps the permit as long as a recv wait lasts
  ProgramOrder,   \* the build stores head->state after the other words
  SenderFaults,   \* bound: crashes or detachments of the producing process
  ReceiverFaults  \* bound: crashes or detachments of the consuming process

Threads == Senders \cup {Receiver}
Solo == \A s, t \in Senders : s = t

ASSUME ThreadAssumption == IsFiniteSet(Senders) /\ Receiver \notin Senders
ASSUME FrameAssumption == /\ NoFrame \notin Frames
                          /\ Torn \notin Frames \cup {NoFrame}
                          /\ Parts # {}
                          /\ StateWord \notin Parts
ASSUME ClassAssumption == IsClass(Class)
ASSUME FaultAssumption == SenderFaults \in Nat /\ ReceiverFaults \in Nat
ASSUME FlagAssumption == {PromptHolders, ProgramOrder} \subseteq BOOLEAN

VARIABLES
  sem,         \* value of the System V semaphore
  state,       \* head->state: 0 may be written, 1 must be read
  slot,        \* the words of the shared image
  pc,          \* where each thread is in send or recv
  todo,        \* words the thread still has to store or load
  waited,      \* waitReadCnt of the running call
  frame,       \* frame a sender is sending
  copy,        \* words the receiver's callback has loaded
  failedCnt,   \* m_waitRecvFailedCnt
  semReset,    \* m_semReset
  lost,        \* ghost: permits that left with a process
  resets,      \* ghost: permits recv added
  faults,      \* ghost: faults of the two processes so far
  last,        \* ghost: what the most recent finished callback saw
  handed       \* ghost: callbacks finished for the frame in the slot

chan == <<sem, state, slot>>
recvObj == <<failedCnt, semReset>>
ghosts == <<lost, resets, faults, last, handed>>
vars == <<sem, state, slot, pc, todo, waited, frame, copy, failedCnt, semReset,
          lost, resets, faults, last, handed>>

\* Where a thread holds the permit.
Owning == {"check", "copy", "read", "clear", "give", "yield"}
Labels == Owning \cup {"idle", "wait", "reset"}
Holders == {t \in Threads : pc[t] \in Owning}

Blank == [p \in Parts |-> NoFrame]
Whole(f) == [p \in Parts |-> f]
Value(words) == IF \E f \in Frames : words = Whole(f)
                  THEN CHOOSE f \in Frames : words = Whole(f)
                  ELSE Torn

TypeOK ==
  /\ sem \in Nat
  /\ state \in {0, 1}
  /\ slot \in [Parts -> Frames \cup {NoFrame}]
  /\ pc \in [Threads -> Labels]
  /\ todo \in [Threads -> SUBSET (Parts \cup {StateWord})]
  /\ waited \in [Threads -> Nat]
  /\ frame \in [Senders -> Frames \cup {NoFrame}]
  /\ copy \in [Parts -> Frames \cup {NoFrame}]
  /\ failedCnt \in 0..(Class.maxCnt + 1)
  /\ semReset \in BOOLEAN
  /\ lost \in Nat
  /\ resets \in Nat
  /\ faults \in [{"sender", "receiver"} -> Nat]
  /\ last \in Frames \cup {NoFrame, Torn}
  /\ handed \in Nat

Init ==
  /\ sem = 1
  /\ state = 0
  /\ slot = Blank
  /\ pc = [t \in Threads |-> "idle"]
  /\ todo = [t \in Threads |-> {}]
  /\ waited = [t \in Threads |-> 0]
  /\ frame = [s \in Senders |-> NoFrame]
  /\ copy = Blank
  /\ failedCnt = 0
  /\ semReset = FALSE
  /\ lost = 0 /\ resets = 0
  /\ faults = [p \in {"sender", "receiver"} |-> 0]
  /\ last = NoFrame /\ handed = 0

Goto(t, from, to) == pc[t] = from /\ pc' = [pc EXCEPT ![t] = to]

-------------------------------------------------------------------------------
(* Steps with a plausible bug.  They are not part of the specification: each   *)
(* one in the place of its original is what some property has to catch.        *)

\* send signals on its way out although its wait failed.
SendTimeoutSignals(s) ==
  /\ Goto(s, "wait", "idle")
  /\ sem = 0
  /\ sem' = sem + 1
  /\ frame' = [frame EXCEPT ![s] = NoFrame]
  /\ waited' = [waited EXCEPT ![s] = 0]
  /\ UNCHANGED <<state, slot, todo, copy, recvObj, ghosts>>

\* send does not look at head->state.
SendIgnoresState(s) ==
  /\ Goto(s, "check", "copy")
  /\ todo' = [todo EXCEPT ![s] = Parts \cup {StateWord}]
  /\ UNCHANGED <<chan, waited, frame, copy, recvObj, ghosts>>

\* send does not advance waitReadCnt.
SendRetriesUncounted(s) ==
  /\ Goto(s, "yield", "wait")
  /\ waited[s] < Class.sendMax
  /\ sem' = sem + 1
  /\ UNCHANGED <<state, slot, todo, waited, frame, copy, recvObj, ghosts>>

\* send gives up on a full slot and returns without its signal().
SendFailsSilently(s) ==
  /\ Goto(s, "yield", "idle")
  /\ waited[s] >= Class.sendMax
  /\ frame' = [frame EXCEPT ![s] = NoFrame]
  /\ waited' = [waited EXCEPT ![s] = 0]
  /\ UNCHANGED <<chan, todo, copy, recvObj, ghosts>>

\* recv notes a repair it does not make.
RecvResetIdle ==
  /\ Goto(Receiver, "reset", "idle")
  /\ semReset' = TRUE
  /\ failedCnt' = failedCnt + 1
  /\ resets' = resets + 1
  /\ waited' = [waited EXCEPT ![Receiver] = 0]
  /\ UNCHANGED <<chan, todo, frame, copy, lost, faults, last, handed>>

\* recv leaves the frame in the slot.
RecvKeepsFrame ==
  /\ Goto(Receiver, "clear", "give")
  /\ failedCnt' = IF Class.cntAtTake THEN failedCnt ELSE 0
  /\ UNCHANGED <<chan, todo, waited, frame, copy, semReset, ghosts>>

-------------------------------------------------------------------------------
(* send *)

CallSend(s, f) ==
  /\ Goto(s, "idle", "wait")
  /\ frame' = [frame EXCEPT ![s] = f]
  /\ waited' = [waited EXCEPT ![s] = 0]
  /\ UNCHANGED <<chan, todo, copy, recvObj, ghosts>>

\* waitTmOut gets the permit.
SendTake(s) ==
  /\ Goto(s, "wait", "check")
  /\ sem > 0
  /\ sem' = sem - 1
  /\ UNCHANGED <<state, slot, todo, waited, frame, copy, recvObj, ghosts>>

\* The last attempt of waitTmOut found no permit: send returns -1.
SendTimeout(s) ==
  /\ Goto(s, "wait", "idle")
  /\ sem = 0
  /\ frame' = [frame EXCEPT ![s] = NoFrame]
  /\ waited' = [waited EXCEPT ![s] = 0]
  /\ UNCHANGED <<chan, todo, copy, recvObj, ghosts>>

SendCheckEmpty(s) ==
  /\ Goto(s, "check", "copy")
  /\ state = 0
  /\ todo' = [todo EXCEPT ![s] = Parts \cup {StateWord}]
  /\ UNCHANGED <<chan, waited, frame, copy, recvObj, ghosts>>

SendCheckFull(s) ==
  /\ Goto(s, "check", "yield")
  /\ state # 0
  /\ UNCHANGED <<chan, todo, waited, frame, copy, recvObj, ghosts>>

\* One store of memcpy, of the header fields, or of head->state.
Store(s, w) ==
  /\ pc[s] = "copy"
  /\ w \in todo[s]
  /\ w = StateWord /\ ProgramOrder => todo[s] = {StateWord}
  /\ todo' = [todo EXCEPT ![s] = @ \ {w}]
  /\ slot' = IF w = StateWord THEN slot ELSE [slot EXCEPT ![w] = frame[s]]
  /\ state' = IF w = StateWord THEN 1 ELSE state
  /\ pc' = IF todo[s] = {w} THEN [pc EXCEPT ![s] = "give"] ELSE pc
  /\ handed' = IF todo[s] = {w} THEN 0 ELSE handed
  /\ UNCHANGED <<sem, waited, frame, copy, recvObj, lost, resets, faults, last>>

\* signal(), return 0.
SendGive(s) ==
  /\ Goto(s, "give", "idle")
  /\ sem' = sem + 1
  /\ frame' = [frame EXCEPT ![s] = NoFrame]
  /\ waited' = [waited EXCEPT ![s] = 0]
  /\ UNCHANGED <<state, slot, todo, copy, recvObj, ghosts>>

\* The slot was full: signal(), then give up or sleep and wait again.
SendYieldRetry(s) ==
  /\ Goto(s, "yield", "wait")
  /\ waited[s] < Class.sendMax
  /\ sem' = sem + 1
  /\ waited' = [waited EXCEPT ![s] = @ + Class.sendStep]
  /\ UNCHANGED <<state, slot, todo, frame, copy, recvObj, ghosts>>

SendYieldFail(s) ==
  /\ Goto(s, "yield", "idle")
  /\ waited[s] >= Class.sendMax
  /\ sem' = sem + 1
  /\ frame' = [frame EXCEPT ![s] = NoFrame]
  /\ waited' = [waited EXCEPT ![s] = 0]
  /\ UNCHANGED <<state, slot, todo, copy, recvObj, ghosts>>

-------------------------------------------------------------------------------
(* recv *)

CallRecv ==
  /\ Goto(Receiver, "idle", "wait")
  /\ UNCHANGED <<chan, todo, waited, frame, copy, recvObj, ghosts>>

RecvTake ==
  /\ Goto(Receiver, "wait", "check")
  /\ sem > 0
  /\ sem' = sem - 1
  /\ failedCnt' = IF Class.cntAtTake THEN 0 ELSE failedCnt
  /\ UNCHANGED <<state, slot, todo, waited, frame, copy, semReset, ghosts>>

\* waitTmOut failed.  PromptHolders excludes a wait that outlasts a holder.
RecvWaitFails == sem = 0 /\ (PromptHolders => Holders = {})

\* The failure that makes recv add a permit ...
RecvTimeoutReset ==
  /\ Goto(Receiver, "wait", "reset")
  /\ RecvWaitFails
  /\ failedCnt = Class.maxCnt /\ ~semReset
  /\ UNCHANGED <<chan, todo, waited, frame, copy, recvObj, ghosts>>

\* ... which it does by a signal() of its own; the count is compared with
\* __MAX_CNT__ only, so it is held one above it.
Counted == IF failedCnt > Class.maxCnt THEN failedCnt ELSE failedCnt + 1

RecvReset ==
  /\ Goto(Receiver, "reset", "idle")
  /\ sem' = sem + 1
  /\ semReset' = TRUE
  /\ failedCnt' = Counted
  /\ resets' = resets + 1
  /\ waited' = [waited EXCEPT ![Receiver] = 0]
  /\ UNCHANGED <<state, slot, todo, frame, copy, lost, faults, last, handed>>

\* Any other failure: recv returns -1.
RecvTimeout ==
  /\ Goto(Receiver, "wait", "idle")
  /\ RecvWaitFails
  /\ failedCnt # Class.maxCnt \/ semReset
  /\ failedCnt' = Counted
  /\ waited' = [waited EXCEPT ![Receiver] = 0]
  /\ UNCHANGED <<chan, todo, frame, copy, semReset, ghosts>>

RecvCheckFull ==
  /\ Goto(Receiver, "check", "read")
  /\ state = 1
  /\ todo' = [todo EXCEPT ![Receiver] = Parts]
  /\ UNCHANGED <<chan, waited, frame, copy, recvObj, ghosts>>

RecvCheckEmpty ==
  /\ Goto(Receiver, "check", "yield")
  /\ state # 1
  /\ UNCHANGED <<chan, todo, waited, frame, copy, recvObj, ghosts>>

\* The callback gets pointers and references into the segment: it loads the
\* words itself, while the sender may run.
Load(w) ==
  /\ pc[Receiver] = "read"
  /\ w \in todo[Receiver]
  /\ copy' = [copy EXCEPT ![w] = slot[w]]
  /\ todo' = [todo EXCEPT ![Receiver] = @ \ {w}]
  /\ UNCHANGED <<chan, pc, waited, frame, recvObj, ghosts>>

CallbackReturns ==
  /\ Goto(Receiver, "read", "clear")
  /\ todo[Receiver] = {}
  /\ last' = Value(copy)
  /\ handed' = handed + 1
  /\ copy' = Blank
  /\ UNCHANGED <<chan, todo, waited, frame, recvObj, lost, resets, faults>>

\* head->state = 0 (and, in ShareTalk, m_waitRecvFailedCnt = 0).
RecvClear ==
  /\ Goto(Receiver, "clear", "give")
  /\ state' = 0
  /\ failedCnt' = IF Class.cntAtTake THEN failedCnt ELSE 0
  /\ UNCHANGED <<sem, slot, todo, waited, frame, copy, semReset, ghosts>>

RecvGive ==
  /\ Goto(Receiver, "give", "idle")
  /\ sem' = sem + 1
  /\ waited' = [waited EXCEPT ![Receiver] = 0]
  /\ UNCHANGED <<state, slot, todo, frame, copy, recvObj, ghosts>>

RecvPatient == IF Class.recvStrict THEN waited[Receiver] <= Class.recvMax
                             ELSE waited[Receiver] < Class.recvMax

RecvYieldRetry ==
  /\ Goto(Receiver, "yield", "wait")
  /\ RecvPatient
  /\ sem' = sem + 1
  /\ waited' = [waited EXCEPT ![Receiver] = @ + Class.recvStep]
  /\ UNCHANGED <<state, slot, todo, frame, copy, recvObj, ghosts>>

RecvYieldFail ==
  /\ Goto(Receiver, "yield", "idle")
  /\ ~RecvPatient
  /\ sem' = sem + 1
  /\ waited' = [waited EXCEPT ![Receiver] = 0]
  /\ UNCHANGED <<state, slot, todo, frame, copy, recvObj, ghosts>>

-------------------------------------------------------------------------------
(* Processes come and go.  The channel itself stays: the semaphore and the *)
(* segment outlive a process, and init of a process that finds them does   *)
(* not touch them (head->state is 0 or 1, so its memset is not taken).     *)

FaultsLeft(p) == faults[p] < IF p = "sender" THEN SenderFaults ELSE ReceiverFaults
CountFault(p) == faults' = [faults EXCEPT ![p] = @ + 1]

\* The threads of a process vanish; the permit one of them holds is lost.
Vanish(gone) ==
  /\ pc' = [t \in Threads |-> IF t \in gone THEN "idle" ELSE pc[t]]
  /\ todo' = [t \in Threads |-> IF t \in gone THEN {} ELSE todo[t]]
  /\ waited' = [t \in Threads |-> IF t \in gone THEN 0 ELSE waited[t]]
  /\ lost' = lost + Cardinality(Holders \cap gone)

\* The producing process dies and is started again.
SenderCrash ==
  /\ FaultsLeft("sender")
  /\ CountFault("sender")
  /\ Vanish(Senders)
  /\ frame' = [s \in Senders |-> NoFrame]
  /\ UNCHANGED <<chan, copy, recvObj, resets, last, handed>>

\* The consuming process dies and is started again with a new ShareX object.
ReceiverCrash ==
  /\ FaultsLeft("receiver")
  /\ CountFault("receiver")
  /\ Vanish({Receiver})
  /\ copy' = Blank
  /\ failedCnt' = 0 /\ semReset' = FALSE
  /\ UNCHANGED <<chan, frame, resets, last, handed>>

\* deinit of a process that did not create the channel, then init of its
\* successor: deinit waits for the permit and keeps it, or
\* goes on without it when the wait fails.
Detach(p, threads) ==
  /\ FaultsLeft(p)
  /\ CountFault(p)
  /\ \A t \in threads : pc[t] = "idle"
  /\ \/ /\ sem > 0
        /\ sem' = sem - 1
        /\ lost' = lost + 1
     \/ sem = 0 /\ UNCHANGED <<sem, lost>>

SenderDetach ==
  /\ Detach("sender", Senders)
  /\ UNCHANGED <<state, slot, pc, todo, waited, frame, copy, recvObj, resets,
                 last, handed>>

ReceiverDetach ==
  /\ Detach("receiver", {Receiver})
  /\ failedCnt' = 0 /\ semReset' = FALSE
  /\ UNCHANGED <<state, slot, pc, todo, waited, frame, copy, resets, last, handed>>

-------------------------------------------------------------------------------

SendStepOf(s) ==
  \/ SendTake(s) \/ SendTimeout(s)
  \/ SendCheckEmpty(s) \/ SendCheckFull(s)
  \/ \E w \in Parts \cup {StateWord} : Store(s, w)
  \/ SendGive(s) \/ SendYieldRetry(s) \/ SendYieldFail(s)

RecvStepOf ==
  \/ CallRecv \/ RecvTake
  \/ RecvTimeoutReset \/ RecvReset \/ RecvTimeout
  \/ RecvCheckFull \/ RecvCheckEmpty
  \/ \E w \in Parts : Load(w)
  \/ CallbackReturns \/ RecvClear \/ RecvGive
  \/ RecvYieldRetry \/ RecvYieldFail

Fault == SenderCrash \/ ReceiverCrash \/ SenderDetach \/ ReceiverDetach

Next ==
  \/ \E s \in Senders : SendStepOf(s) \/ \E f \in Frames : CallSend(s, f)
  \/ RecvStepOf
  \/ Fault

Spec == Init /\ [][Next]_vars

(* Fairness: threads are scheduled; a wait that polls every millisecond does  *)
(* not miss for ever a permit that is free again and again; the consumer's    *)
(* worker keeps calling recv.  Nobody is forced to call send.                 *)
Fairness ==
  /\ \A s \in Senders : WF_vars(SendStepOf(s))
  /\ WF_vars(RecvStepOf)
  /\ SF_vars(RecvTake)

FairSpec == Spec /\ Fairness

-------------------------------------------------------------------------------
(* Properties *)

\* Every permit is accounted for: it is in the semaphore, with one thread, or
\* left with a process; none is given twice and no return path of send or recv
\* forgets its signal().
PermitConservation == sem + Cardinality(Holders) + lost = 1 + resets

\* The semaphore excludes: at most one thread of the two processes is between
\* its wait and its signal, although recv adds permits on suspicion.  (Needs
\* PromptHolders.)
MutualExclusion == \A t, u \in Holders : t = u

\* The callback never sees words of two frames, or unwritten words.
NoTornFrame == last # Torn

\* A frame is handed to the callback a second time only if the consumer was
\* restarted since it was sent.
DuplicatesOnlyAfterRestart == handed <= 1 + faults["receiver"]

\* recv's repair is bounded: it adds one permit per channel object, so that the
\* permits that ever circulate stay bounded however long the channel runs and
\* however often holders are slow.
RepairBounded == sem + Cardinality(Holders) + lost <= 2 + faults["receiver"]

\* Both: no permit is lost from sight, and there are not many.
PermitsAccounted == PermitConservation /\ RepairBounded

\* The frame the channel holds, as a consumer that obeys the protocol sees it.
Box == IF state = 1 /\ \A s \in Senders : pc[s] # "copy" THEN Value(slot)
                                                          ELSE NoFrame

\* The channel is a Mailbox: an accepted frame stays whole in the slot until
\* the callback had it; no send overwrites it and no restart drops it.
Promise == INSTANCE Mailbox WITH box <- Box
ImplementsMailbox == Promise!Spec

\* send always returns: its patience is bounded, whatever the consumer does.
SendReturns == \A s \in Senders : pc[s] # "idle" ~> pc[s] = "idle"

\* A published frame is consumed, also when one of the processes dies with the
\* permit or detaches with it: recv's repair brings the channel back.  (The
\* repair works once per object, so a second fault may stop the channel.)
FaultCount == faults["sender"] + faults["receiver"]
FrameConsumed == state = 1 ~> state = 0 \/ FaultCount > 1

===============================================================================
