-------------------------- MODULE FrameChannelProofs --------------------------
(* Theorems about FrameChannel for every number of senders, frames, words,   *)
(* faults and every channel class.                                           *)
EXTENDS FrameChannel, FiniteSetTheorems, TLAPS

LEMMA HoldersFinite ==
  ASSUME NEW S PROVE Cardinality(Holders \cap S) \in Nat
PROOF
<1>1. IsFiniteSet(Threads)
  BY ThreadAssumption, FS_AddElement DEF Threads
<1>2. Holders \cap S \subseteq Threads
  BY DEF Holders
<1>3. IsFiniteSet(Holders \cap S)
  BY <1>1, <1>2, FS_Subset
<1> QED BY <1>3, FS_CardinalityType

LEMMA ValueType ==
  ASSUME NEW words PROVE Value(words) \in Frames \cup {Torn}
PROOF
<1>1. CASE \E f \in Frames : words = Whole(f)
  BY <1>1 DEF Value
<1>2. CASE ~\E f \in Frames : words = Whole(f)
  BY <1>2 DEF Value
<1> QED BY <1>1, <1>2

LEMMA CountedType ==
  ASSUME TypeOK PROVE Counted \in 0..(Class.maxCnt + 1) /\ 0 \in 0..(Class.maxCnt + 1)
PROOF BY ClassAssumption DEF TypeOK, Counted, IsClass

LEMMA VanishType ==
  ASSUME TypeOK, NEW gone, Vanish(gone)
  PROVE  /\ pc' \in [Threads -> Labels]
         /\ todo' \in [Threads -> SUBSET (Parts \cup {StateWord})]
         /\ waited' \in [Threads -> Nat]
         /\ lost' \in Nat
PROOF
<1>1. Cardinality(Holders \cap gone) \in Nat
  BY HoldersFinite
<1>2. lost' = lost + Cardinality(Holders \cap gone) /\ lost \in Nat
  BY DEF TypeOK, Vanish
<1>3. lost' \in Nat
  BY <1>1, <1>2
<1>4. /\ pc' \in [Threads -> Labels]
      /\ todo' \in [Threads -> SUBSET (Parts \cup {StateWord})]
      /\ waited' \in [Threads -> Nat]
  BY DEF TypeOK, Vanish, Labels, Owning
<1> QED BY <1>3, <1>4

LEMMA TypeInit == Init => TypeOK
PROOF
<1> SUFFICES ASSUME Init PROVE TypeOK OBVIOUS
<1>1. 0 \in 0..(Class.maxCnt + 1)
  BY ClassAssumption DEF IsClass
<1> QED BY <1>1 DEF Init, TypeOK, Blank, Labels, Owning

LEMMA TypeStep == TypeOK /\ [Next]_vars => TypeOK'
PROOF
<1> SUFFICES ASSUME TypeOK, [Next]_vars PROVE TypeOK' OBVIOUS
<1> USE DEF Goto, chan, recvObj, ghosts, Labels, Owning
<1>1. ASSUME NEW s \in Senders, NEW f \in Frames, CallSend(s, f) PROVE TypeOK'
  BY <1>1 DEF TypeOK, CallSend, Threads
<1>2. ASSUME NEW s \in Senders, SendStepOf(s) PROVE TypeOK'
  <2> s \in Threads BY DEF Threads
  <2>1. CASE SendTake(s) BY <2>1 DEF TypeOK, SendTake
  <2>2. CASE SendTimeout(s) BY <2>2 DEF TypeOK, SendTimeout
  <2>3. CASE SendCheckEmpty(s) BY <2>3 DEF TypeOK, SendCheckEmpty
  <2>4. CASE SendCheckFull(s) BY <2>4 DEF TypeOK, SendCheckFull
  <2>5. ASSUME NEW w \in Parts \cup {StateWord}, Store(s, w) PROVE TypeOK'
    <3>1. state' \in {0, 1} /\ handed' \in Nat
      BY <2>5 DEF TypeOK, Store
    <3>2. slot' \in [Parts -> Frames \cup {NoFrame}]
      BY <2>5 DEF TypeOK, Store
    <3>3. pc' \in [Threads -> Labels]
      BY <2>5 DEF TypeOK, Store
    <3>4. todo' \in [Threads -> SUBSET (Parts \cup {StateWord})]
      BY <2>5 DEF TypeOK, Store
    <3> QED BY <2>5, <3>1, <3>2, <3>3, <3>4 DEF TypeOK, Store
  <2>6. CASE SendGive(s) BY <2>6 DEF TypeOK, SendGive
  <2>7. CASE SendYieldRetry(s)
    BY <2>7, ClassAssumption DEF TypeOK, SendYieldRetry, IsClass
  <2>8. CASE SendYieldFail(s) BY <2>8 DEF TypeOK, SendYieldFail
  <2> QED BY <1>2, <2>1, <2>2, <2>3, <2>4, <2>5, <2>6, <2>7, <2>8 DEF SendStepOf
<1>3. ASSUME RecvStepOf PROVE TypeOK'
  <2> Receiver \in Threads BY DEF Threads
  <2>1. CASE CallRecv BY <2>1 DEF TypeOK, CallRecv
  <2>2. CASE RecvTake BY <2>2, CountedType DEF TypeOK, RecvTake
  <2>3. CASE RecvTimeoutReset BY <2>3 DEF TypeOK, RecvTimeoutReset
  <2>4. CASE RecvReset BY <2>4, CountedType DEF TypeOK, RecvReset
  <2>5. CASE RecvTimeout BY <2>5, CountedType DEF TypeOK, RecvTimeout
  <2>6. CASE RecvCheckFull BY <2>6 DEF TypeOK, RecvCheckFull
  <2>7. CASE RecvCheckEmpty BY <2>7 DEF TypeOK, RecvCheckEmpty
  <2>8. ASSUME NEW w \in Parts, Load(w) PROVE TypeOK'
    BY <2>8 DEF TypeOK, Load
  <2>9. CASE CallbackReturns
    BY <2>9, ValueType DEF TypeOK, CallbackReturns, Blank
  <2>10. CASE RecvClear BY <2>10, CountedType DEF TypeOK, RecvClear
  <2>11. CASE RecvGive BY <2>11 DEF TypeOK, RecvGive
  <2>12. CASE RecvYieldRetry
    BY <2>12, ClassAssumption DEF TypeOK, RecvYieldRetry, IsClass
  <2>13. CASE RecvYieldFail BY <2>13 DEF TypeOK, RecvYieldFail
  <2> QED BY <1>3, <2>1, <2>2, <2>3, <2>4, <2>5, <2>6, <2>7, <2>8, <2>9, <2>10,
             <2>11, <2>12, <2>13 DEF RecvStepOf
<1>4. ASSUME Fault PROVE TypeOK'
  <2>1. CASE SenderCrash
    <3>1. Vanish(Senders)
      BY <2>1 DEF SenderCrash
    <3>2. /\ pc' \in [Threads -> Labels]
          /\ todo' \in [Threads -> SUBSET (Parts \cup {StateWord})]
          /\ waited' \in [Threads -> Nat]
          /\ lost' \in Nat
      BY <3>1, VanishType
    <3>3. faults' \in [{"sender", "receiver"} -> Nat]
      BY <2>1 DEF TypeOK, SenderCrash, CountFault
    <3>4. frame' \in [Senders -> Frames \cup {NoFrame}]
      BY <2>1 DEF SenderCrash
    <3> QED BY <2>1, <3>2, <3>3, <3>4 DEF TypeOK, SenderCrash
  <2>2. CASE ReceiverCrash
    <3>1. Vanish({Receiver})
      BY <2>2 DEF ReceiverCrash
    <3>2. /\ pc' \in [Threads -> Labels]
          /\ todo' \in [Threads -> SUBSET (Parts \cup {StateWord})]
          /\ waited' \in [Threads -> Nat]
          /\ lost' \in Nat
      BY <3>1, VanishType
    <3>3. faults' \in [{"sender", "receiver"} -> Nat]
      BY <2>2 DEF TypeOK, ReceiverCrash, CountFault
    <3>4. copy' \in [Parts -> Frames \cup {NoFrame}] /\ failedCnt' \in 0..(Class.maxCnt + 1)
      BY <2>2, CountedType DEF ReceiverCrash, Blank
    <3> QED BY <2>2, <3>2, <3>3, <3>4 DEF TypeOK, ReceiverCrash
  <2>3. CASE SenderDetach
    BY <2>3 DEF TypeOK, SenderDetach, Detach, CountFault
  <2>4. CASE ReceiverDetach
    <3>1. failedCnt' \in 0..(Class.maxCnt + 1)
      BY <2>4, CountedType DEF ReceiverDetach
    <3>2. sem' \in Nat /\ lost' \in Nat
      BY <2>4 DEF TypeOK, ReceiverDetach, Detach
    <3>3. faults' \in [{"sender", "receiver"} -> Nat]
      BY <2>4 DEF TypeOK, ReceiverDetach, Detach, CountFault
    <3> QED BY <2>4, <3>1, <3>2, <3>3 DEF TypeOK, ReceiverDetach
  <2> QED BY <1>4, <2>1, <2>2, <2>3, <2>4 DEF Fault
<1>5. CASE UNCHANGED vars
  BY <1>5 DEF TypeOK, vars
<1> QED BY <1>1, <1>2, <1>3, <1>4, <1>5 DEF Next

\* Every variable keeps its type, for every instance of the channel.
THEOREM TypeCorrect == Spec => []TypeOK
PROOF BY TypeInit, TypeStep, PTL DEF Spec
-------------------------------------------------------------------------------
(* Mutual exclusion.  With prompt holders a permit exists at most once: it is  *)
(* in the semaphore or with one thread, and recv adds one only when there is   *)
(* none.  The window between the failed wait and the added permit is covered   *)
(* by the last conjunct: while recv is in it, no permit can appear.            *)

Holding(t) == pc[t] \in Owning

ExclusiveInv ==
  /\ sem <= 1
  /\ \A t \in Threads : Holding(t) => sem = 0 /\ pc[Receiver] # "reset"
  /\ \A t, u \in Threads : Holding(t) /\ Holding(u) => t = u
  /\ pc[Receiver] = "reset" => sem = 0

LEMMA ExclusiveInit == Init => ExclusiveInv
PROOF BY DEF Init, ExclusiveInv, Holding, Owning, Threads

\* A thread that takes the permit is the only holder afterwards.
LEMMA TakeExclusive ==
  ASSUME TypeOK, ExclusiveInv, NEW t \in Threads,
         Goto(t, "wait", "check"), sem > 0, sem' = sem - 1
  PROVE  ExclusiveInv'
PROOF
<1>1. sem = 1 /\ sem' = 0
  BY DEF TypeOK, ExclusiveInv
<1>2. \A u \in Threads : ~Holding(u)
  BY <1>1 DEF ExclusiveInv
<1>3. \A u \in Threads : Holding(u)' <=> u = t
  BY <1>2 DEF TypeOK, Goto, Holding, Owning
<1>4. Receiver \in Threads /\ pc'[Receiver] # "reset"
  BY <1>1 DEF ExclusiveInv, Goto, TypeOK, Threads
<1> QED BY <1>1, <1>3, <1>4 DEF ExclusiveInv, Holding

\* A thread that gives the permit back leaves no holder behind.
LEMMA GiveExclusive ==
  ASSUME TypeOK, ExclusiveInv, NEW t \in Threads, Holding(t), sem' = sem + 1,
         NEW l \in {"idle", "wait"}, pc' = [pc EXCEPT ![t] = l]
  PROVE  ExclusiveInv'
PROOF
<1>1. sem = 0 /\ sem' = 1
  BY DEF ExclusiveInv
<1>2. \A u \in Threads : ~Holding(u)'
  BY DEF TypeOK, ExclusiveInv, Holding, Owning
<1>3. pc'[Receiver] # "reset"
  BY DEF TypeOK, ExclusiveInv, Threads
<1> QED BY <1>1, <1>2, <1>3 DEF ExclusiveInv

\* Any other step of a thread neither makes it a holder nor moves the permit.
LEMMA KeepExclusive ==
  ASSUME TypeOK, ExclusiveInv, sem' = sem,
         \A t \in Threads : Holding(t)' => Holding(t),
         pc'[Receiver] = "reset" => pc[Receiver] = "reset"
  PROVE  ExclusiveInv'
PROOF BY DEF ExclusiveInv, Holding

LEMMA ExclusiveStep ==
  ASSUME PromptHolders PROVE TypeOK /\ ExclusiveInv /\ [Next]_vars => ExclusiveInv'
PROOF
<1> SUFFICES ASSUME TypeOK, ExclusiveInv, [Next]_vars PROVE ExclusiveInv' OBVIOUS
<1> USE DEF Goto, chan
<1>r. Receiver \in Threads /\ \A s \in Senders : s \in Threads /\ s # Receiver
  BY ThreadAssumption DEF Threads
<1>1. ASSUME NEW s \in Senders, NEW f \in Frames, CallSend(s, f) PROVE ExclusiveInv'
  BY <1>1, <1>r, KeepExclusive DEF CallSend, Holding, Owning, TypeOK
<1>2. ASSUME NEW s \in Senders, SendStepOf(s) PROVE ExclusiveInv'
  <2>1. CASE SendTake(s)
    BY <2>1, <1>r, TakeExclusive DEF SendTake
  <2>2. CASE SendTimeout(s) \/ SendCheckEmpty(s) \/ SendCheckFull(s)
    BY <2>2, <1>r, KeepExclusive
       DEF SendTimeout, SendCheckEmpty, SendCheckFull, Holding, Owning, TypeOK
  <2>3. ASSUME NEW w \in Parts \cup {StateWord}, Store(s, w) PROVE ExclusiveInv'
    BY <2>3, <1>r, KeepExclusive DEF Store, Holding, Owning, TypeOK
  <2>4. CASE SendGive(s) \/ SendYieldRetry(s) \/ SendYieldFail(s)
    <3>1. Holding(s) /\ sem' = sem + 1
      BY <2>4 DEF SendGive, SendYieldRetry, SendYieldFail, Holding, Owning
    <3>2. PICK l \in {"idle", "wait"} : pc' = [pc EXCEPT ![s] = l]
      BY <2>4 DEF SendGive, SendYieldRetry, SendYieldFail
    <3> QED BY <3>1, <3>2, <1>r, GiveExclusive
  <2> QED BY <1>2, <2>1, <2>2, <2>3, <2>4 DEF SendStepOf
<1>3. ASSUME RecvStepOf PROVE ExclusiveInv'
  <2>1. CASE RecvTake
    BY <2>1, <1>r, TakeExclusive DEF RecvTake
  <2>2. CASE RecvTimeoutReset
    <3>1. sem = 0 /\ sem' = 0 /\ \A t \in Threads : ~Holding(t)
      BY <2>2 DEF RecvTimeoutReset, RecvWaitFails, Holders, Holding
    <3>2. \A t \in Threads : ~Holding(t)'
      BY <2>2, <3>1 DEF RecvTimeoutReset, Holding, Owning, TypeOK
    <3> QED BY <3>1, <3>2 DEF ExclusiveInv
  <2>3. CASE RecvReset
    <3>1. sem' = 1 /\ \A t \in Threads : ~Holding(t)
      BY <2>3 DEF RecvReset, ExclusiveInv
    <3>2. \A t \in Threads : ~Holding(t)'
      BY <2>3, <3>1 DEF RecvReset, Holding, Owning, TypeOK
    <3>3. pc'[Receiver] # "reset"
      BY <2>3, <1>r DEF RecvReset, TypeOK
    <3> QED BY <3>1, <3>2, <3>3 DEF ExclusiveInv
  <2>4. CASE CallRecv \/ RecvTimeout \/ RecvCheckFull \/ RecvCheckEmpty
    BY <2>4, <1>r, KeepExclusive
       DEF CallRecv, RecvTimeout, RecvCheckFull, RecvCheckEmpty, Holding, Owning, TypeOK
  <2>5. ASSUME NEW w \in Parts, Load(w) PROVE ExclusiveInv'
    BY <2>5, KeepExclusive DEF Load, Holding
  <2>6. CASE CallbackReturns \/ RecvClear
    BY <2>6, <1>r, KeepExclusive DEF CallbackReturns, RecvClear, Holding, Owning, TypeOK
  <2>7. CASE RecvGive \/ RecvYieldRetry \/ RecvYieldFail
    <3>1. Holding(Receiver) /\ sem' = sem + 1
      BY <2>7 DEF RecvGive, RecvYieldRetry, RecvYieldFail, Holding, Owning
    <3>2. PICK l \in {"idle", "wait"} : pc' = [pc EXCEPT ![Receiver] = l]
      BY <2>7 DEF RecvGive, RecvYieldRetry, RecvYieldFail
    <3> QED BY <3>1, <3>2, <1>r, GiveExclusive
  <2> QED BY <1>3, <2>1, <2>2, <2>3, <2>4, <2>5, <2>6, <2>7 DEF RecvStepOf
<1>4. ASSUME Fault PROVE ExclusiveInv'
  <2>1. CASE SenderCrash \/ ReceiverCrash
    <3>1. PICK gone : Vanish(gone) /\ sem' = sem
      BY <2>1 DEF SenderCrash, ReceiverCrash
    <3>2. \A t \in Threads : pc'[t] = pc[t] \/ pc'[t] = "idle"
      BY <3>1 DEF Vanish
    <3> QED BY <3>1, <3>2, <1>r, KeepExclusive DEF Holding, Owning
  <2>2. CASE SenderDetach \/ ReceiverDetach
    <3>1. pc' = pc /\ (sem' = sem \/ (sem > 0 /\ sem' = sem - 1))
      BY <2>2 DEF SenderDetach, ReceiverDetach, Detach
    <3> QED BY <3>1 DEF ExclusiveInv, Holding, TypeOK
  <2> QED BY <1>4, <2>1, <2>2 DEF Fault
<1>5. CASE UNCHANGED vars
  BY <1>5, KeepExclusive DEF vars, Holding
<1> QED BY <1>1, <1>2, <1>3, <1>4, <1>5 DEF Next

\* With prompt holders, at most one thread of the two processes ever holds the
\* permit: crashes, detachments and the repairs of recv never duplicate it.
THEOREM MutualExclusionHolds ==
  ASSUME PromptHolders PROVE Spec => []MutualExclusion
PROOF
<1>1. TypeOK /\ ExclusiveInv /\ [Next]_vars => ExclusiveInv'
  BY ExclusiveStep
<1>2. ExclusiveInv => MutualExclusion
  BY DEF ExclusiveInv, MutualExclusion, Holding, Holders
<1> QED BY <1>1, <1>2, TypeInit, TypeStep, ExclusiveInit, PTL DEF Spec
-------------------------------------------------------------------------------
(* The state flag is a handshake: a writer has the slot while it is 0, the     *)
(* callback while it is 1.  It takes the semaphore to keep two writers apart,  *)
(* so the argument needs a single sender or prompt holders; with a single      *)
(* sender even a permit added in error does no harm, provided the store of the *)
(* flag comes last.  Where it may come earlier, the semaphore has to keep the  *)
(* reader out of a half-written slot as well, and no sender may die in there.  *)

Regime == \/ ProgramOrder /\ (Solo \/ PromptHolders)
          \/ PromptHolders /\ SenderFaults = 0

OneWriter == \A s, t \in Senders : pc[s] = "copy" /\ pc[t] = "copy" => s = t
NoWriter == \A s \in Senders : pc[s] # "copy"

WriterHasSlot ==
  \A s \in Senders : pc[s] = "copy" =>
     /\ state = (IF StateWord \in todo[s] THEN 0 ELSE 1)
     /\ ProgramOrder => StateWord \in todo[s]
     /\ \A w \in Parts : w \notin todo[s] => slot[w] = frame[s]

SendersHaveFrames == \A s \in Senders : pc[s] # "idle" => frame[s] \in Frames

FullSlotWhole == state = 1 /\ NoWriter => \E f \in Frames : slot = Whole(f)

ReaderHasSlot ==
  /\ pc[Receiver] \in {"read", "clear"} => state = 1 /\ NoWriter
  /\ pc[Receiver] = "read" =>
        \A w \in Parts : w \notin todo[Receiver] => copy[w] = slot[w]
  /\ pc[Receiver] = "clear" => handed > 0 /\ last = Value(slot)

HandshakeInv ==
  OneWriter /\ WriterHasSlot /\ SendersHaveFrames /\ FullSlotWhole
  /\ ReaderHasSlot /\ NoTornFrame

LEMMA WholeValue ==
  ASSUME NEW f \in Frames PROVE Value(Whole(f)) = f
PROOF
<1>1. \A g \in Frames : Whole(g) = Whole(f) => g = f
  BY FrameAssumption DEF Whole
<1> QED BY <1>1 DEF Value

LEMMA HandshakeInit == Init => HandshakeInv
PROOF BY ThreadAssumption, FrameAssumption
  DEF Init, HandshakeInv, OneWriter, WriterHasSlot, SendersHaveFrames,
      FullSlotWhole, ReaderHasSlot, NoTornFrame, NoWriter, Threads

\* A step that touches neither the slot nor what its users know of it.
LEMMA HandshakeKeep ==
  ASSUME HandshakeInv,
         UNCHANGED <<state, slot, last, handed>>,
         \A s \in Senders : pc'[s] = "copy" =>
            pc[s] = "copy" /\ todo'[s] = todo[s] /\ frame'[s] = frame[s],
         \A s \in Senders : pc'[s] # "idle" => frame'[s] \in Frames,
         pc'[Receiver] = "read" => /\ pc[Receiver] = "read"
                                   /\ todo'[Receiver] = todo[Receiver]
                                   /\ copy' = copy,
         pc'[Receiver] = "clear" => pc[Receiver] = "clear",
         state = 1 /\ NoWriter' => NoWriter
  PROVE  HandshakeInv'
PROOF
<1>1. OneWriter' BY DEF HandshakeInv, OneWriter
<1>2. WriterHasSlot' BY DEF HandshakeInv, WriterHasSlot
<1>3. SendersHaveFrames' BY DEF SendersHaveFrames
<1>4. FullSlotWhole' /\ NoTornFrame'
  BY DEF HandshakeInv, FullSlotWhole, NoTornFrame
<1>5. ReaderHasSlot' BY DEF HandshakeInv, ReaderHasSlot, NoWriter, Value
<1> QED BY <1>1, <1>2, <1>3, <1>4, <1>5 DEF HandshakeInv

LEMMA StartCopy ==
  ASSUME Regime, TypeOK, PromptHolders => ExclusiveInv, HandshakeInv,
         NEW s \in Senders, SendCheckEmpty(s)
  PROVE  HandshakeInv' /\ state = 0
PROOF
<1> USE DEF SendCheckEmpty, Goto, chan, recvObj, ghosts
<1>0. s \in Threads /\ s # Receiver /\ Receiver \in Threads
  BY ThreadAssumption DEF Threads
<1>1. pc[s] = "check" /\ \A t \in Senders : pc'[t] = IF t = s THEN "copy" ELSE pc[t]
  BY <1>0 DEF TypeOK, Threads
<1>2. \A t \in Senders : pc[t] = "copy" => t = s
  <2>1. CASE Solo BY <2>1 DEF Solo
  <2>2. CASE PromptHolders
    BY <2>2, <1>1 DEF ExclusiveInv, Holding, Owning, Threads
  <2> QED BY <2>1, <2>2 DEF Regime
<1>3. OneWriter' BY <1>1, <1>2 DEF OneWriter
<1>4. WriterHasSlot'
  BY <1>0, <1>1, <1>2 DEF WriterHasSlot, TypeOK, Threads
<1>5. SendersHaveFrames'
  BY <1>1 DEF HandshakeInv, SendersHaveFrames
<1>6. FullSlotWhole' /\ NoTornFrame'
  BY DEF HandshakeInv, FullSlotWhole, NoTornFrame
<1>7. ReaderHasSlot'
  BY <1>0 DEF HandshakeInv, ReaderHasSlot, TypeOK
<1> QED BY <1>3, <1>4, <1>5, <1>6, <1>7 DEF HandshakeInv

\* A store that is not the last one of its frame leaves the slot in writing.
LEMMA StoreWord ==
  ASSUME TypeOK, HandshakeInv,
         NEW s \in Senders, NEW w \in Parts \cup {StateWord}, Store(s, w),
         todo[s] # {w}
  PROVE  /\ HandshakeInv' /\ ~NoWriter /\ ~NoWriter'
         /\ last' = last /\ handed' = handed
PROOF
<1>0. s \in Threads /\ s # Receiver
  BY ThreadAssumption DEF Threads
<1>1. pc[s] = "copy" /\ frame[s] \in Frames /\ w \in todo[s]
  BY DEF Store, HandshakeInv, SendersHaveFrames
<1>3. /\ pc' = pc /\ handed' = handed /\ frame' = frame
      /\ state' = IF w = StateWord THEN 1 ELSE state
      /\ slot' = IF w = StateWord THEN slot ELSE [slot EXCEPT ![w] = frame[s]]
      /\ todo' = [todo EXCEPT ![s] = @ \ {w}]
      /\ copy' = copy /\ last' = last
  BY DEF Store
<1>4. OneWriter' /\ SendersHaveFrames' /\ NoTornFrame'
  BY <1>3 DEF HandshakeInv, OneWriter, SendersHaveFrames, NoTornFrame
<1>5. WriterHasSlot'
  <2> SUFFICES ASSUME NEW t \in Senders, pc'[t] = "copy" PROVE
         /\ state' = (IF StateWord \in todo'[t] THEN 0 ELSE 1)
         /\ ProgramOrder => StateWord \in todo'[t]
         /\ \A v \in Parts : v \notin todo'[t] => slot'[v] = frame'[t]
    BY DEF WriterHasSlot
  <2>1. t = s
    BY <1>1, <1>3 DEF HandshakeInv, OneWriter
  <2>2. todo'[s] = todo[s] \ {w}
    BY <1>0, <1>3 DEF TypeOK
  <2>3. \A v \in Parts : slot'[v] = IF v = w THEN frame[s] ELSE slot[v]
    BY <1>3, FrameAssumption DEF TypeOK
  <2>4. /\ state = (IF StateWord \in todo[s] THEN 0 ELSE 1)
        /\ ProgramOrder => StateWord \in todo[s]
        /\ \A v \in Parts : v \notin todo[s] => slot[v] = frame[s]
    BY <1>1 DEF HandshakeInv, WriterHasSlot
  <2>5. ProgramOrder => w # StateWord
    BY DEF Store
  <2> QED BY <1>1, <1>3, <2>1, <2>2, <2>3, <2>4, <2>5
<1>6. ~NoWriter /\ ~NoWriter'
  BY <1>1, <1>3 DEF NoWriter
<1>7. FullSlotWhole' /\ ReaderHasSlot'
  BY <1>3, <1>6 DEF HandshakeInv, FullSlotWhole, ReaderHasSlot
<1> QED BY <1>3, <1>4, <1>5, <1>6, <1>7 DEF HandshakeInv

\* The last store publishes a whole frame, whichever word it is.
LEMMA Publish ==
  ASSUME TypeOK, HandshakeInv,
         NEW s \in Senders, NEW w \in Parts \cup {StateWord}, Store(s, w),
         todo[s] = {w}
  PROVE  /\ HandshakeInv' /\ ~NoWriter /\ NoWriter' /\ state' = 1
         /\ slot' = Whole(frame[s]) /\ frame[s] \in Frames
         /\ handed' = 0 /\ last' = last
PROOF
<1>0. s \in Threads /\ s # Receiver /\ Receiver \in Threads
  BY ThreadAssumption DEF Threads
<1>1. /\ pc[s] = "copy" /\ frame[s] \in Frames
      /\ state = (IF StateWord \in todo[s] THEN 0 ELSE 1)
      /\ \A v \in Parts : v \notin todo[s] => slot[v] = frame[s]
  BY DEF Store, HandshakeInv, WriterHasSlot, SendersHaveFrames
<1>2. state' = 1
  BY <1>1 DEF Store
<1>3. slot' = Whole(frame[s])
  <2>1. slot' \in [Parts -> Frames \cup {NoFrame}]
    BY <1>1 DEF Store, TypeOK
  <2>2. \A v \in Parts : slot'[v] = frame[s]
    BY <1>1, FrameAssumption DEF Store, TypeOK
  <2> QED BY <2>1, <2>2 DEF Whole
<1>4. /\ pc' = [pc EXCEPT ![s] = "give"]
      /\ handed' = 0 /\ last' = last /\ frame' = frame
  BY DEF Store
<1>5. \A t \in Senders : pc'[t] # "copy" /\ (pc'[t] # "idle" => pc[t] # "idle")
  BY <1>0, <1>1, <1>4 DEF HandshakeInv, OneWriter, TypeOK, Threads
<1>6. OneWriter' /\ WriterHasSlot' /\ SendersHaveFrames' /\ NoWriter' /\ ~NoWriter
  BY <1>1, <1>4, <1>5
     DEF HandshakeInv, OneWriter, WriterHasSlot, SendersHaveFrames, NoWriter
<1>7. FullSlotWhole' /\ NoTornFrame'
  BY <1>1, <1>3, <1>4 DEF HandshakeInv, FullSlotWhole, NoTornFrame, Whole
<1>8. pc'[Receiver] = pc[Receiver] /\ pc[Receiver] \notin {"read", "clear"}
  BY <1>0, <1>4, <1>6 DEF HandshakeInv, ReaderHasSlot, TypeOK
<1>9. ReaderHasSlot'
  BY <1>8 DEF ReaderHasSlot
<1> QED BY <1>1, <1>2, <1>3, <1>4, <1>6, <1>7, <1>9 DEF HandshakeInv

\* When the callback returns, it has loaded the frame that is in the slot.
LEMMA HandOverWhole ==
  ASSUME TypeOK, HandshakeInv, CallbackReturns
  PROVE  /\ HandshakeInv' /\ state = 1 /\ last' = Value(slot)
         /\ Value(slot) \in Frames
         /\ NoWriter /\ NoWriter'
PROOF
<1> USE DEF CallbackReturns, Goto, chan, recvObj
<1>0. Receiver \in Threads /\ \A s \in Senders : s \in Threads /\ s # Receiver
  BY ThreadAssumption DEF Threads
<1>1. state = 1 /\ NoWriter /\ \A w \in Parts : copy[w] = slot[w]
  BY DEF HandshakeInv, ReaderHasSlot
<1>2. copy = slot
  BY <1>1 DEF TypeOK
<1>3. PICK f \in Frames : slot = Whole(f)
  BY <1>1 DEF HandshakeInv, FullSlotWhole
<1>4. last' = Value(slot) /\ Value(slot) \in Frames
  BY <1>2, <1>3, WholeValue
<1>5. \A s \in Senders : pc[s] # "copy" /\ pc'[s] = pc[s]
  BY <1>0, <1>1 DEF NoWriter, TypeOK
<1>6. OneWriter' /\ WriterHasSlot' /\ SendersHaveFrames' /\ NoWriter'
  BY <1>5 DEF HandshakeInv, OneWriter, WriterHasSlot, SendersHaveFrames, NoWriter
<1>7. FullSlotWhole' /\ NoTornFrame'
  BY <1>3, <1>4, FrameAssumption DEF FullSlotWhole, NoTornFrame, Whole
<1>8. pc'[Receiver] = "clear" /\ handed' > 0 /\ slot' = slot /\ state' = state
  BY <1>0 DEF TypeOK
<1>9. ReaderHasSlot'
  BY <1>1, <1>4, <1>6, <1>8 DEF ReaderHasSlot, Value
<1> QED BY <1>1, <1>4, <1>5, <1>6, <1>7, <1>9 DEF HandshakeInv

LEMMA ClearHanded ==
  ASSUME TypeOK, HandshakeInv, RecvClear
  PROVE  /\ HandshakeInv' /\ state = 1 /\ state' = 0 /\ NoWriter
         /\ handed > 0 /\ last = Value(slot)
PROOF
<1> USE DEF RecvClear, Goto, ghosts
<1>0. Receiver \in Threads /\ \A s \in Senders : s \in Threads /\ s # Receiver
  BY ThreadAssumption DEF Threads
<1>1. state = 1 /\ NoWriter /\ handed > 0 /\ last = Value(slot)
  BY DEF HandshakeInv, ReaderHasSlot
<1>2. \A s \in Senders : pc[s] # "copy" /\ pc'[s] = pc[s]
  BY <1>0, <1>1 DEF NoWriter, TypeOK
<1>3. OneWriter' /\ WriterHasSlot' /\ SendersHaveFrames'
  BY <1>2 DEF HandshakeInv, OneWriter, WriterHasSlot, SendersHaveFrames
<1>4. FullSlotWhole' /\ NoTornFrame'
  BY DEF HandshakeInv, FullSlotWhole, NoTornFrame
<1>5. ReaderHasSlot'
  BY <1>0 DEF ReaderHasSlot, TypeOK
<1> QED BY <1>1, <1>3, <1>4, <1>5 DEF HandshakeInv

\* Every step keeps the handshake; the only steps that touch the slot's flag,
\* the callback's view or the count of hand-overs are the ones named here.
SlotQuiet == /\ UNCHANGED <<state, slot, last, handed>>
             /\ state = 1 => NoWriter' = NoWriter

LEMMA HandshakeStep ==
  ASSUME Regime, TypeOK, PromptHolders => ExclusiveInv, HandshakeInv, [Next]_vars
  PROVE  /\ HandshakeInv'
         /\ \/ SlotQuiet
            \/ \E s \in Senders : \E w \in Parts \cup {StateWord} : Store(s, w)
            \/ CallbackReturns
            \/ RecvClear
PROOF
<1> USE DEF Goto, chan, recvObj, ghosts
<1>r. Receiver \in Threads /\ \A s \in Senders : s \in Threads /\ s # Receiver
  BY ThreadAssumption DEF Threads
<1>f. \A s \in Senders : pc[s] # "idle" => frame[s] \in Frames
  BY DEF HandshakeInv, SendersHaveFrames
\* What a step that leaves the slot alone has to show.
<1>k. ASSUME UNCHANGED <<state, slot, last, handed>>,
             \A s \in Senders : /\ pc'[s] = "copy" <=> pc[s] = "copy"
                                /\ pc[s] = "copy" => todo'[s] = todo[s] /\ frame'[s] = frame[s]
                                /\ pc'[s] # "idle" => frame'[s] \in Frames,
             pc'[Receiver] = "read" => /\ pc[Receiver] = "read"
                                       /\ todo'[Receiver] = todo[Receiver]
                                       /\ copy' = copy,
             pc'[Receiver] = "clear" => pc[Receiver] = "clear"
      PROVE  HandshakeInv' /\ SlotQuiet
  <2>1. NoWriter' = NoWriter BY <1>k DEF NoWriter
  <2> QED BY <1>k, <2>1, HandshakeKeep DEF SlotQuiet
<1>1. ASSUME NEW s \in Senders, NEW f \in Frames, CallSend(s, f)
      PROVE  HandshakeInv' /\ SlotQuiet
  BY <1>1, <1>r, <1>f, <1>k DEF CallSend, TypeOK
<1>2. ASSUME NEW s \in Senders, SendTake(s) \/ SendTimeout(s) \/ SendCheckFull(s)
      PROVE  HandshakeInv' /\ SlotQuiet
  <2>1. CASE SendTake(s)
    BY <2>1, <1>r, <1>f, <1>k DEF SendTake, TypeOK
  <2>2. CASE SendTimeout(s)
    BY <2>2, <1>r, <1>f, <1>k DEF SendTimeout, TypeOK
  <2>3. CASE SendCheckFull(s)
    BY <2>3, <1>r, <1>f, <1>k DEF SendCheckFull, TypeOK
  <2> QED BY <1>2, <2>1, <2>2, <2>3
<1>3. ASSUME NEW s \in Senders, SendCheckEmpty(s) PROVE HandshakeInv' /\ SlotQuiet
  <2>1. HandshakeInv' /\ state = 0
    BY <1>3, StartCopy
  <2>2. SlotQuiet
    BY <1>3, <2>1 DEF SendCheckEmpty, SlotQuiet
  <2> QED BY <2>1, <2>2
<1>4. ASSUME NEW s \in Senders, NEW w \in Parts \cup {StateWord}, Store(s, w)
      PROVE  HandshakeInv'
  BY <1>4, StoreWord, Publish
<1>5. ASSUME NEW s \in Senders, SendGive(s) \/ SendYieldRetry(s) \/ SendYieldFail(s)
      PROVE  HandshakeInv' /\ SlotQuiet
  BY <1>5, <1>r, <1>f, <1>k
     DEF SendGive, SendYieldRetry, SendYieldFail, TypeOK
<1>6. ASSUME \/ CallRecv \/ RecvTake \/ RecvTimeoutReset \/ RecvReset
             \/ RecvTimeout \/ RecvCheckEmpty
             \/ RecvGive \/ RecvYieldRetry \/ RecvYieldFail
      PROVE  HandshakeInv' /\ SlotQuiet
  <2>1. UNCHANGED <<state, slot, last, handed>>
    BY <1>6 DEF CallRecv, RecvTake, RecvTimeoutReset, RecvReset, RecvTimeout,
                RecvCheckEmpty, RecvGive, RecvYieldRetry, RecvYieldFail
  <2>2. /\ frame' = frame /\ todo' = todo
        /\ \E l \in {"idle", "wait", "check", "reset", "yield"} :
              pc' = [pc EXCEPT ![Receiver] = l]
    BY <1>6 DEF CallRecv, RecvTake, RecvTimeoutReset, RecvReset, RecvTimeout,
                RecvCheckEmpty, RecvGive, RecvYieldRetry, RecvYieldFail
  <2>3. /\ \A s \in Senders : pc'[s] = pc[s]
        /\ pc'[Receiver] \notin {"read", "clear"}
    BY <2>2, <1>r DEF TypeOK
  <2> QED BY <2>1, <2>2, <2>3, <1>f, <1>k
<1>7. ASSUME RecvCheckFull PROVE HandshakeInv' /\ SlotQuiet
  <2>1. /\ state = 1 /\ state' = 1 /\ slot' = slot /\ pc[Receiver] = "check"
        /\ pc'[Receiver] = "read" /\ todo'[Receiver] = Parts
        /\ \A s \in Senders : /\ pc'[s] = pc[s] /\ todo'[s] = todo[s]
                               /\ frame'[s] = frame[s]
    BY <1>7, <1>r DEF RecvCheckFull, TypeOK
  \* The flag is up early only where the semaphore keeps the reader out.
  <2>2. NoWriter /\ NoWriter'
    <3>1. CASE ProgramOrder
      BY <2>1, <3>1 DEF HandshakeInv, WriterHasSlot, NoWriter
    <3>2. CASE PromptHolders
      BY <2>1, <3>2, <1>r DEF ExclusiveInv, Holding, Owning, NoWriter
    <3> QED BY <3>1, <3>2 DEF Regime
  <2>3. ReaderHasSlot'
    BY <2>1, <2>2 DEF ReaderHasSlot
  <2>4. OneWriter' /\ WriterHasSlot' /\ SendersHaveFrames'
    BY <2>1 DEF HandshakeInv, OneWriter, WriterHasSlot, SendersHaveFrames
  <2> QED BY <1>7, <2>1, <2>2, <2>3, <2>4
        DEF HandshakeInv, FullSlotWhole, NoTornFrame, RecvCheckFull, SlotQuiet
<1>8. ASSUME NEW w \in Parts, Load(w) PROVE HandshakeInv' /\ SlotQuiet
  <2>1. /\ pc[Receiver] = "read" /\ pc' = pc /\ frame' = frame
        /\ copy' = [copy EXCEPT ![w] = slot[w]]
        /\ todo'[Receiver] = todo[Receiver] \ {w}
        /\ \A s \in Senders : todo'[s] = todo[s]
        /\ UNCHANGED <<state, slot, last, handed>>
    BY <1>8, <1>r DEF Load, TypeOK
  <2>2. NoWriter' = NoWriter
    BY <2>1 DEF NoWriter
  <2>3. ReaderHasSlot'
    BY <2>1, <2>2 DEF HandshakeInv, ReaderHasSlot, TypeOK
  <2>4. OneWriter' /\ WriterHasSlot' /\ SendersHaveFrames'
    BY <2>1 DEF HandshakeInv, OneWriter, WriterHasSlot, SendersHaveFrames
  <2> QED BY <2>1, <2>2, <2>3, <2>4 DEF HandshakeInv, FullSlotWhole, NoTornFrame, SlotQuiet
<1>9. ASSUME CallbackReturns PROVE HandshakeInv'
  BY <1>9, HandOverWhole
<1>10. ASSUME RecvClear PROVE HandshakeInv'
  BY <1>10, ClearHanded
<1>11. ASSUME Fault PROVE HandshakeInv' /\ SlotQuiet
  <2>1. UNCHANGED <<state, slot, last, handed>>
    BY <1>11 DEF Fault, SenderCrash, ReceiverCrash, SenderDetach, ReceiverDetach
  <2>2. CASE SenderCrash
    <3>1. /\ copy' = copy /\ \A s \in Senders : pc'[s] = "idle"
          /\ pc'[Receiver] = pc[Receiver] /\ todo'[Receiver] = todo[Receiver]
      BY <2>2, <1>r DEF SenderCrash, Vanish
    \* A sender that dies while it writes leaves the flag down.
    <3>2. ProgramOrder
      BY <2>2 DEF SenderCrash, FaultsLeft, Regime, TypeOK
    <3>3. state = 1 => NoWriter
      BY <3>2 DEF HandshakeInv, WriterHasSlot, NoWriter
    <3>4. NoWriter'
      BY <3>1 DEF NoWriter
    <3> QED BY <2>1, <3>1, <3>3, <3>4, HandshakeKeep DEF SlotQuiet
  <2>3. CASE ReceiverCrash
    <3>1. /\ frame' = frame /\ pc'[Receiver] = "idle"
          /\ \A s \in Senders : pc'[s] = pc[s] /\ todo'[s] = todo[s]
      BY <2>3, <1>r DEF ReceiverCrash, Vanish
    <3> QED BY <2>1, <3>1, <1>f, <1>k
  <2>4. CASE SenderDetach \/ ReceiverDetach
    <3>1. UNCHANGED <<pc, todo, frame, copy>>
      BY <2>4 DEF SenderDetach, ReceiverDetach
    <3> QED BY <2>1, <3>1, <1>f, <1>k
  <2> QED BY <1>11, <2>1, <2>2, <2>3, <2>4 DEF Fault
<1>12. ASSUME UNCHANGED vars PROVE HandshakeInv' /\ SlotQuiet
  BY <1>12, <1>f, <1>k DEF vars
<1> QED BY <1>1, <1>2, <1>3, <1>4, <1>5, <1>6, <1>7, <1>8, <1>9, <1>10, <1>11,
           <1>12 DEF Next, SendStepOf, RecvStepOf

ChannelInv == TypeOK /\ (PromptHolders => ExclusiveInv) /\ HandshakeInv

LEMMA ChannelInvariant ==
  ASSUME Regime PROVE Spec => []ChannelInv
PROOF
<1>1. Init => ChannelInv
  BY TypeInit, ExclusiveInit, HandshakeInit DEF ChannelInv
<1>2. ChannelInv /\ [Next]_vars => ChannelInv'
  BY TypeStep, ExclusiveStep, HandshakeStep DEF ChannelInv
<1> QED BY <1>1, <1>2, PTL DEF Spec

\* No callback ever sees a torn frame: with prompt holders for any number of
\* senders, with a single sender even when recv adds a permit in error; and with
\* prompt holders in whatever order the stores are made, if no sender dies.
THEOREM NoTornFrameHolds ==
  ASSUME Regime PROVE Spec => []NoTornFrame
PROOF
<1>1. ChannelInv => NoTornFrame
  BY DEF ChannelInv, HandshakeInv
<1> QED BY <1>1, ChannelInvariant, PTL

-------------------------------------------------------------------------------
(* Hand-overs.  A frame that waits in the slot has been handed over no oftener *)
(* than the consumer was restarted since; the callback under way is one more,  *)
(* and either the clearing store or a restart follows it.                      *)

HandOversInv ==
  /\ handed <= 1 + faults["receiver"]
  /\ state = 1 /\ NoWriter /\ pc[Receiver] # "clear" => handed <= faults["receiver"]

\* The receiver leaves "clear" by the clearing store or by its death.
LEMMA ClearOrRestart ==
  ASSUME TypeOK, [Next]_vars
  PROVE  /\ faults'["receiver"] >= faults["receiver"]
         /\ pc[Receiver] = "clear" /\ pc'[Receiver] # "clear" =>
               RecvClear \/ faults'["receiver"] = faults["receiver"] + 1
PROOF
<1> USE DEF Goto, chan, recvObj, ghosts
<1>r. Receiver \in Threads /\ \A s \in Senders : s \in Threads /\ s # Receiver
  BY ThreadAssumption DEF Threads
<1>n. faults["receiver"] \in Nat
  BY DEF TypeOK
<1>1. ASSUME NEW s \in Senders, SendStepOf(s) \/ \E f \in Frames : CallSend(s, f)
      PROVE  faults' = faults /\ pc'[Receiver] = pc[Receiver]
  <2>1. faults' = faults
    BY <1>1 DEF SendStepOf, CallSend, SendTake, SendTimeout, SendCheckEmpty,
                SendCheckFull, Store, SendGive, SendYieldRetry, SendYieldFail
  <2>2. pc' = pc \/ \E l \in Labels : pc' = [pc EXCEPT ![s] = l]
    BY <1>1 DEF SendStepOf, CallSend, SendTake, SendTimeout, SendCheckEmpty,
                SendCheckFull, Store, SendGive, SendYieldRetry, SendYieldFail,
                Labels, Owning
  <2> QED BY <2>1, <2>2, <1>r DEF TypeOK
<1>2. ASSUME RecvStepOf
      PROVE  faults' = faults /\ (pc[Receiver] = "clear" /\ pc'[Receiver] # "clear" => RecvClear)
  BY <1>2, <1>r DEF RecvStepOf, CallRecv, RecvTake, RecvTimeoutReset, RecvReset,
     RecvTimeout, RecvCheckFull, RecvCheckEmpty, CallbackReturns, RecvGive,
     RecvYieldRetry, RecvYieldFail, Load, RecvClear
<1>3. CASE SenderCrash \/ SenderDetach
  <2>1. faults'["receiver"] = faults["receiver"]
    BY <1>3 DEF SenderCrash, SenderDetach, Detach, CountFault, TypeOK
  <2>2. pc'[Receiver] = pc[Receiver]
    BY <1>3, <1>r DEF SenderCrash, SenderDetach, Vanish
  <2> QED BY <2>1, <2>2, <1>n
<1>4. CASE ReceiverCrash \/ ReceiverDetach
  BY <1>4, <1>n DEF ReceiverCrash, ReceiverDetach, Detach, CountFault, TypeOK
<1>5. CASE UNCHANGED vars
  BY <1>5, <1>n DEF vars
<1> QED BY <1>1, <1>2, <1>3, <1>4, <1>5, <1>n DEF Next, Fault

LEMMA HandOversStep ==
  ASSUME Regime, ChannelInv, HandOversInv, [Next]_vars PROVE HandOversInv'
PROOF
<1> USE DEF ChannelInv
<1>n. faults["receiver"] \in Nat /\ faults'["receiver"] \in Nat /\ handed \in Nat
  BY TypeStep DEF TypeOK
<1>f. faults'["receiver"] >= faults["receiver"]
  BY ClearOrRestart
<1>1. CASE SlotQuiet
  <2>1. handed' = handed /\ handed' <= 1 + faults'["receiver"]
    BY <1>1, <1>n, <1>f DEF SlotQuiet, HandOversInv
  <2>2. ASSUME state' = 1, NoWriter', pc'[Receiver] # "clear"
        PROVE  handed' <= faults'["receiver"]
    <3>1. state = 1 /\ NoWriter
      BY <1>1, <2>2 DEF SlotQuiet
    <3>2. ~RecvClear
      BY <1>1, <2>2 DEF SlotQuiet, RecvClear
    <3> QED BY <2>1, <2>2, <3>1, <3>2, <1>n, <1>f, ClearOrRestart DEF HandOversInv
  <2> QED BY <2>1, <2>2 DEF HandOversInv
<1>2. ASSUME NEW s \in Senders, NEW w \in Parts \cup {StateWord}, Store(s, w)
      PROVE  HandOversInv'
  <2>1. faults' = faults
    BY <1>2 DEF Store
  <2>2. CASE todo[s] = {w}
    BY <1>2, <2>1, <2>2, <1>n, Publish DEF HandOversInv
  <2>3. CASE todo[s] # {w}
    BY <1>2, <2>1, <2>3, <1>n, StoreWord DEF HandOversInv
  <2> QED BY <2>2, <2>3
<1>3. CASE CallbackReturns
  <2>1. /\ pc[Receiver] = "read" /\ pc'[Receiver] = "clear"
        /\ handed' = handed + 1 /\ faults' = faults
    BY <1>3 DEF CallbackReturns, Goto, TypeOK, Threads
  <2>2. state = 1 /\ NoWriter
    BY <1>3, HandOverWhole
  <2> QED BY <2>1, <2>2, <1>n DEF HandOversInv
<1>4. CASE RecvClear
  <2>1. state' = 0 /\ handed' = handed /\ faults' = faults
    BY <1>4 DEF RecvClear, ghosts
  <2> QED BY <2>1 DEF HandOversInv
<1> QED BY <1>1, <1>2, <1>3, <1>4, HandshakeStep

\* A frame reaches the callback a second time only if the consumer died between
\* its callback and the clearing store, once for each time it did.
THEOREM DuplicatesOnlyAfterRestartHolds ==
  ASSUME Regime PROVE Spec => []DuplicatesOnlyAfterRestart
PROOF
<1>1. Init => HandOversInv
  BY DEF Init, HandOversInv
<1>2. ChannelInv /\ HandOversInv /\ [Next]_vars => HandOversInv'
  BY HandOversStep
<1>3. HandOversInv => DuplicatesOnlyAfterRestart
  BY DEF HandOversInv, DuplicatesOnlyAfterRestart
<1> QED BY <1>1, <1>2, <1>3, ChannelInvariant, PTL DEF Spec

-------------------------------------------------------------------------------
(* Permits.  PermitConservation is inductive: a step takes one from the        *)
(* semaphore into a thread, gives it back, loses it or adds it to the books.   *)
(* That few are added follows from recv's own flag: m_semReset is down while   *)
(* recv is at its repair, and only a new channel object lowers it again.       *)

FewRepairs ==
  /\ resets + (IF semReset THEN 0 ELSE 1) <= 1 + faults["receiver"]
  /\ pc[Receiver] = "reset" => ~semReset

PermitInv == PermitConservation /\ FewRepairs

LEMMA HoldersAreFinite == IsFiniteSet(Holders)
PROOF
<1>1. IsFiniteSet(Threads)
  BY ThreadAssumption, FS_AddElement DEF Threads
<1> QED BY <1>1, FS_Subset DEF Holders

LEMMA PermitInit == Init => PermitInv
PROOF
<1> SUFFICES ASSUME Init PROVE PermitInv OBVIOUS
<1>1. Holders = {}
  BY DEF Init, Holders, Owning
<1>2. Cardinality(Holders) = 0
  BY <1>1, FS_EmptySet
<1>3. PermitConservation
  BY <1>2 DEF Init, PermitConservation
<1>4. FewRepairs
  BY DEF Init, FewRepairs, Threads
<1> QED BY <1>3, <1>4 DEF PermitInv

\* A permit that moves from the semaphore into a thread is not lost from sight ...
LEMMA TakeCounts ==
  ASSUME TypeOK, PermitConservation, NEW t \in Threads,
         Goto(t, "wait", "check"), sem > 0, sem' = sem - 1,
         UNCHANGED <<lost, resets>>
  PROVE  PermitConservation'
PROOF
<1>1. Holders' = Holders \cup {t} /\ t \notin Holders
  BY DEF TypeOK, Goto, Holders, Owning
<1>2. Cardinality(Holders') = Cardinality(Holders) + 1
  BY <1>1, HoldersAreFinite, FS_AddElement
<1>3. Cardinality(Holders) \in Nat
  BY HoldersAreFinite, FS_CardinalityType
<1> QED BY <1>2, <1>3 DEF PermitConservation, TypeOK

\* ... nor is one that a thread gives back.
LEMMA GiveCounts ==
  ASSUME TypeOK, PermitConservation, NEW t \in Threads, pc[t] \in Owning,
         sem' = sem + 1, UNCHANGED <<lost, resets>>,
         NEW l \in {"idle", "wait"}, pc' = [pc EXCEPT ![t] = l]
  PROVE  PermitConservation'
PROOF
<1>1. Holders' = Holders \ {t} /\ t \in Holders
  BY DEF TypeOK, Holders, Owning
<1>2. Cardinality(Holders') = Cardinality(Holders) - 1
  BY <1>1, HoldersAreFinite, FS_RemoveElement
<1>3. Cardinality(Holders) \in Nat
  BY HoldersAreFinite, FS_CardinalityType
<1> QED BY <1>2, <1>3 DEF PermitConservation, TypeOK

\* What the threads of a vanished process held is entered as lost.
LEMMA VanishCounts ==
  ASSUME TypeOK, PermitConservation, NEW gone, Vanish(gone),
         UNCHANGED <<sem, resets>>
  PROVE  PermitConservation'
PROOF
<1>1. Holders' = Holders \ gone
  BY DEF Vanish, Holders, Owning
<1>2. Cardinality(Holders') = Cardinality(Holders) - Cardinality(Holders \cap gone)
  BY <1>1, HoldersAreFinite, FS_Difference
<1>3. Cardinality(Holders) \in Nat /\ Cardinality(Holders \cap gone) \in Nat
  BY HoldersAreFinite, FS_CardinalityType, HoldersFinite
<1>4. lost' = lost + Cardinality(Holders \cap gone)
  BY DEF Vanish
<1> QED BY <1>2, <1>3, <1>4 DEF PermitConservation, TypeOK

LEMMA ConservationStep == TypeOK /\ PermitConservation /\ [Next]_vars => PermitConservation'
PROOF
<1> SUFFICES ASSUME TypeOK, PermitConservation, [Next]_vars PROVE PermitConservation'
  OBVIOUS
<1> USE DEF Goto, chan, recvObj, ghosts
<1>r. Receiver \in Threads /\ \A s \in Senders : s \in Threads
  BY DEF Threads
<1>h. Cardinality(Holders) \in Nat
  BY HoldersAreFinite, FS_CardinalityType
<1>k. ASSUME Holders' = Holders, UNCHANGED <<sem, lost, resets>>
      PROVE  PermitConservation'
  BY <1>k DEF PermitConservation
<1>1. ASSUME NEW s \in Senders,
             \/ \E f \in Frames : CallSend(s, f)
             \/ SendTimeout(s) \/ SendCheckEmpty(s) \/ SendCheckFull(s)
             \/ \E w \in Parts \cup {StateWord} : Store(s, w)
      PROVE  PermitConservation'
  <2>1. Holders' = Holders
    BY <1>1, <1>r DEF CallSend, SendTimeout, SendCheckEmpty, SendCheckFull, Store,
                      Holders, Owning, TypeOK
  <2>2. UNCHANGED <<sem, lost, resets>>
    BY <1>1 DEF CallSend, SendTimeout, SendCheckEmpty, SendCheckFull, Store
  <2> QED BY <2>1, <2>2, <1>k
<1>2. ASSUME NEW s \in Senders, SendTake(s) PROVE PermitConservation'
  BY <1>2, <1>r, TakeCounts DEF SendTake
<1>3. ASSUME NEW s \in Senders, SendGive(s) \/ SendYieldRetry(s) \/ SendYieldFail(s)
      PROVE  PermitConservation'
  <2>1. pc[s] \in Owning /\ sem' = sem + 1 /\ UNCHANGED <<lost, resets>>
    BY <1>3 DEF SendGive, SendYieldRetry, SendYieldFail, Owning
  <2>2. PICK l \in {"idle", "wait"} : pc' = [pc EXCEPT ![s] = l]
    BY <1>3 DEF SendGive, SendYieldRetry, SendYieldFail
  <2> QED BY <2>1, <2>2, <1>r, GiveCounts
<1>4. CASE RecvTake
  BY <1>4, <1>r, TakeCounts DEF RecvTake
<1>5. CASE RecvGive \/ RecvYieldRetry \/ RecvYieldFail
  <2>1. pc[Receiver] \in Owning /\ sem' = sem + 1 /\ UNCHANGED <<lost, resets>>
    BY <1>5 DEF RecvGive, RecvYieldRetry, RecvYieldFail, Owning
  <2>2. PICK l \in {"idle", "wait"} : pc' = [pc EXCEPT ![Receiver] = l]
    BY <1>5 DEF RecvGive, RecvYieldRetry, RecvYieldFail
  <2> QED BY <2>1, <2>2, <1>r, GiveCounts
<1>6. CASE RecvReset
  <2>1. Holders' = Holders
    BY <1>6, <1>r DEF RecvReset, Holders, Owning, TypeOK
  <2>2. sem' = sem + 1 /\ resets' = resets + 1 /\ lost' = lost
    BY <1>6 DEF RecvReset
  <2> QED BY <2>1, <2>2, <1>h DEF PermitConservation, TypeOK
<1>7. CASE \/ CallRecv \/ RecvTimeoutReset \/ RecvTimeout \/ RecvCheckFull
           \/ RecvCheckEmpty \/ CallbackReturns \/ RecvClear
           \/ \E w \in Parts : Load(w)
  <2>1. Holders' = Holders
    BY <1>7, <1>r DEF CallRecv, RecvTimeoutReset, RecvTimeout, RecvCheckFull,
                      RecvCheckEmpty, CallbackReturns, RecvClear, Load,
                      Holders, Owning, TypeOK
  <2>2. UNCHANGED <<sem, lost, resets>>
    BY <1>7 DEF CallRecv, RecvTimeoutReset, RecvTimeout, RecvCheckFull,
                RecvCheckEmpty, CallbackReturns, RecvClear, Load
  <2> QED BY <2>1, <2>2, <1>k
<1>8. CASE SenderCrash \/ ReceiverCrash
  <2>1. PICK gone : Vanish(gone) /\ UNCHANGED <<sem, resets>>
    BY <1>8 DEF SenderCrash, ReceiverCrash
  <2> QED BY <2>1, VanishCounts
<1>9. CASE SenderDetach \/ ReceiverDetach
  <2>1. Holders' = Holders
    BY <1>9 DEF SenderDetach, ReceiverDetach, Holders
  <2>2. /\ resets' = resets
        /\ \/ sem > 0 /\ sem' = sem - 1 /\ lost' = lost + 1
           \/ UNCHANGED <<sem, lost>>
    BY <1>9 DEF SenderDetach, ReceiverDetach, Detach
  <2> QED BY <2>1, <2>2, <1>h DEF PermitConservation, TypeOK
<1>10. CASE UNCHANGED vars
  BY <1>10, <1>k DEF vars, Holders
<1> QED BY <1>1, <1>2, <1>3, <1>4, <1>5, <1>6, <1>7, <1>8, <1>9, <1>10
        DEF Next, SendStepOf, RecvStepOf, Fault

LEMMA FewRepairsStep == TypeOK /\ FewRepairs /\ [Next]_vars => FewRepairs'
PROOF
<1> SUFFICES ASSUME TypeOK, FewRepairs, [Next]_vars PROVE FewRepairs' OBVIOUS
<1> USE DEF Goto, chan, recvObj, ghosts
<1>r. Receiver \in Threads /\ \A s \in Senders : s \in Threads /\ s # Receiver
  BY ThreadAssumption DEF Threads
<1>k. ASSUME UNCHANGED <<resets, semReset, faults>>,
             pc'[Receiver] = "reset" => pc[Receiver] = "reset"
      PROVE  FewRepairs'
  BY <1>k DEF FewRepairs
<1>1. ASSUME NEW s \in Senders, SendStepOf(s) \/ \E f \in Frames : CallSend(s, f)
      PROVE  FewRepairs'
  <2>1. UNCHANGED <<resets, semReset, faults>>
    BY <1>1 DEF SendStepOf, CallSend, SendTake, SendTimeout, SendCheckEmpty,
                SendCheckFull, Store, SendGive, SendYieldRetry, SendYieldFail
  <2>2. pc' = pc \/ \E l \in Labels : pc' = [pc EXCEPT ![s] = l]
    BY <1>1 DEF SendStepOf, CallSend, SendTake, SendTimeout, SendCheckEmpty,
                SendCheckFull, Store, SendGive, SendYieldRetry, SendYieldFail,
                Labels, Owning
  <2>3. pc'[Receiver] = pc[Receiver]
    BY <2>2, <1>r DEF TypeOK
  <2> QED BY <2>1, <2>3, <1>k
<1>2. CASE RecvTimeoutReset
  BY <1>2 DEF RecvTimeoutReset, FewRepairs
<1>3. CASE RecvReset
  <2>1. ~semReset /\ semReset' /\ resets' = resets + 1 /\ faults' = faults
    BY <1>3 DEF RecvReset, FewRepairs
  <2>2. pc'[Receiver] # "reset"
    BY <1>3, <1>r DEF RecvReset, TypeOK
  <2> QED BY <2>1, <2>2 DEF FewRepairs, TypeOK
<1>4. CASE \/ CallRecv \/ RecvTake \/ RecvTimeout \/ RecvCheckFull \/ RecvCheckEmpty
           \/ CallbackReturns \/ RecvClear \/ RecvGive \/ RecvYieldRetry
           \/ RecvYieldFail \/ \E w \in Parts : Load(w)
  <2>1. UNCHANGED <<resets, semReset, faults>>
    BY <1>4 DEF CallRecv, RecvTake, RecvTimeout, RecvCheckFull, RecvCheckEmpty,
                CallbackReturns, RecvClear, RecvGive, RecvYieldRetry, RecvYieldFail, Load
  <2>2. pc' = pc \/ \E l \in Labels \ {"reset"} : pc' = [pc EXCEPT ![Receiver] = l]
    BY <1>4 DEF CallRecv, RecvTake, RecvTimeout, RecvCheckFull, RecvCheckEmpty,
                CallbackReturns, RecvClear, RecvGive, RecvYieldRetry, RecvYieldFail, Load,
                Labels, Owning
  <2> QED BY <2>1, <2>2, <1>k, <1>r DEF TypeOK
<1>5. CASE SenderCrash \/ SenderDetach
  <2>1. UNCHANGED <<resets, semReset>> /\ faults'["receiver"] = faults["receiver"]
    BY <1>5 DEF SenderCrash, SenderDetach, Detach, CountFault, TypeOK
  <2>2. pc'[Receiver] = pc[Receiver]
    BY <1>5, <1>r DEF SenderCrash, SenderDetach, Vanish
  <2> QED BY <2>1, <2>2 DEF FewRepairs
<1>6. CASE ReceiverCrash \/ ReceiverDetach
  <2>1. /\ resets' = resets /\ ~semReset'
        /\ faults'["receiver"] = faults["receiver"] + 1
    BY <1>6 DEF ReceiverCrash, ReceiverDetach, Detach, CountFault, TypeOK
  <2>2. faults["receiver"] \in Nat /\ resets \in Nat
    BY DEF TypeOK
  <2> QED BY <2>1, <2>2 DEF FewRepairs
<1>7. CASE UNCHANGED vars
  BY <1>7, <1>k DEF vars
<1> QED BY <1>1, <1>2, <1>3, <1>4, <1>5, <1>6, <1>7 DEF Next, RecvStepOf, Fault

\* No return path of send or recv forgets its signal(), none gives a permit
\* twice, and the permits recv adds are at most one per start of the consumer:
\* in every schedule, also one in which holders are slow.
THEOREM PermitsAccountedHolds == Spec => []PermitsAccounted
PROOF
<1>1. TypeOK /\ PermitInv => PermitsAccounted
  <2> SUFFICES ASSUME TypeOK, PermitInv PROVE RepairBounded
    BY DEF PermitInv, PermitsAccounted
  <2>1. Cardinality(Holders) \in Nat
    BY HoldersAreFinite, FS_CardinalityType
  <2>2. resets <= 1 + faults["receiver"] /\ faults["receiver"] \in Nat
    BY DEF PermitInv, FewRepairs, TypeOK
  <2> QED BY <2>1, <2>2 DEF PermitInv, PermitConservation, RepairBounded, TypeOK
<1>2. TypeOK /\ PermitInv /\ [Next]_vars => PermitInv'
  BY ConservationStep, FewRepairsStep DEF PermitInv
<1> QED BY <1>1, <1>2, TypeInit, TypeStep, PermitInit, PTL DEF Spec

-------------------------------------------------------------------------------
(* Refinement: the channel is a Mailbox. *)

LEMMA MailboxStep ==
  ASSUME Regime, ChannelInv, ChannelInv', [Next]_vars
  PROVE  [Promise!Next]_(Promise!vars)
PROOF
<1> USE DEF ChannelInv
<1>b. /\ Box = IF state = 1 /\ NoWriter THEN Value(slot) ELSE NoFrame
      /\ Box' = IF state' = 1 /\ NoWriter' THEN Value(slot)' ELSE NoFrame
  BY DEF Box, NoWriter
<1>1. ASSUME SlotQuiet PROVE UNCHANGED Promise!vars
  BY <1>1, <1>b DEF SlotQuiet, Promise!vars, Value
<1>2. ASSUME NEW s \in Senders, NEW w \in Parts \cup {StateWord}, Store(s, w), todo[s] # {w}
      PROVE  UNCHANGED Promise!vars
  BY <1>2, <1>b, StoreWord DEF Promise!vars
<1>3. ASSUME NEW s \in Senders, NEW w \in Parts \cup {StateWord}, Store(s, w), todo[s] = {w}
      PROVE  Promise!Put
  <2>1. /\ ~NoWriter /\ NoWriter' /\ state' = 1
        /\ slot' = Whole(frame[s]) /\ frame[s] \in Frames
        /\ handed' = 0 /\ last' = last
    BY <1>3, Publish
  <2>2. Value(slot)' = frame[s]
    <3>1. Value(slot') = frame[s]
      BY <2>1, WholeValue
    <3> QED BY <3>1 DEF Value
  <2> QED BY <2>1, <2>2, <1>b DEF Promise!Put
<1>4. ASSUME CallbackReturns PROVE Promise!HandOver
  <2>1. /\ state = 1 /\ last' = Value(slot) /\ Value(slot) \in Frames
        /\ NoWriter /\ NoWriter'
    BY <1>4, HandOverWhole
  <2>2. handed' = handed + 1 /\ state' = state /\ slot' = slot
    BY <1>4 DEF CallbackReturns, chan
  <2>3. Box = Value(slot) /\ Box' = Value(slot)
    BY <2>1, <2>2, <1>b DEF Value
  <2> QED BY <2>1, <2>2, <2>3, FrameAssumption DEF Promise!HandOver
<1>5. ASSUME RecvClear PROVE Promise!Clear
  <2>1. state = 1 /\ state' = 0 /\ NoWriter /\ handed > 0 /\ last = Value(slot)
    BY <1>5, ClearHanded
  <2>2. last' = last /\ handed' = handed
    BY <1>5 DEF RecvClear, ghosts
  <2> QED BY <2>1, <2>2, <1>b DEF Promise!Clear
<1> QED BY <1>1, <1>2, <1>3, <1>4, <1>5, HandshakeStep DEF Promise!Next

\* The channel implements Mailbox: every accepted frame stays whole in the slot
\* until the callback had it; no send overwrites it, no restart drops it.
THEOREM MailboxImplemented ==
  ASSUME Regime PROVE Spec => ImplementsMailbox
PROOF
<1>1. Init => Promise!Init
  BY DEF Init, Promise!Init, Box
<1>2. ChannelInv /\ ChannelInv' /\ [Next]_vars => [Promise!Next]_(Promise!vars)
  BY MailboxStep
<1> QED BY <1>1, <1>2, ChannelInvariant, PTL DEF Spec, ImplementsMailbox, Promise!Spec
===============================================================================
