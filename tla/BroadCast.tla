--------------------------------- MODULE BroadCast ---------------------------------
(***************************************************************************)
(* recv and send of BroadCastSvr and BroadCastCli, called by two threads   *)
(* on one object, as the demos do.  Each call says by its timeSec whether  *)
(* it blocks (-1), does not block (0) or waits for a time (> 0); but       *)
(* whether a socket blocks is one bit of the descriptor both threads       *)
(* share, and m_fdBlock is the object's idea of that bit.  A call tests    *)
(* m_fdBlock, sets the bit, sets m_fdBlock, selects, and then receives or  *)
(* sends; the other thread may come in between any two of these.  Both     *)
(* calls select for reading: send hands its writefds to select in the      *)
(* place of the set to be read.                                            *)
(***************************************************************************)
EXTENDS Integers

CONSTANTS
  MaxData,   \* bound: datagrams waiting
  MaxOpens   \* bound: inits of the object

BroadCastAssumption == MaxData \in Nat /\ MaxOpens \in Nat \ {0}

Threads == {"receiver", "sender"}
Modes == {"block", "noblock", "wait"}   \* timeSec < 0, = 0, > 0

VARIABLES
  mode,       \* the timeSec each thread passes, always the same one
  m_fdBlock,  \* the object's idea of the descriptor
  nonblock,   \* O_NONBLOCK of the descriptor
  pc,         \* where each thread is in its call
  data,       \* datagrams waiting
  room,       \* the descriptor's send buffer takes another datagram
  came,       \* ghost: a datagram has come on this descriptor
  result,     \* ghost: what the last call of each thread on this descriptor returned
  opens       \* bounded: inits so far

vars == <<mode, m_fdBlock, nonblock, pc, data, room, came, result, opens>>

Init ==
  /\ mode \in [Threads -> Modes]
  /\ m_fdBlock = TRUE /\ nonblock = FALSE
  /\ pc = [t \in Threads |-> "out"] /\ data = 0 /\ room = TRUE /\ came = FALSE
  /\ result = [t \in Threads |-> "none"] /\ opens = 1

Goto(t, place) == pc' = [pc EXCEPT ![t] = place]
Return(t, r) == Goto(t, "out") /\ result' = [result EXCEPT ![t] = r]
Agrees(t) == m_fdBlock <=> mode[t] = "block"

-------------------------------------------------------------------------------
(* Steps with a plausible bug.  They are not part of the specification: each   *)
(* one in the place of its original is what some property has to catch.        *)

\* select's answer 0, nothing came in time, is not looked at.
SelectUnlooked(t) ==
  /\ pc[t] = "select"
  /\ Goto(t, "io") /\ UNCHANGED <<mode, m_fdBlock, nonblock, data, room, came, result, opens>>

-------------------------------------------------------------------------------
(* The part recv and send share *)

Call(t) ==
  /\ pc[t] = "out"
  /\ Goto(t, "test")
  /\ UNCHANGED <<mode, m_fdBlock, nonblock, data, room, came, result, opens>>

Test(t) ==
  /\ pc[t] = "test"
  /\ Goto(t, IF ~Agrees(t) THEN "set" ELSE IF mode[t] = "wait" THEN "select" ELSE "io")
  /\ UNCHANGED <<mode, m_fdBlock, nonblock, data, room, came, result, opens>>

\* fcntl with F_SETFL.
SetFlag(t) ==
  /\ pc[t] = "set"
  /\ nonblock' = (mode[t] # "block")
  /\ Goto(t, "mark")
  /\ UNCHANGED <<mode, m_fdBlock, data, room, came, result, opens>>

Mark(t) ==
  /\ pc[t] = "mark"
  /\ m_fdBlock' = (mode[t] = "block")
  /\ Goto(t, IF mode[t] = "wait" THEN "select" ELSE "io")
  /\ UNCHANGED <<mode, nonblock, data, room, came, result, opens>>

\* A datagram is there, or none has come when the time is over; for send as for recv.
Select(t) ==
  /\ pc[t] = "select"
  /\ \/ data > 0 /\ Goto(t, "io") /\ UNCHANGED result
     \/ data = 0 /\ Return(t, "timeout")
  /\ UNCHANGED <<mode, m_fdBlock, nonblock, data, room, came, opens>>

-------------------------------------------------------------------------------
(* recvfrom and sendto *)

\* The bit counts when the system call is entered.
RecvEnters ==
  /\ pc["receiver"] = "io"
  /\ IF data = 0 /\ ~nonblock THEN Goto("receiver", "blocked") /\ UNCHANGED <<data, result>>
     ELSE /\ data' = IF data = 0 THEN 0 ELSE data - 1
          /\ Return("receiver", IF data = 0 THEN "empty" ELSE "data")
  /\ UNCHANGED <<mode, m_fdBlock, nonblock, room, came, opens>>

RecvWakes ==
  /\ pc["receiver"] = "blocked" /\ data > 0
  /\ data' = data - 1
  /\ Return("receiver", "data")
  /\ UNCHANGED <<mode, m_fdBlock, nonblock, room, came, opens>>

\* A datagram that was sent may have taken the last room.
SendEnters ==
  /\ pc["sender"] = "io"
  /\ \/ room /\ Return("sender", "sent") /\ room' \in BOOLEAN
     \/ ~room /\ nonblock /\ Return("sender", "failed") /\ UNCHANGED room
     \/ ~room /\ ~nonblock /\ Goto("sender", "blocked") /\ UNCHANGED <<room, result>>
  /\ UNCHANGED <<mode, m_fdBlock, nonblock, data, came, opens>>

SendWakes ==
  /\ pc["sender"] = "blocked" /\ room
  /\ Return("sender", "sent") /\ room' \in BOOLEAN
  /\ UNCHANGED <<mode, m_fdBlock, nonblock, data, came, opens>>

BufferDrains ==
  /\ ~room
  /\ room' = TRUE
  /\ UNCHANGED <<mode, m_fdBlock, nonblock, pc, data, came, result, opens>>

DatagramComes ==
  /\ data < MaxData
  /\ data' = data + 1 /\ came' = TRUE
  /\ UNCHANGED <<mode, m_fdBlock, nonblock, pc, room, result, opens>>

\* deinit and init, when no thread is inside: a new descriptor, the old m_fdBlock.
Reopen ==
  /\ opens < MaxOpens /\ \A t \in Threads : pc[t] = "out"
  /\ opens' = opens + 1 /\ nonblock' = FALSE /\ data' = 0 /\ room' = TRUE
  /\ came' = FALSE /\ result' = [t \in Threads |-> "none"]
  /\ UNCHANGED <<mode, m_fdBlock, pc>>

-------------------------------------------------------------------------------

Prepare(t) == Test(t) \/ SetFlag(t) \/ Mark(t) \/ Select(t)
Recv == Prepare("receiver") \/ RecvEnters \/ RecvWakes
Send == Prepare("sender") \/ SendEnters \/ SendWakes
Next ==
  \/ \E t \in Threads : Call(t)
  \/ Recv \/ Send
  \/ DatagramComes \/ BufferDrains \/ Reopen

Spec == Init /\ [][Next]_vars

-------------------------------------------------------------------------------
(* Properties *)

TypeOK ==
  /\ mode \in [Threads -> Modes] /\ m_fdBlock \in BOOLEAN /\ nonblock \in BOOLEAN
  /\ pc \in [Threads -> {"out", "test", "set", "mark", "select", "io", "blocked"}]
  /\ data \in 0..MaxData /\ {room, came} \subseteq BOOLEAN /\ opens \in 1..MaxOpens
  /\ result \in [Threads -> {"none", "timeout", "empty", "data", "sent", "failed"}]

\* Although two threads change bit and flag without a lock, the flag tells the truth
\* outside of a change, as long as the descriptor it began with is open and each
\* thread keeps its timeSec: the two can then never be changing at once in opposite
\* directions.
FlagTruth ==
  (opens = 1 /\ \A t \in Threads : pc[t] # "mark") => (m_fdBlock <=> ~nonblock)

\* A recv that was told to wait and returns 0 has a datagram: the sender selects on
\* the same datagrams but takes none.
WaitDelivers == mode["receiver"] = "wait" => result["receiver"] # "empty"

\* As long as each thread keeps its timeSec, as the demos do, and the first descriptor
\* is open, a call told not to block, or to wait for a time, blocks in recvfrom or
\* sendto only if the other thread asked for blocking.
BlocksOnRequest ==
  (\E t \in Threads : pc[t] = "blocked") => opens > 1 \/ \E t \in Threads : mode[t] = "block"

\* The header says of timeSec > 0 "time out"; but a send told to wait so does not wait
\* for room: as long as no datagram has come it does not even reach sendto, whatever
\* room there is.
SendAwaitsDatagram ==
  /\ mode["sender"] = "wait"
  /\ pc["sender"] \in {"io", "blocked"} \/ result["sender"] \in {"sent", "failed"}
  => came

\* What a caller has to expect of two threads that share the bit.
SharedSocket == FlagTruth /\ WaitDelivers /\ BlocksOnRequest /\ SendAwaitsDatagram
-------------------------------------------------------------------------------
(* The invariant the proof needs *)

Blocking(t) == mode[t] = "block"
Alike == Blocking("receiver") <=> Blocking("sender")

Bits == m_fdBlock \in BOOLEAN /\ nonblock \in BOOLEAN
Places ==
  /\ pc \in [Threads -> {"out", "test", "set", "mark", "select", "io", "blocked"}]
  /\ data \in Nat /\ opens \in Nat \ {0}
  /\ mode \in [Threads -> Modes] /\ DOMAIN result = Threads

\* A thread about to change the bit found it the other way; only an equally minded
\* thread can have changed it since.
ChangesBit == \A t \in Threads : pc[t] \in {"set", "mark"} => Alike \/ ~Agrees(t)
BitChanged ==
  opens = 1 => \A t \in Threads : pc[t] = "mark" => (nonblock <=> ~Blocking(t))
WaitedFor == (mode["receiver"] = "wait" /\ pc["receiver"] = "io") => data > 0
Came == data > 0 => came
NeverBlocks ==
  (opens = 1 /\ \A t \in Threads : ~Blocking(t)) =>
    \A t \in Threads : /\ pc[t] \in {"mark", "select", "io"} => nonblock
                       /\ pc[t] # "blocked"

Agreed ==
  /\ Bits /\ Places
  /\ ChangesBit /\ BitChanged /\ FlagTruth
  /\ WaitedFor /\ WaitDelivers /\ NeverBlocks
  /\ Came /\ SendAwaitsDatagram
===============================================================================
