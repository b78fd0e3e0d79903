--------------------------------- MODULE TcpServer ---------------------------------
(***************************************************************************)
(* A TCPSocket in server mode: m_accepts lists the connections svrAccept   *)
(* has handed out by their numbers.  sendData and receiveData take such a  *)
(* number from the caller, and close it and erase it from the list when    *)
(* the call fails.  receiveData reads from m_socketFd, which listens, so   *)
(* it fails always, and the connection is gone.  The kernel gives a closed *)
(* number to the next one who opens.                                       *)
(***************************************************************************)
EXTENDS Integers, Sequences, SequencesExt

CONSTANTS
  MaxFd,      \* bound: numbers the kernel gives
  MaxCalls    \* bound: svrAccept, sendData and receiveData of the caller

Fds == 1..MaxFd

VARIABLES
  m_socketFd,
  m_accepts,
  owner,     \* the kernel: what a number is, "free", "listener", "connection" or "other"
  gone,      \* connections whose peer has left
  known,     \* the numbers the caller has, also those it should have forgotten
  valid,     \* those it was not told the end of
  alive,     \* the process lives
  calls,     \* bounded: calls of the caller
  stale,     \* ghost: the caller has used a number behind its end
  stolen     \* ghost: a descriptor of another part of the program was closed

caller == <<known, valid, stale>>
vars == <<m_socketFd, m_accepts, owner, gone, known, valid, alive, calls, stale, stolen>>

Init ==
  /\ m_socketFd = -1 /\ m_accepts = <<>>
  /\ owner = [n \in Fds |-> "free"] /\ gone = {}
  /\ known = {} /\ valid = {} /\ alive = TRUE /\ calls = 0
  /\ stale = FALSE /\ stolen = FALSE

NumberFree == \E n \in Fds : owner[n] = "free"
Lowest == CHOOSE n \in Fds : owner[n] = "free" /\ \A m \in 1..n - 1 : owner[m] # "free"
Opens(what) == NumberFree /\ owner' = [owner EXCEPT ![Lowest] = what]
CloseAll(ns) == /\ owner' = [n \in Fds |-> IF n \in ns THEN "free" ELSE owner[n]]
                /\ gone' = gone \ ns

-------------------------------------------------------------------------------
(* Steps with a plausible bug.  They are not part of the specification: each   *)
(* one in the place of its original is what some property has to catch.        *)

\* deinit closes the connections and leaves the list.
DeinitKeepsList ==
  /\ alive
  /\ CloseAll(ToSet(m_accepts) \cup {m_socketFd})
  /\ m_socketFd' = -1 /\ valid' = {}
  /\ stolen' = (stolen \/ \E n \in ToSet(m_accepts) : owner[n] = "other")
  /\ UNCHANGED <<m_accepts, known, alive, calls, stale>>

-------------------------------------------------------------------------------

Call == alive /\ calls < MaxCalls /\ calls' = calls + 1

\* init that succeeds, of an object that is not up; the others are SocketObject's.
InitServer ==
  /\ alive /\ m_socketFd = -1 /\ Opens("listener")
  /\ m_socketFd' = Lowest
  /\ UNCHANGED <<m_accepts, gone, known, valid, alive, calls, stale, stolen>>

SvrAccept ==
  /\ Call /\ m_socketFd # -1 /\ owner[m_socketFd] = "listener" /\ Opens("connection")
  /\ m_accepts' = Append(m_accepts, Lowest)
  /\ known' = known \cup {Lowest} /\ valid' = valid \cup {Lowest}
  /\ UNCHANGED <<m_socketFd, gone, alive, stale, stolen>>

\* The error path of sendData and receiveData; the caller is told.
Drop(handle) ==
  /\ CloseAll({handle})
  /\ stolen' = (stolen \/ owner[handle] = "other")
  /\ m_accepts' = RemoveFirst(m_accepts, handle)
  /\ valid' = valid \ {handle}
  /\ UNCHANGED <<m_socketFd, known, alive>>

Uses(handle) ==
  /\ Call /\ handle \in known /\ m_socketFd # -1
  /\ stale' = (stale \/ handle \notin valid)

\* A send whose peer has left may fail, or kill the process (SIGPIPE).
SendData(handle) ==
  /\ Uses(handle)
  /\ IF owner[handle] = "connection" /\ handle \notin gone
       THEN UNCHANGED <<m_socketFd, m_accepts, owner, gone, known, valid, alive, stolen>>
       ELSE \/ Drop(handle)
            \/ /\ owner[handle] = "connection" /\ alive' = FALSE
               /\ UNCHANGED <<m_socketFd, m_accepts, owner, gone, known, valid, stolen>>

ReceiveData(handle) == Uses(handle) /\ Drop(handle)

\* A handle used behind deinit changes nothing, so deinit need not be the last call.
Deinit ==
  /\ alive
  /\ CloseAll(ToSet(m_accepts) \cup {m_socketFd})
  /\ m_socketFd' = -1 /\ m_accepts' = <<>> /\ valid' = {}
  /\ stolen' = (stolen \/ \E n \in ToSet(m_accepts) : owner[n] = "other")
  /\ UNCHANGED <<known, alive, calls, stale>>

PeerLeaves(handle) ==
  /\ owner[handle] = "connection"
  /\ gone' = gone \cup {handle}
  /\ UNCHANGED <<m_socketFd, m_accepts, owner, known, valid, alive, calls, stale, stolen>>

\* Another part of the program opens or closes a descriptor of its own.
OtherOpens ==
  /\ alive /\ Opens("other")
  /\ UNCHANGED <<m_socketFd, m_accepts, gone, known, valid, alive, calls, stale, stolen>>

OtherCloses(n) ==
  /\ alive /\ owner[n] = "other"
  /\ owner' = [owner EXCEPT ![n] = "free"]
  /\ UNCHANGED <<m_socketFd, m_accepts, gone, known, valid, alive, calls, stale, stolen>>

-------------------------------------------------------------------------------

Next == \/ InitServer \/ SvrAccept \/ Deinit \/ OtherOpens
        \/ \E h \in Fds : SendData(h) \/ ReceiveData(h) \/ PeerLeaves(h) \/ OtherCloses(h)

Spec == Init /\ [][Next]_vars

-------------------------------------------------------------------------------
(* Properties *)

\* A caller that believes what it is told, and uses no number behind a failure or a
\* deinit, may rely on the list: it has every connection once and nothing else, so that
\* deinit closes them all, and no descriptor of others is ever closed, although numbers
\* come back at once.
AcceptsExact ==
  ~stale => /\ ToSet(m_accepts) = {n \in Fds : owner[n] = "connection"}
            /\ IsInjective(m_accepts)
            /\ m_socketFd # -1 => owner[m_socketFd] = "listener"
            /\ valid = ToSet(m_accepts) /\ ~stolen

\* What the proof carries through every step: AcceptsExact and the types it rests on.
Accounted ==
  /\ m_socketFd \in Fds \cup {-1} /\ m_accepts \in Seq(Fds) /\ known \subseteq Fds
  /\ owner \in [Fds -> {"free", "listener", "connection", "other"}]
  /\ {stale, stolen} \subseteq BOOLEAN
  /\ AcceptsExact
===============================================================================
