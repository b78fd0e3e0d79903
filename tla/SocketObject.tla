------------------------------- MODULE SocketObject -------------------------------
(***************************************************************************)
(* The life of the six classes that own a socket: init, which may fail     *)
(* half way, and deinit, in any order.  The kernel gives a closed number   *)
(* to whoever opens next, so what matters is what each class remembers:    *)
(* its number after a failed init and after deinit, and the addresses it   *)
(* has allocated.                                                          *)
(***************************************************************************)
EXTENDS Integers, FiniteSets

CONSTANT MaxCalls   \* bound: calls of init and deinit

\* What distinguishes the classes:
\*   refuses: the numbers for which init takes the object for initialised
\*   closesOnFailure: an init that fails behind socket() closes what it opened
\*   spares, after: the numbers deinit does not close, and the number it leaves
\*   addresses: addresses allocated before and behind the call that may fail
Fds == 0..2   \* 0 is standard input
Numbers == Fds \cup {-1}
BroadCastSvr == [name |-> "BroadCastSvr", refuses |-> {1, 2}, closesOnFailure |-> TRUE,
                 spares |-> {0}, after |-> -1, addresses |-> <<0, 1>>]
BroadCastCli == [name |-> "BroadCastCli", refuses |-> {1, 2}, closesOnFailure |-> TRUE,
                 spares |-> {0}, after |-> -1, addresses |-> <<1, 1>>]
TCPSocket == [name |-> "TCPSocket", refuses |-> {}, closesOnFailure |-> FALSE,
              spares |-> {-1}, after |-> -1, addresses |-> <<0, 0>>]
FtpClient == [name |-> "FtpClient", refuses |-> Fds, closesOnFailure |-> TRUE,
              spares |-> {-1}, after |-> 0, addresses |-> <<0, 0>>]
BroadcastServer == [name |-> "BroadcastServer", refuses |-> {}, closesOnFailure |-> TRUE,
                    spares |-> {-1}, after |-> -1, addresses |-> <<0, 0>>]
BroadcastClient == [BroadcastServer EXCEPT !.name = "BroadcastClient"]
Classes == {BroadCastSvr, BroadCastCli, TCPSocket, FtpClient, BroadcastServer, BroadcastClient}

VARIABLES
  class,    \* the object's class
  fd,       \* m_socketFd or m_socket
  owner,    \* the kernel: who has a number open, "nobody", "object" or "other"
  addr,     \* each of two address pointers: "null", "live" or "deleted"
  up,       \* an init succeeded and no deinit followed
  calls,    \* bounded: calls so far
  misuse,   \* ghost: init of an object that is up, or deinit of one that is not
  failed,   \* ghost: an init has failed
  harm      \* ghost: what has gone wrong

vars == <<class, fd, owner, addr, up, calls, misuse, failed, harm>>

Init ==
  /\ class \in Classes
  /\ fd = -1 /\ owner = [n \in Fds |-> IF n = 0 THEN "other" ELSE "nobody"]
  /\ addr = [i \in {1, 2} |-> "null"]
  /\ up = FALSE /\ calls = 0 /\ misuse = FALSE /\ failed = FALSE /\ harm = {}

Lowest == CHOOSE n \in Fds : owner[n] = "nobody" /\ \A m \in 0..n - 1 : owner[m] # "nobody"
NumberFree == \E n \in Fds : owner[n] = "nobody"

\* A pointer that is overwritten while live is lost.
Allocate(i) == [addr EXCEPT ![i] = "live"]
Lost(i) == class.addresses[i] = 1 /\ addr[i] = "live"

-------------------------------------------------------------------------------
(* Steps with a plausible bug.  They are not part of the specification: each   *)
(* one in the place of its original is what some property has to catch.        *)

\* deinit closes but does not forget the number.
AfterDeinitSame == fd

-------------------------------------------------------------------------------

Refuses == fd \in class.refuses
AfterDeinit == class.after

\* close(fd) hits an open descriptor.
Closes(n) == n \in Fds /\ n \notin class.spares /\ owner[n] # "nobody"

Call == calls < MaxCalls /\ calls' = calls + 1

InitRefused ==
  /\ Call /\ Refuses
  /\ misuse' = (misuse \/ up)
  /\ harm' = IF up THEN harm ELSE harm \cup {"refused"}
  /\ UNCHANGED <<class, fd, owner, addr, up, failed>>

\* A number that is overwritten while open is lost.
Orphans == IF \E n \in Fds : owner[n] = "object" THEN {"leak"} ELSE {}

InitSucceeds ==
  /\ Call /\ ~Refuses /\ NumberFree
  /\ fd' = Lowest /\ owner' = [owner EXCEPT ![Lowest] = "object"]
  /\ addr' = [i \in {1, 2} |-> IF class.addresses[i] = 1 THEN "live" ELSE addr[i]]
  /\ harm' = harm \cup Orphans \cup (IF \E i \in {1, 2} : Lost(i) THEN {"leak"} ELSE {})
  /\ misuse' = (misuse \/ up) /\ up' = TRUE
  /\ UNCHANGED <<class, failed>>

\* setsockopt, bind, listen or inet_pton fails.
InitFails ==
  /\ Call /\ ~Refuses /\ NumberFree
  /\ fd' = Lowest
  /\ owner' = IF class.closesOnFailure THEN owner ELSE [owner EXCEPT ![Lowest] = "object"]
  /\ addr' = IF class.addresses[1] = 1 THEN Allocate(1) ELSE addr
  /\ harm' = harm \cup Orphans \cup (IF Lost(1) THEN {"leak"} ELSE {})
  /\ misuse' = (misuse \/ up) /\ failed' = TRUE
  /\ UNCHANGED <<class, up>>

\* Discovery looks for the machine's own address before it opens a socket.
InitFindsNoAddress ==
  /\ Call /\ class \in {BroadcastServer, BroadcastClient}
  /\ misuse' = (misuse \/ up) /\ failed' = TRUE
  /\ UNCHANGED <<class, fd, owner, addr, up, harm>>

\* socket() fails: there is no number to remember.
InitGetsNone ==
  /\ Call /\ ~Refuses
  /\ fd' = -1 /\ harm' = harm \cup Orphans
  /\ misuse' = (misuse \/ up) /\ failed' = TRUE
  /\ UNCHANGED <<class, owner, addr, up>>

\* Also the destructors of the discovery classes.
Deinit ==
  /\ Call
  /\ owner' = IF Closes(fd) THEN [owner EXCEPT ![fd] = "nobody"] ELSE owner
  /\ fd' = IF fd = -1 THEN fd ELSE AfterDeinit
  /\ addr' = [i \in {1, 2} |-> IF addr[i] = "live" THEN "deleted" ELSE addr[i]]
  /\ harm' = harm \cup (IF Closes(fd) /\ owner[fd] = "other" THEN {"stranger"} ELSE {})
                  \cup (IF \E i \in {1, 2} : addr[i] = "deleted" THEN {"double delete"} ELSE {})
  /\ misuse' = (misuse \/ ~up) /\ up' = FALSE
  /\ UNCHANGED <<class, failed>>

\* Another part of the program opens or closes a descriptor of its own.
OtherOpens ==
  /\ NumberFree
  /\ owner' = [owner EXCEPT ![Lowest] = "other"]
  /\ UNCHANGED <<class, fd, addr, up, calls, misuse, failed, harm>>

OtherCloses(n) ==
  /\ n # 0 /\ owner[n] = "other"
  /\ owner' = [owner EXCEPT ![n] = "nobody"]
  /\ UNCHANGED <<class, fd, addr, up, calls, misuse, failed, harm>>

-------------------------------------------------------------------------------

Next == \/ InitRefused \/ InitSucceeds \/ InitFails \/ InitGetsNone \/ InitFindsNoAddress \/ Deinit
        \/ OtherOpens \/ \E n \in Fds : OtherCloses(n)

Spec == Init /\ [][Next]_vars

-------------------------------------------------------------------------------
(* Properties *)

\* Every class can be used again and again: as long as inits succeed and each is
\* followed by one deinit, nothing is lost, closed twice or taken from others.  Only
\* FtpClient refuses the second init, for deinit leaves it the number 0.
OrderlyUse ==
  (~misuse /\ ~failed) => harm \subseteq (IF class.name = "FtpClient" THEN {"refused"} ELSE {})

\* The classes that test for an initialised object never lose a descriptor, in
\* whatever order init and deinit are called and fail.
NoDescriptorLost == class.refuses # {} => "leak" \notin harm

\* TCPSocket, which keeps the descriptor of a failed init open until deinit, never
\* closes another's; the others remember a number that is no longer theirs.
OthersUntouched == class.name = "TCPSocket" => harm \cap {"stranger", "double delete"} = {}

\* What may go wrong with descriptors and addresses is less than it looks: the three
\* promises above, for every order of init, failed init and deinit.
DescriptorsKept == OrderlyUse /\ NoDescriptorLost /\ OthersUntouched

\* What the proof carries through every step.  A class that tests for an initialised
\* object remembers the one descriptor it has; TCPSocket's number is open as long as
\* it is one; orderly use leaves nothing behind a deinit.
OpenOf == {n \in Fds : owner[n] = "object"}
Live == {i \in {1, 2} : addr[i] = "live"}

Remembered ==
  class.refuses # {} =>
    /\ OpenOf \subseteq {fd}
    /\ ~Refuses => OpenOf = {} /\ Live = {}
    /\ class.name = "FtpClient" \/ owner[0] = "other"
Orderly ==
  (~misuse /\ ~failed) =>
    IF up THEN /\ fd \in Fds \ class.spares /\ OpenOf = {fd}
               /\ \A i \in {1, 2} : addr[i] # "deleted"
          ELSE /\ OpenOf = {} /\ Live = {}
               /\ fd = -1 \/ class.name = "FtpClient"
Held ==
  /\ class \in Classes /\ fd \in Numbers /\ {up, misuse, failed} \subseteq BOOLEAN
  /\ owner \in [Fds -> {"nobody", "object", "other"}]
  /\ addr \in [{1, 2} -> {"null", "live", "deleted"}]
  /\ \A i \in {1, 2} : class.addresses[i] = 0 => addr[i] = "null"
  /\ class.name = "TCPSocket" => fd = -1 \/ fd \in OpenOf
  /\ Remembered /\ Orderly /\ DescriptorsKept
===============================================================================
