--------------------------------- MODULE Discovery ---------------------------------
(***************************************************************************)
(* Device discovery: server_main with a BroadcastServer, whose detached    *)
(* thread receives while main broadcasts a search at each key and stops at *)
(* "q"; and on every device client_main with a BroadcastClient, which      *)
(* tries to init until it succeeds and answers searches with its address.  *)
(* Datagrams get lost, come twice or late; those at a socket wait there.   *)
(***************************************************************************)
EXTENDS FiniteSets

CONSTANT Devices

Search == [kind |-> "search"]
Answer(d) == [kind |-> "answer", dev |-> d]

VARIABLES
  m_running, \* of the server
  open,      \* its m_socket is open
  receive,   \* where receiveThread is
  msg,       \* the datagram it has, <<>> if none
  found,     \* what was handed to the callback
  client,    \* each device's program: "off", "init" (failing), "up"
  net        \* datagrams under way, with the one they are for

vars == <<m_running, open, receive, msg, found, client, net>>
server == <<m_running, open, receive, msg, found>>

Init ==
  /\ m_running = TRUE /\ open = TRUE /\ receive = "test" /\ msg = <<>>
  /\ found = {} /\ client = [d \in Devices |-> "off"] /\ net = {}

For(to, what) == [to |-> to, msg |-> what]

-------------------------------------------------------------------------------
(* Steps with a plausible bug.  They are not part of the specification: each   *)
(* one in the place of its original is what some property has to catch.        *)

\* stop closes the socket and leaves the thread to notice.
StopClosesOnly ==
  /\ m_running /\ open
  /\ m_running' = m_running /\ open' = FALSE
  /\ UNCHANGED <<receive, msg, found, client, net>>

\* A device answers when both its msg and its type ask for it; but the type, the last
\* member of the object, is not found by getJsonStringVal.
AnswersBoth(d) ==
  /\ For(d, Search) \in net /\ client[d] = "up"
  /\ net' \in {net, net \ {For(d, Search)}}
  /\ UNCHANGED <<client>> /\ UNCHANGED server

-------------------------------------------------------------------------------
(* server_main, BroadcastServer *)

\* broadcast reaches some of the devices that are up, and the server's own socket.
Broadcast ==
  /\ m_running /\ open
  /\ \E ds \in SUBSET {d \in Devices : client[d] = "up"} :
       net' = net \cup {For(d, Search) : d \in ds} \cup {For("server", Search)}
  /\ UNCHANGED client /\ UNCHANGED server

StopFlag ==
  /\ m_running
  /\ m_running' = FALSE
  /\ UNCHANGED <<open, receive, msg, found, client, net>>

\* close does not wake a thread that is in recvfrom.
StopCloses ==
  /\ ~m_running /\ open
  /\ open' = FALSE
  /\ UNCHANGED <<m_running, receive, msg, found, client, net>>

ReceiveTests ==
  /\ receive = "test"
  /\ receive' = IF m_running THEN "enter" ELSE "ended"
  /\ UNCHANGED <<m_running, open, msg, found, client, net>>

\* With a closed socket recvfrom fails at once.
ReceiveEnters ==
  /\ receive = "enter"
  /\ receive' = IF open THEN "recvfrom" ELSE "test"
  /\ UNCHANGED <<m_running, open, msg, found, client, net>>

\* One datagram; it may come twice.
Receives ==
  /\ receive = "recvfrom"
  /\ \E m \in net :
       m.to = "server" /\ msg' = <<m.msg>> /\ net' \in {net, net \ {m}}
  /\ receive' = "callback"
  /\ UNCHANGED <<m_running, open, found, client>>

\* The callback may come after stop has returned; also the own search is reported.
Reports ==
  /\ receive = "callback"
  /\ found' = found \cup {msg[1]} /\ msg' = <<>> /\ receive' = "test"
  /\ UNCHANGED <<m_running, open, client, net>>

-------------------------------------------------------------------------------
(* client_main, BroadcastClient *)

Starts(d) ==
  /\ client[d] = "off"
  /\ client' = [client EXCEPT ![d] = "init"]
  /\ UNCHANGED net /\ UNCHANGED server

\* The first init that does not fail.
Inits(d) ==
  /\ client[d] = "init"
  /\ client' = [client EXCEPT ![d] = "up"]
  /\ UNCHANGED net /\ UNCHANGED server

\* A signal ends the program: the handler exits with the mutex main waits for.
Dies(d) ==
  /\ client[d] # "off"
  /\ client' = [client EXCEPT ![d] = "off"] /\ net' = net \ {For(d, Search)}
  /\ UNCHANGED server

\* The answer goes to the address the search came from, or gets lost.
Answers(d) ==
  /\ For(d, Search) \in net /\ client[d] = "up"
  /\ \E rest \in {net, net \ {For(d, Search)}} :
       net' \in {rest, rest \cup {For("server", Answer(d))}}
  /\ UNCHANGED client /\ UNCHANGED server

-------------------------------------------------------------------------------

Thread == ReceiveTests \/ ReceiveEnters \/ Reports
Next == \/ Broadcast \/ StopFlag \/ StopCloses \/ Thread \/ Receives
        \/ \E d \in Devices : Starts(d) \/ Inits(d) \/ Dies(d) \/ Answers(d)

\* The programs run; a datagram that is sent again and again arrives.
Spec == /\ Init /\ [][Next]_vars /\ WF_vars(Thread) /\ WF_vars(StopCloses)
        /\ \A d \in Devices :
             /\ WF_vars(Inits(d)) /\ SF_vars(Answers(d) /\ For("server", Answer(d)) \in net')
             /\ SF_vars(Receives /\ msg' = <<Answer(d)>>)

-------------------------------------------------------------------------------
(* Properties *)

\* A device is found that stays up and hears searches again and again, in spite of
\* lost answers and of the server hearing itself.
Searching == m_running /\ open
Asked(d) == For(d, Search) \in net
Up(d) == client[d] = "up"
Found(d) == Answer(d) \in found
SearchFinds == \A d \in Devices : []Searching /\ []<>Asked(d) /\ <>[]Up(d) => <>Found(d)

\* stop ends the detached thread: unless it is in recvfrom, where only a datagram
\* wakes it, it leaves its loop by itself.
Leaving == ~open /\ receive \notin {"recvfrom", "ended"}
ThreadEnds == Leaving ~> ~Leaving
===============================================================================
