-------------------------- MODULE ClientStreamProofs --------------------------
(***************************************************************************)
(* While the event thread and the daemon are never in cli_callback at      *)
(* once, one thread at a time sends and its handle is used once.           *)
(***************************************************************************)
EXTENDS ClientStream, TLAPS

Busy == {"begin", "test", "send"}

\* The types the argument needs.
Typed ==
  /\ app \in [Appliers -> {"wait", "start", "drop", "forget", "create",
                           "clear", "peek", "join", "delete", "clean", "tell"}]
  /\ target \in [Appliers -> Senders \cup {NoSender}]
  /\ workProc \in Senders \cup {NoSender}
  /\ handle \in [Senders -> {"none", "joinable", "joined"}]
  /\ sender \in [Senders -> {"none", "begin", "test", "send", "ended"}]
  /\ raced \in BOOLEAN

OneApplier == \E a \in Appliers : app[a] = "wait"

\* A thread that sends is the one of workProc, and not joined yet, ...
Known == \A t \in Senders :
  sender[t] \in Busy => t = workProc /\ (Alive => handle[t] = "joinable")

\* ... and between two requests workProc has a thread to join or there is none;
\* a start meets no other pointer, a stop joins, deletes and forgets one thread.
Steady ==
  /\ Alive /\ workProc # NoSender
  /\ \A a \in Appliers : app[a] \notin {"forget", "delete", "clean"}
  => handle[workProc] = "joinable"
Place(a) ==
  /\ app[a] = "forget" => ~Alive
  /\ app[a] = "drop" => workProc # NoSender
  /\ app[a] = "create" => workProc = NoSender
  /\ app[a] = "join" => workProc # NoSender /\ target[a] = workProc
  /\ app[a] = "delete" => workProc # NoSender /\ handle[workProc] = "joined"
  /\ app[a] = "clean" => workProc # NoSender /\ handle[workProc] = "none"

Orderly ==
  OneApplier /\ Known /\ Steady /\ (\A a \in Appliers : Place(a)) /\ HandleUsedOnce

Inv == Typed /\ (~raced => Orderly)

-------------------------------------------------------------------------------

LEMMA InvInit == Init => Inv
BY ClientAssumption
   DEF Init, Inv, Typed, Orderly, OneApplier, Known, Steady, Place, HandleUsedOnce, Busy,
       Appliers

\* The event thread: starts, while the daemon waits.
LEMMA EventKeeps ==
  ASSUME Inv, EventStep \/ DaemonWakes PROVE Inv'
<1> USE ClientAssumption
      DEF App, Send, Alive, Appliers, queues, server, task, thread
<1>1. Typed
  BY DEF Inv
<1>2. SUFFICES Typed' /\ (~raced' => Orderly')
  BY DEF Inv
<1>3. ~raced => Orderly
  BY DEF Inv
<1>4. CASE ClientReceives
  <2>1. Typed'
    BY <1>1, <1>4 DEF Typed, ClientReceives
  <2>2. ~raced' => Orderly'
    BY <1>1, <1>3, <1>4, <2>1 DEF Typed, Orderly, OneApplier, Known, Steady, Place, Busy,
                                  HandleUsedOnce, ClientReceives
  <2> QED BY <2>1, <2>2
<1>5. CASE StartRefused
  <2>1. Typed'
    BY <1>1, <1>5 DEF Typed, StartRefused
  <2>2. ~raced' => Orderly'
    BY <1>1, <1>3, <1>5, <2>1 DEF Typed, Orderly, OneApplier, Known, Steady, Place, Busy,
                                  HandleUsedOnce, StartRefused
  <2> QED BY <2>1, <2>2
<1>6. CASE StartPasses
  <2>1. Typed'
    BY <1>1, <1>6 DEF Typed, StartPasses
  <2>2. ~raced' => Orderly'
    BY <1>1, <1>3, <1>6, <2>1 DEF Typed, Orderly, OneApplier, Known, Steady, Place, Busy,
                                  HandleUsedOnce, StartPasses
  <2> QED BY <2>1, <2>2
<1>7. CASE StartDeletes
  <2>1. Typed'
    BY <1>1, <1>7 DEF Typed, StartDeletes, Delete
  <2>2. ~raced' => Orderly'
    BY <1>1, <1>3, <1>7, <2>1 DEF Typed, Orderly, OneApplier, Known, Steady, Place, Busy,
                                  HandleUsedOnce, StartDeletes, Delete
  <2> QED BY <2>1, <2>2
<1>8. CASE StartForgets
  <2>1. Typed'
    BY <1>1, <1>8 DEF Typed, StartForgets
  <2>2. ~raced' => Orderly'
    BY <1>1, <1>3, <1>8, <2>1 DEF Typed, Orderly, OneApplier, Known, Steady, Place, Busy,
                                  HandleUsedOnce, StartForgets
  <2> QED BY <2>1, <2>2
<1>9. CASE StartCreates
  <2>1. Typed'
    BY <1>1, <1>9 DEF Typed, StartCreates
  <2>2. ~raced' => Orderly'
    BY <1>1, <1>3, <1>9, <2>1 DEF Typed, Orderly, OneApplier, Known, Steady, Place, Busy,
                                  HandleUsedOnce, StartCreates
  <2> QED BY <2>1, <2>2
<1>10. CASE DaemonWakes
  <2>1. Typed'
    BY <1>1, <1>10 DEF Typed, DaemonWakes
  <2>2. ~raced' => Orderly'
    BY <1>1, <1>3, <1>10, <2>1 DEF Typed, Orderly, OneApplier, Known, Steady, Place, Busy,
                                   HandleUsedOnce, DaemonWakes
  <2> QED BY <2>1, <2>2
<1> QED BY <1>4, <1>5, <1>6, <1>7, <1>8, <1>9, <1>10 DEF EventStep

\* A stop, by either of them.
LEMMA StopKeeps ==
  ASSUME Inv, NEW a \in Appliers, StopStep(a) PROVE Inv'
<1> USE ClientAssumption
      DEF App, Send, Alive, Appliers, queues, server, task, thread
<1>1. Typed
  BY DEF Inv
<1>2. SUFFICES Typed' /\ (~raced' => Orderly')
  BY DEF Inv
<1>3. raced' = raced /\ (~raced => Orderly)
  BY DEF Inv, StopStep, StopClears, StopPeeks, StopJoins, StopDeletes, StopForgets,
         StopTells
<1>4. CASE StopClears(a)
  <2>1. Typed'
    BY <1>1, <1>4 DEF Typed, StopClears
  <2>2. ~raced' => Orderly'
    BY <1>1, <1>3, <1>4, <2>1 DEF Typed, Orderly, OneApplier, Known, Steady, Place, Busy,
                                  HandleUsedOnce, StopClears
  <2> QED BY <2>1, <2>2
<1>5. CASE StopPeeks(a)
  <2>1. Typed'
    BY <1>1, <1>5 DEF Typed, StopPeeks
  <2>2. ~raced' => Orderly'
    BY <1>1, <1>3, <1>5, <2>1 DEF Typed, Orderly, OneApplier, Known, Steady, Place, Busy,
                                  HandleUsedOnce, StopPeeks
  <2> QED BY <2>1, <2>2
<1>6. CASE StopJoins(a)
  <2>1. Typed'
    BY <1>1, <1>6 DEF Typed, StopJoins
  <2>2. ASSUME ~raced' PROVE Orderly'
    <3>0. Orderly /\ app[a] = "join" /\ \A b \in Appliers : b # a => app[b] = "wait"
      <4>1. app[a] = "join"
        BY <1>6 DEF StopJoins
      <4>2. Orderly
        BY <1>3, <2>2
      <4> QED BY <4>1, <4>2 DEF Orderly, OneApplier
    <3>1. /\ workProc \in Senders /\ target[a] = workProc /\ Alive
          /\ handle[workProc] = "joinable" /\ sender[workProc] = "ended"
      BY <1>1, <1>6, <3>0 DEF Typed, Orderly, Steady, Place, StopJoins
    <3>2. /\ handle' = [handle EXCEPT ![workProc] = "joined"] /\ Alive'
          /\ app' = [app EXCEPT ![a] = "delete"]
          /\ target' = [target EXCEPT ![a] = NoSender]
          /\ UNCHANGED <<sender, workProc, raced, fate>>
      BY <1>6, <3>1 DEF StopJoins
    <3>3. OneApplier' /\ Known'
      BY <1>1, <3>0, <3>1, <3>2 DEF Typed, Orderly, OneApplier, Known, Busy
    <3>4. Steady' /\ HandleUsedOnce'
      BY <1>1, <3>0, <3>2 DEF Typed, Orderly, Steady, HandleUsedOnce
    <3>5. ASSUME NEW b \in Appliers PROVE Place(b)'
      <4>1. CASE b = a BY <1>1, <3>1, <3>2, <4>1 DEF Typed, Place
      <4>2. CASE b # a BY <1>1, <3>0, <3>2, <4>2 DEF Typed, Place
      <4> QED BY <4>1, <4>2
    <3> QED BY <3>3, <3>4, <3>5 DEF Orderly
  <2> QED BY <2>1, <2>2
<1>7. CASE StopDeletes(a)
  <2>1. Typed'
    BY <1>1, <1>7 DEF Typed, StopDeletes, Delete
  <2>2. ASSUME ~raced' PROVE Orderly'
    <3>0. Orderly /\ \A b \in Appliers : b # a => app[b] = "wait"
      BY <1>1, <1>3, <1>7, <2>2 DEF Orderly, OneApplier, StopDeletes
    <3>1. OneApplier'
      BY <1>1, <1>7, <3>0 DEF Typed, Orderly, OneApplier, StopDeletes
    <3>2. Known'
      BY <1>1, <1>7, <2>1, <3>0 DEF Typed, Orderly, Known, Steady, Place, Busy, StopDeletes,
                                    Delete
    <3>3. Steady'
      BY <1>1, <1>7, <2>1, <3>0 DEF Typed, Orderly, Known, Steady, Place, Busy, StopDeletes,
                                    Delete
    <3>4. ASSUME NEW b \in Appliers PROVE Place(b)'
      BY <1>1, <1>7, <2>1, <3>0 DEF Typed, Orderly, Known, Steady, Place, Busy, StopDeletes,
                                    Delete
    <3>5. HandleUsedOnce'
      BY <1>1, <1>7, <2>1, <2>2, <3>0 DEF Typed, Orderly, Known, Steady, Place, Busy,
                                          StopDeletes, Delete, HandleUsedOnce
    <3> QED BY <3>1, <3>2, <3>3, <3>4, <3>5 DEF Orderly
  <2> QED BY <2>1, <2>2
<1>8. CASE StopForgets(a)
  <2>1. Typed'
    BY <1>1, <1>8 DEF Typed, StopForgets
  <2>2. ~raced' => Orderly'
    BY <1>1, <1>3, <1>8, <2>1 DEF Typed, Orderly, OneApplier, Known, Steady, Place, Busy,
                                  HandleUsedOnce, StopForgets
  <2> QED BY <2>1, <2>2
<1>9. CASE StopTells(a)
  <2>1. Typed'
    BY <1>1, <1>9 DEF Typed, StopTells
  <2>2. ~raced' => Orderly'
    BY <1>1, <1>3, <1>9, <2>1 DEF Typed, Orderly, OneApplier, Known, Steady, Place, Busy,
                                  HandleUsedOnce, StopTells, TellServer
  <2> QED BY <2>1, <2>2
<1> QED BY <1>4, <1>5, <1>6, <1>7, <1>8, <1>9 DEF StopStep

\* A sending thread leaves pointer and handle alone.
LEMMA SenderKeeps ==
  ASSUME Inv, NEW t \in Senders, SenderStep(t) PROVE Inv'
<1> USE ClientAssumption
      DEF App, Send, Alive, Appliers, queues, server, task, thread
<1>1. Typed
  BY DEF Inv
<1>2. SUFFICES Typed' /\ (~raced' => Orderly')
  BY DEF Inv
<1>3. ~raced => Orderly
  BY DEF Inv
<1>4. CASE SenderBegins(t)
  <2>1. Typed'
    BY <1>1, <1>4 DEF Typed, SenderBegins
  <2>2. ~raced' => Orderly'
    BY <1>1, <1>3, <1>4, <2>1 DEF Typed, Orderly, OneApplier, Known, Steady, Place, Busy,
                                  HandleUsedOnce, SenderBegins
  <2> QED BY <2>1, <2>2
<1>5. CASE SenderReads(t)
  <2>1. Typed'
    BY <1>1, <1>5 DEF Typed, SenderReads
  <2>2. ~raced' => Orderly'
    BY <1>1, <1>3, <1>5, <2>1 DEF Typed, Orderly, OneApplier, Known, Steady, Place, Busy,
                                  HandleUsedOnce, SenderReads
  <2> QED BY <2>1, <2>2
<1>6. CASE SenderEnds(t)
  <2>1. Typed'
    BY <1>1, <1>6 DEF Typed, SenderEnds
  <2>2. ~raced' => Orderly'
    BY <1>1, <1>3, <1>6, <2>1 DEF Typed, Orderly, OneApplier, Known, Steady, Place, Busy,
                                  HandleUsedOnce, SenderEnds
  <2> QED BY <2>1, <2>2
<1>7. CASE SenderSends(t)
  <2>1. Typed'
    BY <1>1, <1>7 DEF Typed, SenderSends
  <2>2. ~raced' => Orderly'
    BY <1>1, <1>3, <1>7, <2>1 DEF Typed, Orderly, OneApplier, Known, Steady, Place, Busy,
                                  HandleUsedOnce, SenderSends
  <2> QED BY <2>1, <2>2
<1>8. CASE SenderRetries(t)
  <2>1. Typed'
    BY <1>1, <1>8 DEF Typed, SenderRetries
  <2>2. ~raced' => Orderly'
    BY <1>1, <1>3, <1>8, <2>1 DEF Typed, Orderly, OneApplier, Known, Steady, Place, Busy,
                                  HandleUsedOnce, SenderRetries
  <2> QED BY <2>1, <2>2
<1>9. CASE SenderReports(t)
  <2>1. Typed'
    BY <1>1, <1>9 DEF Typed, SenderReports
  <2>2. ~raced' => Orderly'
    BY <1>1, <1>3, <1>9, <2>1 DEF Typed, Orderly, OneApplier, Known, Steady, Place, Busy,
                                  HandleUsedOnce, SenderReports, TellServer
  <2> QED BY <2>1, <2>2
<1>10. CASE SenderGivesUp(t)
  <2>1. Typed'
    BY <1>1, <1>10 DEF Typed, SenderGivesUp
  <2>2. ~raced' => Orderly'
    BY <1>1, <1>3, <1>10, <2>1 DEF Typed, Orderly, OneApplier, Known, Steady, Place, Busy,
                                   HandleUsedOnce, SenderGivesUp
  <2> QED BY <2>1, <2>2
<1> QED BY <1>4, <1>5, <1>6, <1>7, <1>8, <1>9, <1>10 DEF SenderStep

LEMMA InvStep == Inv /\ [Next]_vars => Inv'
<1>1. ASSUME Inv, Next PROVE Inv'
  <2>1. CASE (\E on \in BOOLEAN : ServerAsks(on)) \/ ServerTakes \/ ServerReceives \/ ServerDies
    BY <1>1, <2>1 DEF ServerAsks, ServerTakes, ServerReceives, ServerDies, task, thread,
                      queues,
      server, Inv, Typed, Orderly, OneApplier, Known, Steady, Place, HandleUsedOnce, Alive
  <2>2. CASE EventStep \/ DaemonWakes BY <1>1, <2>2, EventKeeps
  <2>3. CASE \E a \in Appliers : StopStep(a) BY <1>1, <2>3, StopKeeps
  <2>4. CASE \E t \in Senders : SenderStep(t) BY <1>1, <2>4, SenderKeeps
  <2> QED BY <1>1, <2>1, <2>2, <2>3, <2>4 DEF Next
<1>2. ASSUME Inv, UNCHANGED vars PROVE Inv'
  BY <1>2 DEF vars, task, thread, queues, server, Inv, Typed, Orderly, OneApplier, Known,
              Steady, Place, HandleUsedOnce, Alive
<1> QED BY <1>1, <1>2

\* cli_callback and the thread it starts, as long as event thread and daemon do
\* not run cli_callback at once: one thread pushes frames, and its std::thread
\* object is neither joined nor deleted twice, however late the thread raises its
\* flag, whenever it ends by itself and however many requests come.  That one of
\* them deletes a joinable object is the end of the program (AlreadySending).
THEOREM OneThreadOneHandleHolds == Spec => []OneThreadOneHandle
<1>1. Inv => OneThreadOneHandle
  BY DEF Inv, Orderly, Known, Busy, OneThreadOneHandle, OneSender, Active,
         HandleUsedOnce
<1> QED BY <1>1, InvInit, InvStep, PTL DEF Spec
===============================================================================
