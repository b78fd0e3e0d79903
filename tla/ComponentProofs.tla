------------------------------ MODULE ComponentProofs ------------------------------
(* What holds of the components that share nothing with each other, for every *)
(* value of their constants.  A component runs alone once the initial state   *)
(* has chosen it; so each section proves a component's own steps, and its     *)
(* theorem says it of Components.  The variables are those of Components: what *)
(* each stands for in a component is in the component's INSTANCE there.       *)
EXTENDS Components, SequenceTheorems, WellFoundedInduction, TLAPS

\* The other components take no step.
LEMMA Alone ==
  ASSUME [Next]_vars
  PROVE  /\ which' = which
         /\ Is("gps") => [Gps!Next]_Gps!vars
         /\ Is("params") => [Params!Next]_Params!vars
         /\ Is("process") => [Process!Next]_Process!vars
         /\ Is("frame") => [Frame!Next]_Frame!vars
         /\ Is("cast") => [Cast!Next]_Cast!vars
         /\ Is("socket") => [Socket!Next]_Socket!vars
         /\ Is("tcp") => [Tcp!Next]_Tcp!vars
         /\ Is("ftp") => [Ftp!Next]_Ftp!vars
PROOF
<1>1. CASE Next BY <1>1 DEF Next, Is
<1>2. CASE UNCHANGED vars
  BY <1>2 DEF vars, Gps!vars, Params!vars, Process!vars, Process!objects, Frame!vars,
              Cast!vars, Socket!vars, Tcp!vars, Ftp!vars
<1> QED BY <1>1, <1>2

LEMMA Chosen ==
  ASSUME Init
  PROVE  /\ Is("gps") => Gps!Init
         /\ Is("params") => Params!Init
         /\ Is("process") => Process!Init
         /\ Is("frame") => Frame!Init
         /\ Is("cast") => Cast!Init
         /\ Is("socket") => Socket!Init
         /\ Is("tcp") => Tcp!Init
         /\ Is("ftp") => Ftp!Init
PROOF BY DEF Init, Is

-----------------------------------------------------------------------------------
(* FrameLayout *)

\* The conversion to unsigned makes a negative length longer than any slot.
LEMMA WrittenFits ==
  ASSUME NEW l \in Frame!Lengths
  PROVE  /\ Frame!Written(l) \in 0..Room
         /\ Frame!Written(l) = IF l >= 0 /\ l <= Room THEN l ELSE Room
PROOF
<1>0. Modulus \in Nat /\ Room \in Nat /\ 2 * Room < Modulus
  BY ComponentsAssumption DEF Frame!LayoutAssumption
<1>1. l \in Int /\ -Modulus <= 2 * l
  BY <1>0 DEF Frame!Lengths
<1>2. CASE l < 0
  <2>1. Frame!Unsigned(l) = l + Modulus
    BY <1>2 DEF Frame!Unsigned
  <2>2. 2 * (l + Modulus) >= Modulus
    BY <1>0, <1>1
  <2>3. l + Modulus > Room
    BY <1>0, <1>1, <2>2
  <2> QED BY <1>0, <1>1, <1>2, <2>1, <2>3 DEF Frame!Written
<1>3. CASE l >= 0
  BY <1>0, <1>1, <1>3 DEF Frame!Written, Frame!Unsigned
<1> QED BY <1>1, <1>2, <1>3

LEMMA WholeInit == Frame!Init => Frame!WholeOrCut
PROOF
<1>1. Room \in Nat BY ComponentsAssumption DEF Frame!LayoutAssumption
<1> QED BY <1>1 DEF Frame!Init, Frame!WholeOrCut

LEMMA WholeStep ==
  ASSUME Frame!WholeOrCut, [Frame!Next]_Frame!vars PROVE Frame!WholeOrCut'
PROOF
<1>1. ASSUME NEW l \in Frame!Lengths, Frame!Send(l) PROVE Frame!WholeOrCut'
  <2> DEFINE len == v1
             dataLen == v2
             slot == v4
             this == IF slot = [i \in 1..Room |-> 0] THEN 1 ELSE 3 - slot[1]
  <2>1. len' = l /\ dataLen' = Frame!Written(l)
    BY <1>1 DEF Frame!Send
  <2>2. slot' = [i \in 1..Room |-> IF i <= Frame!Written(l) THEN this ELSE slot[i]]
    BY <1>1 DEF Frame!Send
  <2>3. /\ Frame!Written(l) \in 0..Room
        /\ Frame!Written(l) = IF l >= 0 /\ l <= Room THEN l ELSE Room
    BY WrittenFits
  <2>4. PICK one : one = this OBVIOUS
  <2>5. \A i \in 1..Frame!Written(l) : slot'[i] = one
    <3>1. Room \in Nat BY ComponentsAssumption DEF Frame!LayoutAssumption
    <3> HIDE DEF this
    <3>2. \A i \in 1..Frame!Written(l) : i \in 1..Room /\ i <= Frame!Written(l)
      BY <2>3, <3>1
    <3> QED BY <2>2, <2>4, <3>2
  <2> QED BY <2>1, <2>3, <2>5 DEF Frame!WholeOrCut
<1>2. CASE Frame!Recv
  BY <1>2 DEF Frame!Recv, Frame!WholeOrCut
<1>3. CASE UNCHANGED Frame!vars
  BY <1>3 DEF Frame!vars, Frame!WholeOrCut
<1> QED BY <1>1, <1>2, <1>3 DEF Frame!Next

\* A frame arrives whole or cut at the slot's end, whatever length send was given: the
\* length recv tells its callback never leaves the slot.
THEOREM WholeOrCutHolds == Spec => []WholeOrCut
PROOF
<1>1. Init => WholeOrCut BY Chosen, WholeInit DEF WholeOrCut
<1>2. WholeOrCut /\ [Next]_vars => WholeOrCut' BY Alone, WholeStep DEF WholeOrCut, Is
<1> QED BY <1>1, <1>2, PTL DEF Spec

-----------------------------------------------------------------------------------
(* GpsUpload *)

LEMMA OrderedInit == Gps!Init => Gps!Ordered
PROOF BY DEF Gps!Init, Gps!Ordered, Gps!Counts, Gps!InOrder

LEMMA OrderedMeans == Gps!Ordered => Gps!MixedOneWay
PROOF BY DEF Gps!Ordered, Gps!Counts, Gps!InOrder, Gps!MixedOneWay

LEMMA OrderedStep == Gps!Ordered /\ [Gps!Next]_Gps!vars => Gps!Ordered'
PROOF
<1> SUFFICES ASSUME Gps!Ordered, [Gps!Next]_Gps!vars PROVE Gps!Ordered'
  OBVIOUS
<1> USE DEF Gps!Ordered, Gps!Counts, Gps!InOrder
<1>1. CASE Gps!Moves
  BY <1>1 DEF Gps!Moves
<1>2. CASE Gps!Answers
  BY <1>2 DEF Gps!Answers
<1>3. CASE Gps!AnswerUnused
  BY <1>3 DEF Gps!AnswerUnused
<1>4. CASE Gps!StoreLongitude
  BY <1>4 DEF Gps!StoreLongitude
<1>5. CASE Gps!StoreLatitude
  BY <1>5 DEF Gps!StoreLatitude
<1>6. CASE Gps!StartUpload
  BY <1>6 DEF Gps!StartUpload
<1>7. CASE Gps!Ask
  BY <1>7 DEF Gps!Ask
<1>8. CASE Gps!ReadLatitude
  BY <1>8 DEF Gps!ReadLatitude
<1>9. CASE Gps!Upload
  <2> DEFINE lng == v5
             readLat == v9
             sent == v10
  <2>1. sent' = [lat |-> readLat, lng |-> lng] BY <1>9 DEF Gps!Upload
  <2>2. sent' \in [lat : Nat, lng : Nat] /\ sent'.lat = readLat /\ sent'.lng = lng
    BY <2>1
  <2> QED BY <1>9, <2>2 DEF Gps!Upload
<1>10. CASE Gps!UploadFails
  BY <1>10 DEF Gps!UploadFails
<1>11. CASE UNCHANGED Gps!vars
  BY <1>11 DEF Gps!vars
<1> QED
  BY <1>1, <1>2, <1>3, <1>4, <1>5, <1>6, <1>7, <1>8, <1>9, <1>10, <1>11
     DEF Gps!Next, Gps!GpsStep

\* UploadGpsThread reads the latitude first and GetDevInfo stores the longitude
\* first: an upload never pairs a latitude with the longitude of an older answer.
THEOREM MixedOneWayHolds == Spec => []MixedOneWay
PROOF
<1> DEFINE Inv == Is("gps") => Gps!Ordered
<1>1. Init => Inv BY Chosen, OrderedInit
<1>2. Inv /\ [Next]_vars => Inv' BY Alone, OrderedStep DEF Is
<1>3. Inv => MixedOneWay BY OrderedMeans DEF MixedOneWay
<1> QED BY <1>1, <1>2, <1>3, PTL DEF Spec

-----------------------------------------------------------------------------------
(* BroadCast *)

LEMMA AgreedInit == Cast!Init => Cast!Agreed
PROOF
<1> DEFINE m_fdBlock == v2
           nonblock == v3
           pc == v4
<1> SUFFICES ASSUME Cast!Init PROVE Cast!Agreed
  OBVIOUS
<1>1. m_fdBlock = TRUE /\ nonblock = FALSE /\ \A t \in Cast!Threads : pc[t] = "out"
  BY DEF Cast!Init
<1>2. Cast!Bits /\ Cast!ChangesBit /\ Cast!BitChanged /\ Cast!FlagTruth
  BY <1>1, Zenon DEF Cast!Bits, Cast!ChangesBit, Cast!BitChanged, Cast!FlagTruth
<1>3. Cast!Places
  BY DEF Cast!Init, Cast!Places
<1>4. Cast!WaitedFor /\ Cast!WaitDelivers /\ Cast!NeverBlocks
  BY DEF Cast!Init, Cast!WaitedFor, Cast!WaitDelivers, Cast!NeverBlocks, Cast!Threads
<1>5. Cast!Came /\ Cast!SendAwaitsDatagram
  BY DEF Cast!Init, Cast!Came, Cast!SendAwaitsDatagram, Cast!Threads
<1> QED BY <1>2, <1>3, <1>4, <1>5 DEF Cast!Agreed

LEMMA AgreedMeans == Cast!Agreed => Cast!SharedSocket
PROOF
<1> DEFINE mode == v1
           pc == v4
           opens == v7
<1> SUFFICES ASSUME Cast!Agreed, NEW u \in Cast!Threads, pc[u] = "blocked", ~(opens > 1)
             PROVE  \E t \in Cast!Threads : mode[t] = "block"
  BY DEF Cast!Agreed, Cast!SharedSocket, Cast!BlocksOnRequest
<1>1. opens = 1 BY DEF Cast!Agreed, Cast!Places
<1> QED BY <1>1 DEF Cast!Agreed, Cast!NeverBlocks, Cast!Blocking

\* A step that leaves the bit and the flag alone.
LEMMA BitsKept ==
  ASSUME Cast!Agreed, NEW t \in Cast!Threads, UNCHANGED <<v1, v2, v3, v7>>,
         NEW place, Cast!Goto(t, place),
         place \in {"out", "test", "select", "io", "blocked"}
           \/ (place = "set" /\ ~Cast!Agrees(t))
  PROVE  Cast!ChangesBit' /\ Cast!BitChanged' /\ (v4[t] # "mark" => Cast!FlagTruth')
PROOF
<1> DEFINE pc == v4
<1>1. \A u \in Cast!Threads : pc'[u] = IF u = t THEN place ELSE pc[u]
  BY DEF Cast!Goto, Cast!Agreed, Cast!Places
<1>2. \A u \in Cast!Threads : /\ pc'[u] = "mark" => pc[u] = "mark"
                              /\ pc'[u] = "set" => pc[u] = "set" \/ ~Cast!Agrees(u)
  BY <1>1
<1>3. \A u \in Cast!Threads : /\ Cast!Agrees(u)' <=> Cast!Agrees(u)
                              /\ Cast!Blocking(u)' <=> Cast!Blocking(u)
  BY DEF Cast!Agrees, Cast!Blocking
<1>4. Cast!Alike' <=> Cast!Alike BY DEF Cast!Alike, Cast!Blocking
<1>5. Cast!ChangesBit' BY <1>2, <1>3, <1>4 DEF Cast!ChangesBit, Cast!Agreed
<1>6. Cast!BitChanged' BY <1>2, <1>3 DEF Cast!BitChanged, Cast!Agreed
<1>7. pc[t] # "mark" => Cast!FlagTruth' BY <1>1 DEF Cast!FlagTruth, Cast!Agreed
<1> QED BY <1>5, <1>6, <1>7

\* With the flag true to the bit between changes, and the bit set before the mark,
\* who finds the flag as wanted, or marks it, finds the bit as wanted.
LEMMA BitAsWanted ==
  ASSUME Cast!Agreed, v7 = 1, \A u \in Cast!Threads : ~Cast!Blocking(u),
         NEW t \in Cast!Threads,
         (v4[t] = "test" /\ Cast!Agrees(t)) \/ v4[t] = "mark"
  PROVE  v3
PROOF
<1> DEFINE pc == v4
<1>1. CASE \E u \in Cast!Threads : pc[u] = "mark"
  BY <1>1 DEF Cast!Agreed, Cast!BitChanged
<1>2. CASE \A u \in Cast!Threads : pc[u] # "mark"
  BY <1>2 DEF Cast!Agreed, Cast!FlagTruth, Cast!Agrees, Cast!Blocking
<1> QED BY <1>1, <1>2

LEMMA PrepareKeeps ==
  ASSUME Cast!Agreed, NEW t \in Cast!Threads, Cast!Prepare(t) PROVE Cast!Agreed'
PROOF
<1> DEFINE mode == v1
           m_fdBlock == v2
           nonblock == v3
           pc == v4
           data == v5
           came == v9
           result == v6
           opens == v7
<1> USE DEF Cast!Agreed
<1>1. CASE Cast!Test(t)
  <2> DEFINE place == IF ~Cast!Agrees(t) THEN "set"
                      ELSE IF mode[t] = "wait" THEN "select" ELSE "io"
  <2>1. /\ Cast!Goto(t, place) /\ pc[t] = "test"
        /\ UNCHANGED <<mode, m_fdBlock, nonblock, data, came, result, opens>>
    BY <1>1 DEF Cast!Test
  <2>2. place \in {"select", "io"} \/ (place = "set" /\ ~Cast!Agrees(t))
    OBVIOUS
  <2>3. place = "io" => mode[t] # "wait" OBVIOUS
  <2>4. place \in {"select", "io"} => Cast!Agrees(t) OBVIOUS
  <2> HIDE DEF place
  <2>5. Cast!ChangesBit' /\ Cast!BitChanged' /\ Cast!FlagTruth'
    BY <2>1, <2>2, BitsKept
  <2>6. \A u \in Cast!Threads : pc'[u] = IF u = t THEN place ELSE pc[u]
    BY <2>1 DEF Cast!Goto, Cast!Places
  <2>7. Cast!Bits' /\ Cast!Places' BY <2>1, <2>2 DEF Cast!Bits, Cast!Places, Cast!Goto
  <2>8. Cast!WaitedFor' /\ Cast!WaitDelivers'
    BY <2>1, <2>2, <2>3, <2>6 DEF Cast!WaitedFor, Cast!WaitDelivers, Cast!Threads
  <2>9. Cast!NeverBlocks'
    BY <2>1, <2>2, <2>4, <2>6, BitAsWanted DEF Cast!NeverBlocks, Cast!Blocking
  <2>10. Cast!Came' /\ Cast!SendAwaitsDatagram'
    BY <2>1, <2>2, <2>3, <2>6 DEF Cast!Came, Cast!SendAwaitsDatagram, Cast!Threads
  <2> QED BY <2>5, <2>7, <2>8, <2>9, <2>10
<1>2. CASE Cast!SetFlag(t)
  <2>1. /\ pc[t] = "set" /\ Cast!Goto(t, "mark")
        /\ UNCHANGED <<mode, m_fdBlock, data, came, result, opens>>
    BY <1>2 DEF Cast!SetFlag
  <2>2. nonblock' <=> ~Cast!Blocking(t) BY <1>2 DEF Cast!SetFlag, Cast!Blocking
  <2>3. \A u \in Cast!Threads : pc'[u] = IF u = t THEN "mark" ELSE pc[u]
    BY <2>1 DEF Cast!Goto, Cast!Places
  <2>4. \A u \in Cast!Threads : /\ Cast!Agrees(u)' <=> Cast!Agrees(u)
                                /\ Cast!Blocking(u)' <=> Cast!Blocking(u)
    BY <2>1 DEF Cast!Agrees, Cast!Blocking
  <2>5. Cast!Alike' <=> Cast!Alike BY <2>1 DEF Cast!Alike, Cast!Blocking
  <2>6. Cast!ChangesBit' BY <2>1, <2>3, <2>4, <2>5 DEF Cast!ChangesBit
  <2>7. ASSUME NEW u \in Cast!Threads, pc[u] = "mark"
        PROVE  Cast!Blocking(u) <=> Cast!Blocking(t)
    <3>1. u # t BY <2>1, <2>7
    <3>2. Cast!Alike \/ (~Cast!Agrees(u) /\ ~Cast!Agrees(t))
      BY <2>1, <2>7 DEF Cast!ChangesBit
    <3> QED BY <3>1, <3>2 DEF Cast!Alike, Cast!Agrees, Cast!Blocking, Cast!Threads
  <2>8. Cast!BitChanged' BY <2>2, <2>3, <2>4, <2>7 DEF Cast!BitChanged
  <2>9. Cast!FlagTruth' BY <2>3 DEF Cast!FlagTruth
  <2>10. Cast!Bits' BY <1>2, <2>1 DEF Cast!Bits, Cast!SetFlag
  <2>11. Cast!Places' BY <2>1 DEF Cast!Places, Cast!Goto
  <2>12. Cast!WaitedFor' /\ Cast!WaitDelivers'
    BY <2>1, <2>3 DEF Cast!WaitedFor, Cast!WaitDelivers, Cast!Threads
  <2>13. Cast!NeverBlocks' BY <2>1, <2>2, <2>3, <2>4 DEF Cast!NeverBlocks
  <2>14. Cast!Came' /\ Cast!SendAwaitsDatagram'
    BY <2>1, <2>3 DEF Cast!Came, Cast!SendAwaitsDatagram, Cast!Threads
  <2> QED BY <2>6, <2>8, <2>9, <2>10, <2>11, <2>12, <2>13, <2>14
<1>3. CASE Cast!Mark(t)
  <2> DEFINE place == IF mode[t] = "wait" THEN "select" ELSE "io"
  <2>1. /\ pc[t] = "mark" /\ Cast!Goto(t, place)
        /\ UNCHANGED <<mode, nonblock, data, came, result, opens>>
    BY <1>3 DEF Cast!Mark
  <2>2. m_fdBlock' <=> Cast!Blocking(t) BY <1>3 DEF Cast!Mark, Cast!Blocking
  <2>3. place \in {"select", "io"} /\ (place = "io" => mode[t] # "wait")
    OBVIOUS
  <2> HIDE DEF place
  <2>4. \A u \in Cast!Threads : pc'[u] = IF u = t THEN place ELSE pc[u]
    BY <2>1 DEF Cast!Goto, Cast!Places
  <2>5. \A u \in Cast!Threads : Cast!Blocking(u)' <=> Cast!Blocking(u)
    BY <2>1 DEF Cast!Blocking
  <2>6. Cast!Alike' <=> Cast!Alike BY <2>1 DEF Cast!Alike, Cast!Blocking
  <2>7. ASSUME NEW u \in Cast!Threads, pc'[u] \in {"set", "mark"} PROVE Cast!Alike
    <3>1. u # t /\ pc[u] \in {"set", "mark"} BY <2>3, <2>4, <2>7
    <3>2. Cast!Alike \/ (~Cast!Agrees(u) /\ ~Cast!Agrees(t))
      BY <2>1, <3>1 DEF Cast!ChangesBit
    <3> QED BY <3>1, <3>2 DEF Cast!Alike, Cast!Agrees, Cast!Blocking, Cast!Threads
  <2>8. Cast!ChangesBit' BY <2>6, <2>7 DEF Cast!ChangesBit
  <2>9. Cast!BitChanged' BY <2>1, <2>3, <2>4, <2>5 DEF Cast!BitChanged
  <2>10. Cast!FlagTruth' BY <2>1, <2>2 DEF Cast!FlagTruth, Cast!BitChanged
  <2>11. Cast!Bits' BY <1>3, <2>1 DEF Cast!Bits, Cast!Mark
  <2>12. Cast!Places' BY <2>1, <2>3 DEF Cast!Places, Cast!Goto
  <2>13. Cast!WaitedFor' /\ Cast!WaitDelivers'
    BY <2>1, <2>3, <2>4 DEF Cast!WaitedFor, Cast!WaitDelivers, Cast!Threads
  <2>14. Cast!NeverBlocks'
    BY <2>1, <2>3, <2>4, <2>5, BitAsWanted DEF Cast!NeverBlocks
  <2>15. Cast!Came' /\ Cast!SendAwaitsDatagram'
    BY <2>1, <2>3, <2>4 DEF Cast!Came, Cast!SendAwaitsDatagram, Cast!Threads
  <2> QED BY <2>8, <2>9, <2>10, <2>11, <2>12, <2>13, <2>14, <2>15
<1>4. CASE Cast!Select(t)
  <2>1. PICK place \in {"io", "out"} : Cast!Goto(t, place)
    BY <1>4 DEF Cast!Select, Cast!Return
  <2>2. pc[t] = "select" /\ UNCHANGED <<mode, m_fdBlock, nonblock, data, came, opens>>
    BY <1>4 DEF Cast!Select
  <2>3. \A u \in Cast!Threads : pc'[u] = IF u = t THEN place ELSE pc[u]
    BY <2>1 DEF Cast!Goto, Cast!Places
  <2>4. place = "io" => data > 0
    BY <1>4, <2>2, <2>3 DEF Cast!Select, Cast!Return, Cast!Goto, Cast!Places
  <2>5. /\ DOMAIN result' = Cast!Threads
        /\ (result' = result \/ result' = [result EXCEPT ![t] = "timeout"])
    BY <1>4 DEF Cast!Select, Cast!Return, Cast!Places
  <2>6. Cast!ChangesBit' /\ Cast!BitChanged' /\ Cast!FlagTruth'
    BY <2>1, <2>2, BitsKept
  <2>7. Cast!Bits' /\ Cast!Places' BY <2>1, <2>2, <2>5 DEF Cast!Bits, Cast!Places, Cast!Goto
  <2>8. Cast!WaitedFor' BY <2>2, <2>3, <2>4 DEF Cast!WaitedFor, Cast!Threads
  <2>9. Cast!WaitDelivers' BY <2>2, <2>5 DEF Cast!WaitDelivers, Cast!Places, Cast!Threads
  <2>10. Cast!NeverBlocks' BY <2>2, <2>3 DEF Cast!NeverBlocks, Cast!Blocking
  <2>11. Cast!Came' /\ Cast!SendAwaitsDatagram'
    BY <2>2, <2>3, <2>4, <2>5
       DEF Cast!Came, Cast!SendAwaitsDatagram, Cast!Places, Cast!Threads
  <2> QED BY <2>6, <2>7, <2>8, <2>9, <2>10, <2>11
<1> QED BY <1>1, <1>2, <1>3, <1>4 DEF Cast!Prepare

\* Entering a call, blocking in it and returning from it.
LEMMA PlainKeeps ==
  ASSUME Cast!Agreed, NEW t \in Cast!Threads, UNCHANGED <<v1, v2, v3, v7>>,
         v4[t] # "mark", NEW place \in {"out", "test", "blocked"}, Cast!Goto(t, place),
         place = "blocked" => v4[t] = "io" /\ ~v3,
         t = "sender" => v5' = v5, v5' \in Nat,
         DOMAIN v6' = Cast!Threads,
         Cast!WaitDelivers', Cast!Came', Cast!SendAwaitsDatagram'
  PROVE  Cast!Agreed'
PROOF
<1> DEFINE pc == v4
<1> USE DEF Cast!Agreed
<1>1. Cast!ChangesBit' /\ Cast!BitChanged' /\ Cast!FlagTruth'
  BY BitsKept
<1>2. \A u \in Cast!Threads : pc'[u] = IF u = t THEN place ELSE pc[u]
  BY DEF Cast!Goto, Cast!Places
<1>3. Cast!Bits' /\ Cast!Places' BY DEF Cast!Bits, Cast!Places, Cast!Goto
<1>4. Cast!WaitedFor' BY <1>2 DEF Cast!WaitedFor, Cast!Threads
<1>5. Cast!NeverBlocks' BY <1>2 DEF Cast!NeverBlocks, Cast!Blocking
<1> QED BY <1>1, <1>3, <1>4, <1>5

LEMMA AgreedStep == Cast!Agreed /\ [Cast!Next]_Cast!vars => Cast!Agreed'
PROOF
<1> DEFINE mode == v1
           m_fdBlock == v2
           nonblock == v3
           pc == v4
           data == v5
           came == v9
           result == v6
           opens == v7
<1> SUFFICES ASSUME Cast!Agreed, [Cast!Next]_Cast!vars PROVE Cast!Agreed'
  OBVIOUS
<1>0. /\ Cast!Places /\ Cast!WaitedFor /\ Cast!WaitDelivers
      /\ Cast!Came /\ Cast!SendAwaitsDatagram
  BY DEF Cast!Agreed
<1>1. ASSUME NEW t \in Cast!Threads, Cast!Call(t) PROVE Cast!Agreed'
  <2>1. Cast!Came' /\ Cast!SendAwaitsDatagram'
    BY <1>0, <1>1 DEF Cast!Call, Cast!Goto, Cast!Places, Cast!Came,
                      Cast!SendAwaitsDatagram, Cast!Threads
  <2> QED BY <1>0, <1>1, <2>1, PlainKeeps DEF Cast!Call, Cast!Places, Cast!WaitDelivers
<1>2. ASSUME NEW t \in Cast!Threads, Cast!Prepare(t) PROVE Cast!Agreed'
  BY <1>2, PrepareKeeps
<1>3. CASE Cast!RecvEnters
  <2>1. PICK place \in {"out", "blocked"} :
          /\ Cast!Goto("receiver", place) /\ pc["receiver"] = "io"
          /\ UNCHANGED <<mode, m_fdBlock, nonblock, opens>>
          /\ place = "blocked" => ~nonblock
    BY <1>3 DEF Cast!RecvEnters, Cast!Return
  <2>2. data' \in Nat /\ DOMAIN result' = Cast!Threads
    BY <1>0, <1>3 DEF Cast!RecvEnters, Cast!Return, Cast!Places
  <2>3. Cast!WaitDelivers'
    BY <1>0, <1>3 DEF Cast!RecvEnters, Cast!Return, Cast!Places, Cast!WaitDelivers,
                      Cast!WaitedFor, Cast!Threads
  <2>4. Cast!Came' /\ Cast!SendAwaitsDatagram'
    BY <1>0, <1>3 DEF Cast!RecvEnters, Cast!Return, Cast!Goto, Cast!Places, Cast!Came,
                      Cast!SendAwaitsDatagram, Cast!Threads
  <2> QED BY <2>1, <2>2, <2>3, <2>4, PlainKeeps DEF Cast!Threads
<1>4. CASE Cast!RecvWakes
  <2>1. data' \in Nat /\ DOMAIN result' = Cast!Threads
    BY <1>0, <1>4 DEF Cast!RecvWakes, Cast!Return, Cast!Places
  <2>2. Cast!WaitDelivers'
    BY <1>0, <1>4 DEF Cast!RecvWakes, Cast!Return, Cast!Places, Cast!WaitDelivers,
                      Cast!Threads
  <2>3. Cast!Came' /\ Cast!SendAwaitsDatagram'
    BY <1>0, <1>4 DEF Cast!RecvWakes, Cast!Return, Cast!Goto, Cast!Places, Cast!Came,
                      Cast!SendAwaitsDatagram, Cast!Threads
  <2> QED BY <1>4, <2>1, <2>2, <2>3, PlainKeeps DEF Cast!RecvWakes, Cast!Return, Cast!Threads
<1>5. CASE Cast!SendEnters
  <2>1. PICK place \in {"out", "blocked"} :
          /\ Cast!Goto("sender", place) /\ pc["sender"] = "io"
          /\ UNCHANGED <<mode, m_fdBlock, nonblock, data, opens>>
          /\ place = "blocked" => ~nonblock
    BY <1>5 DEF Cast!SendEnters, Cast!Return
  <2>2. data' \in Nat /\ DOMAIN result' = Cast!Threads
    BY <1>0, <1>5 DEF Cast!SendEnters, Cast!Return, Cast!Places
  <2>3. Cast!WaitDelivers'
    BY <1>0, <1>5 DEF Cast!SendEnters, Cast!Return, Cast!Places, Cast!WaitDelivers,
                      Cast!Threads
  <2>4. Cast!Came' /\ Cast!SendAwaitsDatagram'
    BY <1>0, <1>5 DEF Cast!SendEnters, Cast!Return, Cast!Goto, Cast!Places, Cast!Came,
                      Cast!SendAwaitsDatagram, Cast!Threads
  <2> QED BY <2>1, <2>2, <2>3, <2>4, PlainKeeps DEF Cast!Threads
<1>6. CASE Cast!SendWakes
  <2>1. data' \in Nat /\ DOMAIN result' = Cast!Threads
    BY <1>0, <1>6 DEF Cast!SendWakes, Cast!Return, Cast!Places
  <2>2. Cast!WaitDelivers'
    BY <1>0, <1>6 DEF Cast!SendWakes, Cast!Return, Cast!Places, Cast!WaitDelivers,
                      Cast!Threads
  <2>3. Cast!Came' /\ Cast!SendAwaitsDatagram'
    BY <1>0, <1>6 DEF Cast!SendWakes, Cast!Return, Cast!Goto, Cast!Places, Cast!Came,
                      Cast!SendAwaitsDatagram, Cast!Threads
  <2> QED BY <1>6, <2>1, <2>2, <2>3, PlainKeeps DEF Cast!SendWakes, Cast!Return, Cast!Threads
<1>7. CASE Cast!DatagramComes
  BY <1>7 DEF Cast!DatagramComes, Cast!Agreed, Cast!Bits, Cast!Places, Cast!ChangesBit,
              Cast!BitChanged, Cast!FlagTruth,
              Cast!WaitedFor, Cast!WaitDelivers, Cast!NeverBlocks, Cast!Came,
              Cast!SendAwaitsDatagram, Cast!Agrees,
              Cast!Alike, Cast!Blocking
<1>b. CASE Cast!BufferDrains
  BY <1>b DEF Cast!BufferDrains, Cast!Agreed, Cast!Bits, Cast!Places, Cast!ChangesBit,
              Cast!BitChanged, Cast!FlagTruth,
              Cast!WaitedFor, Cast!WaitDelivers, Cast!NeverBlocks, Cast!Came,
              Cast!SendAwaitsDatagram, Cast!Agrees,
              Cast!Alike, Cast!Blocking
<1>8. CASE Cast!Reopen
  <2>1. opens' > 1 /\ opens' \in Nat \ {0} /\ \A t \in Cast!Threads : pc[t] = "out"
    BY <1>0, <1>8 DEF Cast!Reopen, Cast!Places
  <2>2. /\ UNCHANGED <<mode, m_fdBlock, pc>> /\ nonblock' = FALSE /\ data' = 0
        /\ result' = [t \in Cast!Threads |-> "none"]
    BY <1>8 DEF Cast!Reopen
  <2>3. Cast!ChangesBit' /\ Cast!BitChanged' /\ Cast!FlagTruth' /\ Cast!NeverBlocks'
    BY <2>1, <2>2 DEF Cast!ChangesBit, Cast!BitChanged, Cast!FlagTruth, Cast!NeverBlocks
  <2>4. Cast!Bits' /\ Cast!Places'
    BY <1>0, <2>1, <2>2 DEF Cast!Agreed, Cast!Bits, Cast!Places
  <2>5. Cast!WaitedFor' /\ Cast!WaitDelivers'
    BY <1>0, <2>1, <2>2 DEF Cast!WaitedFor, Cast!WaitDelivers, Cast!Threads
  <2>6. Cast!Came' /\ Cast!SendAwaitsDatagram'
    BY <2>1, <2>2 DEF Cast!Came, Cast!SendAwaitsDatagram, Cast!Threads
  <2> QED BY <2>3, <2>4, <2>5, <2>6 DEF Cast!Agreed
<1>9. CASE UNCHANGED Cast!vars
  BY <1>9 DEF Cast!vars, Cast!Agreed, Cast!Bits, Cast!Places, Cast!ChangesBit,
              Cast!BitChanged, Cast!FlagTruth,
              Cast!WaitedFor, Cast!WaitDelivers, Cast!NeverBlocks, Cast!Came,
              Cast!SendAwaitsDatagram, Cast!Agrees,
              Cast!Alike, Cast!Blocking
<1> QED
  BY <1>1, <1>2, <1>3, <1>4, <1>5, <1>6, <1>7, <1>b, <1>8, <1>9 DEF Cast!Next, Cast!Recv,
     Cast!Send, Cast!Threads

\* However recv and send of two threads that keep their timeSec interleave on the first
\* descriptor: flag and bit agree, a recv that waits gets a datagram or times out, and
\* a call blocks only if one of the two asked for it.  A send that waits sends nothing
\* before a datagram has come.
THEOREM SharedSocketHolds == Spec => []SharedSocket
PROOF
<1> DEFINE Inv == Is("cast") => Cast!Agreed
<1>1. Init => Inv BY Chosen, AgreedInit
<1>2. Inv /\ [Next]_vars => Inv' BY Alone, AgreedStep DEF Is
<1>3. Inv => SharedSocket BY AgreedMeans DEF SharedSocket
<1> QED BY <1>1, <1>2, <1>3, PTL DEF Spec

-----------------------------------------------------------------------------------
(* FtpSession *)

LEMMA Concatenated ==
  ASSUME NEW s \in Seq(Nat), NEW m \in Seq(Nat)
  PROVE  /\ s \o m \in Seq(Nat) /\ Len(s \o m) = Len(s) + Len(m)
         /\ Len(s) \in Nat
         /\ \A i \in 1..Len(s) : (s \o m)[i] = s[i]
         /\ \A i \in Len(s) + 1..Len(s) + Len(m) :
              (s \o m)[i] = m[i - Len(s)] /\ i - Len(s) \in 1..Len(m)
PROOF OBVIOUS

LEMMA LaggingInit == ASSUME Ftp!FtpAssumption, Ftp!Init PROVE Ftp!Lagging
PROOF
<1> DEFINE commands == v1
<1>1. Len(Ftp!Login) = 3 /\ Len(Ftp!Login \o Ftp!Upload) = 5
  BY DEF Ftp!Login, Ftp!Upload
<1>2. commands \in {Ftp!Login, Ftp!Login \o Ftp!Upload} /\ 1 \in 1..Len(commands)
  BY <1>1 DEF Ftp!Init
<1>3. <<>> \in Seq(Nat) OBVIOUS
<1>4. Ftp!Shape
  BY <1>2, <1>3 DEF Ftp!Init, Ftp!Shape, Ftp!FtpAssumption
<1>5. Ftp!Read = 0 BY DEF Ftp!Init, Ftp!Read, Ftp!FtpAssumption
<1>6. Ftp!Late /\ Ftp!SaidLate
  BY <1>5 DEF Ftp!Init, Ftp!Late, Ftp!SaidLate, Ftp!FtpAssumption
<1>7. Ftp!NewestLate /\ Ftp!Heard
  BY DEF Ftp!Init, Ftp!NewestLate, Ftp!Heard
<1> QED BY <1>4, <1>6, <1>7 DEF Ftp!Lagging

LEMMA LaggingMeans ==
  ASSUME Ftp!FtpAssumption, Ftp!Lagging PROVE Ftp!RepliesBehind
PROOF
<1> DEFINE pc == v2
           cmd == v3
           got == v4
           newest == v5
           stream == v6
           said == v7
           heard == v8
           peer == v9
<1> USE DEF Ftp!FtpAssumption
<1>0. /\ Ftp!Shape /\ Ftp!NewestLate /\ Ftp!SaidLate /\ Ftp!Heard
      /\ cmd \in Int /\ (cmd - 1) * Chunk + Chunk = cmd * Chunk
  BY DEF Ftp!Lagging, Ftp!Shape
<1>1. ASSUME pc = "recv", got > 0 PROVE newest < cmd
  <2>1. newest * Chunk < cmd * Chunk
    BY <1>0, <1>1 DEF Ftp!NewestLate, Ftp!Read, Ftp!Shape
  <2> QED BY <1>0, <2>1 DEF Ftp!Shape
<1>2. ASSUME pc = "recv", got < Chunk, stream = <<>>, peer = "up" PROVE said <= heard
  <2>1. said * Chunk < cmd * Chunk
    BY <1>0, <1>2 DEF Ftp!SaidLate, Ftp!Read, Ftp!Shape
  <2>2. said < cmd BY <1>0, <2>1 DEF Ftp!Shape
  <2> QED BY <1>0, <1>2, <2>2 DEF Ftp!Heard, Ftp!Shape
<1> QED BY <1>1, <1>2 DEF Ftp!RepliesBehind, Ftp!AnswersLag, Ftp!NeverBothWait, Ftp!Asked

LEMMA LaggingStep ==
  ASSUME Ftp!FtpAssumption, Ftp!Lagging, [Ftp!Next]_Ftp!vars PROVE Ftp!Lagging'
PROOF
<1> DEFINE commands == v1
           pc == v2
           cmd == v3
           got == v4
           newest == v5
           stream == v6
           said == v7
           heard == v8
           peer == v9
<1> USE DEF Ftp!FtpAssumption
<1>0. Ftp!Shape /\ Ftp!Late /\ Ftp!SaidLate /\ Ftp!NewestLate /\ Ftp!Heard
  BY DEF Ftp!Lagging
<1>r. Ftp!Read \in Nat
  <2>1. Len(commands) \in Nat BY <1>0 DEF Ftp!Shape, Ftp!Login, Ftp!Upload
  <2>2. cmd - 1 \in Nat /\ got \in Nat BY <1>0, <2>1 DEF Ftp!Shape
  <2>3. \A m \in Nat : m * Chunk \in Nat OBVIOUS
  <2> QED BY <2>2, <2>3 DEF Ftp!Read
<1>1. CASE Ftp!Connect
  <2>1. Ftp!Shape' BY <1>0, <1>1 DEF Ftp!Connect, Ftp!Shape, Ftp!server
  <2>2. Ftp!Read' = Ftp!Read BY <1>1 DEF Ftp!Connect, Ftp!Read
  <2>3. Ftp!Late' /\ Ftp!SaidLate' /\ Ftp!NewestLate' /\ Ftp!Heard'
    BY <1>0, <1>1, <2>2 DEF Ftp!Connect, Ftp!Late, Ftp!SaidLate, Ftp!NewestLate,
                            Ftp!Heard, Ftp!server
  <2> QED BY <2>1, <2>3 DEF Ftp!Lagging
<1>2. CASE Ftp!SendData
  <2>1. Ftp!Shape' BY <1>0, <1>2 DEF Ftp!SendData, Ftp!Shape, Ftp!Login, Ftp!Upload
  <2>2. Ftp!Read' = Ftp!Read BY <1>0, <1>2 DEF Ftp!SendData, Ftp!Read, Ftp!Shape
  <2>3. Ftp!Late' BY <1>0, <1>2, <2>2 DEF Ftp!SendData, Ftp!Late
  <2>4. Ftp!SaidLate' BY <1>0, <1>2, <2>2 DEF Ftp!SendData, Ftp!SaidLate
  <2>5. Ftp!NewestLate' /\ Ftp!Heard'
    BY <1>0, <1>2 DEF Ftp!SendData, Ftp!NewestLate, Ftp!Heard, Ftp!Shape
  <2> QED BY <2>1, <2>3, <2>4, <2>5 DEF Ftp!Lagging
<1>3. CASE Ftp!RecvByte
  <2>1. /\ stream # <<>> /\ stream \in Seq(Nat) /\ stream' = Tail(stream)
        /\ newest' = stream[1] /\ got' = got + 1
        /\ pc = "recv" /\ UNCHANGED <<commands, pc, cmd, heard, said, peer>>
    BY <1>0, <1>3 DEF Ftp!RecvByte, Ftp!Shape, Ftp!server, Ftp!Asked
  <2>2. /\ Len(stream) \in Nat /\ Len(stream) >= 1 /\ Len(stream') = Len(stream) - 1
        /\ stream' \in Seq(Nat) /\ stream[1] \in Nat
        /\ \A i \in 1..Len(stream') : stream'[i] = stream[i + 1] /\ i + 1 \in 1..Len(stream)
    BY <2>1
  <2>3. Ftp!Read' = Ftp!Read + 1 BY <1>0, <2>1 DEF Ftp!Read, Ftp!Shape
  <2>4. Ftp!Shape' BY <1>0, <1>3, <2>1, <2>2 DEF Ftp!RecvByte, Ftp!Shape, Ftp!Asked
  <2>5. Ftp!Late'
    <3> SUFFICES ASSUME NEW i \in 1..Len(stream') PROVE stream'[i] * Chunk <= Ftp!Read' + i - 1
      BY DEF Ftp!Late
    <3>1. stream[i + 1] * Chunk <= Ftp!Read + (i + 1) - 1 BY <1>0, <2>2 DEF Ftp!Late
    <3> QED BY <3>1, <2>2, <2>3, <1>r
  <2>6. Ftp!SaidLate' BY <1>0, <1>r, <2>1, <2>2, <2>3 DEF Ftp!SaidLate
  <2>7. Ftp!NewestLate'
    <3>1. stream[1] * Chunk <= Ftp!Read BY <1>0, <1>r, <2>2 DEF Ftp!Late
    <3> QED BY <3>1, <1>r, <2>1, <2>3 DEF Ftp!NewestLate
  <2>8. Ftp!Heard' BY <1>0, <2>1 DEF Ftp!Heard
  <2> QED BY <2>4, <2>5, <2>6, <2>7, <2>8 DEF Ftp!Lagging
<1>4. CASE Ftp!RecvReturns
  <2>1. Ftp!Shape'
    BY <1>0, <1>4 DEF Ftp!RecvReturns, Ftp!Shape, Ftp!Login, Ftp!Upload
  <2>2. UNCHANGED <<commands, got, newest, stream, heard, said>>
        /\ (peer' = "up" => peer = "up")
    BY <1>4 DEF Ftp!RecvReturns
  <2>3. pc = "recv" /\ (got = Chunk \/ (stream = <<>> /\ peer # "up"))
    BY <1>4 DEF Ftp!RecvReturns, Ftp!Asked
  <2>4. got = Chunk => Ftp!Read' = Ftp!Read
    <3>1. CASE pc' = "done" /\ cmd' = cmd
      BY <2>2, <2>3, <3>1 DEF Ftp!Read
    <3>2. CASE pc' = "send" /\ cmd' = cmd + 1
      BY <1>0, <2>2, <2>3, <3>2 DEF Ftp!Read, Ftp!Shape
    <3> QED BY <1>4, <3>1, <3>2 DEF Ftp!RecvReturns
  <2>5. Ftp!Late' /\ Ftp!SaidLate' BY <1>0, <2>2, <2>3, <2>4 DEF Ftp!Late, Ftp!SaidLate
  <2>6. pc' # "recv" BY <1>4 DEF Ftp!RecvReturns
  <2>7. Ftp!NewestLate' /\ Ftp!Heard'
    BY <1>0, <2>2, <2>3, <2>6 DEF Ftp!NewestLate, Ftp!Heard
  <2> QED BY <2>1, <2>5, <2>7 DEF Ftp!Lagging
<1>5. CASE Ftp!Speaks
  <2>1. PICK n \in Chunk..MaxUnits : stream' = stream \o [i \in 1..n |-> said]
    BY <1>5 DEF Ftp!Speaks
  <2>2. /\ peer = "up" /\ said' = said + 1
        /\ UNCHANGED <<commands, pc, cmd, got, newest, heard, peer>>
    BY <1>5 DEF Ftp!Speaks
  <2>3. n \in Nat /\ n >= Chunk /\ said \in Nat /\ stream \in Seq(Nat)
    BY <1>0 DEF Ftp!Shape
  <2>4. PICK message : message = [i \in 1..n |-> said]
    OBVIOUS
  <2>5. message \in Seq(Nat) /\ Len(message) = n /\ \A i \in 1..n : message[i] = said
    BY <2>3, <2>4
  <2>6. /\ stream' \in Seq(Nat) /\ Len(stream') = Len(stream) + n /\ Len(stream) \in Nat
        /\ \A i \in 1..Len(stream) : stream'[i] = stream[i]
        /\ \A i \in Len(stream) + 1..Len(stream) + n : stream'[i] = said
    <3>1. stream' = stream \o message BY <2>1, <2>4
    <3>2. /\ stream' \in Seq(Nat) /\ Len(stream') = Len(stream) + n /\ Len(stream) \in Nat
          /\ \A i \in 1..Len(stream) : stream'[i] = stream[i]
      BY <2>3, <2>5, <3>1, Concatenated
    <3>3. ASSUME NEW i \in Len(stream) + 1..Len(stream) + n PROVE stream'[i] = said
      <4>1. stream'[i] = message[i - Len(stream)] /\ i - Len(stream) \in 1..n
        BY <2>3, <2>5, <3>1, Concatenated
      <4> QED BY <4>1, <2>5
    <3> QED BY <3>2, <3>3
  <2>7. Ftp!Read' = Ftp!Read BY <2>2 DEF Ftp!Read
  <2>8. Ftp!Shape' BY <1>0, <2>2, <2>6 DEF Ftp!Shape
  <2>9. Ftp!Late'
    <3> SUFFICES ASSUME NEW i \in 1..Len(stream') PROVE stream'[i] * Chunk <= Ftp!Read' + i - 1
      BY DEF Ftp!Late
    <3>1. CASE i <= Len(stream)
      <4>1. stream'[i] = stream[i] /\ i \in 1..Len(stream) BY <2>6, <3>1
      <4> QED BY <4>1, <1>0, <2>7 DEF Ftp!Late
    <3>2. CASE i > Len(stream)
      <4>1. stream'[i] = said BY <2>3, <2>6, <3>2
      <4>2. said * Chunk <= Ftp!Read + Len(stream) BY <1>0, <2>2 DEF Ftp!SaidLate
      <4>3. said * Chunk \in Nat /\ Len(stream) \in Nat BY <2>3, <2>6
      <4> QED BY <4>1, <4>2, <4>3, <1>r, <2>7, <3>2
    <3> QED BY <3>1, <3>2, <2>3, <2>6
  <2>10. Ftp!SaidLate'
    <3>1. said * Chunk <= Ftp!Read + Len(stream) BY <1>0, <2>2 DEF Ftp!SaidLate
    <3>2. (said + 1) * Chunk = said * Chunk + Chunk BY <2>3
    <3> QED BY <3>1, <3>2, <1>r, <2>2, <2>3, <2>6, <2>7 DEF Ftp!SaidLate
  <2>11. Ftp!NewestLate' /\ Ftp!Heard'
    BY <1>0, <2>2, <2>7 DEF Ftp!NewestLate, Ftp!Heard
  <2> QED BY <2>8, <2>9, <2>10, <2>11 DEF Ftp!Lagging
<1>6. CASE Ftp!Closes
  BY <1>0, <1>6 DEF Ftp!Closes, Ftp!Lagging, Ftp!Shape, Ftp!Late, Ftp!SaidLate,
                    Ftp!NewestLate, Ftp!Heard, Ftp!Read
<1>7. CASE Ftp!Resets
  <2>1. Ftp!Read' = Ftp!Read BY <1>7 DEF Ftp!Resets, Ftp!Read
  <2>2. PICK n \in 0..Len(stream) : stream' = SubSeq(stream, 1, n)
    BY <1>7 DEF Ftp!Resets
  <2>3. /\ peer' \in {"reset", "broken"}
        /\ UNCHANGED <<commands, pc, cmd, got, newest, said, heard>>
    BY <1>7 DEF Ftp!Resets
  <2>4. /\ stream \in Seq(Nat) /\ stream' \in Seq(Nat) /\ Len(stream') = n
        /\ \A i \in 1..n : stream'[i] = stream[i] /\ i \in 1..Len(stream)
    BY <1>0, <2>2 DEF Ftp!Shape
  <2>5. Ftp!Shape' BY <1>0, <2>3, <2>4 DEF Ftp!Shape
  <2>6. Ftp!Late' BY <1>0, <2>1, <2>4 DEF Ftp!Late
  <2>7. Ftp!SaidLate' /\ Ftp!NewestLate' /\ Ftp!Heard'
    BY <1>0, <2>1, <2>3 DEF Ftp!SaidLate, Ftp!NewestLate, Ftp!Heard
  <2> QED BY <2>5, <2>6, <2>7 DEF Ftp!Lagging
<1>8. CASE UNCHANGED Ftp!vars
  BY <1>0, <1>8 DEF Ftp!vars, Ftp!Lagging, Ftp!Shape, Ftp!Late, Ftp!SaidLate,
                    Ftp!NewestLate,
                    Ftp!Heard, Ftp!Read
<1> QED BY <1>1, <1>2, <1>3, <1>4, <1>5, <1>6, <1>7, <1>8 DEF Ftp!Next, Ftp!Client

\* Reading a fixed number of units, no more than a message has, leaves the replies behind
\* the commands: what is read after a command belongs to an earlier message.  And it
\* keeps the dialogue going: a client that waits for more than is on its way waits for
\* a message the server still owes it.
THEOREM RepliesBehindHolds == Spec => []RepliesBehind
PROOF
<1> DEFINE Inv == Is("ftp") => Ftp!Lagging
<1>0. Ftp!FtpAssumption BY ComponentsAssumption
<1>1. Init => Inv BY <1>0, Chosen, LaggingInit
<1>2. Inv /\ [Next]_vars => Inv' BY <1>0, Alone, LaggingStep DEF Is
<1>3. Inv => RepliesBehind BY <1>0, LaggingMeans DEF RepliesBehind
<1> QED BY <1>1, <1>2, <1>3, PTL DEF Spec

-----------------------------------------------------------------------------------
(* TcpServer.  The library's induction theorems cannot be used here, but the   *)
(* least element of a set can.                                                 *)

Before == {ss \in Nat \X Nat : ss[1] < ss[2]}

\* A set of natural numbers has a least element.
LEMMA Least ==
  ASSUME NEW T, T \subseteq Nat, T # {}
  PROVE  \E n \in T : \A m \in T : n <= m
PROOF
<1>1. IsWellFoundedOn(Before, Nat)
  BY NatLessThanWellFounded DEF OpToRel, Before
<1>2. PICK n \in T : \A m \in T : ~(<<m, n>> \in Before)
  BY <1>1, WFMin
<1>3. ASSUME NEW m \in T PROVE n <= m
  <2>1. m \in Nat /\ n \in Nat OBVIOUS
  <2>2. m < n => <<m, n>> \in Before BY <2>1 DEF Before
  <2> QED BY <1>2, <2>1, <2>2
<1> QED BY <1>3

\* The first occurrence is the only one where the sequence repeats nothing.
LEMMA FirstRemoved ==
  ASSUME NEW S, NEW s \in Seq(S), NEW e
  PROVE  LET t == Tcp!RemoveFirst(s, e) IN
         /\ t \in Seq(S)
         /\ Tcp!IsInjective(s) /\ e \in Tcp!ToSet(s) =>
              Tcp!IsInjective(t) /\ Tcp!ToSet(t) = Tcp!ToSet(s) \ {e}
PROOF
<1>0. CASE e \notin Tcp!ToSet(s)
  <2>1. \A j \in 1..Len(s) : s[j] # e BY <1>0 DEF Tcp!ToSet
  <2>2. Tcp!RemoveFirst(s, e) = s BY <2>1 DEF Tcp!RemoveFirst
  <2> QED BY <1>0, <2>2
<1> SUFFICES ASSUME e \in Tcp!ToSet(s)
             PROVE  LET t == Tcp!RemoveFirst(s, e) IN
                    /\ t \in Seq(S)
                    /\ Tcp!IsInjective(s) =>
                         Tcp!IsInjective(t) /\ Tcp!ToSet(t) = Tcp!ToSet(s) \ {e}
  BY <1>0
<1> DEFINE where == {j \in 1..Len(s) : s[j] = e}
<1>1. where \subseteq Nat /\ where # {} BY DEF Tcp!ToSet
<1>2. PICK i \in where : \A j \in where : i <= j BY <1>1, Least
<1>3. i \in 1..Len(s) /\ s[i] = e OBVIOUS
<1>4. Tcp!IsInjective(s) => \A j \in 1..Len(s) : s[j] = e => j = i
  BY <1>3 DEF Tcp!IsInjective
<1>5. Tcp!SelectInSeq(s, LAMBDA v : v = e) = i
  <2>1. Tcp!Min(where) \in where /\ \A j \in where : Tcp!Min(where) <= j BY <1>2 DEF Tcp!Min
  <2> HIDE DEF where
  <2>2. i \in Nat /\ Tcp!Min(where) \in Nat BY <1>1, <2>1
  <2>3. Tcp!Min(where) = i BY <1>2, <2>1, <2>2
  <2> QED BY <1>1, <2>3 DEF Tcp!SelectInSeq, where
<1> HIDE DEF where
<1>6. Tcp!RemoveFirst(s, e) = SubSeq(s, 1, i - 1) \o SubSeq(s, i + 1, Len(s))
  BY <1>3, <1>5 DEF Tcp!RemoveFirst, Tcp!RemoveAt
<1> DEFINE t == SubSeq(s, 1, i - 1) \o SubSeq(s, i + 1, Len(s))
<1>7. Len(s) \in Nat /\ i \in Nat /\ 1 <= i /\ i <= Len(s) BY <1>3
<1>8. /\ SubSeq(s, 1, i - 1) \in Seq(S) /\ Len(SubSeq(s, 1, i - 1)) = i - 1
      /\ \A j \in 1..i - 1 : SubSeq(s, 1, i - 1)[j] = s[j]
  BY <1>7
<1>9. /\ SubSeq(s, i + 1, Len(s)) \in Seq(S) /\ Len(SubSeq(s, i + 1, Len(s))) = Len(s) - i
      /\ \A j \in 1..Len(s) - i : SubSeq(s, i + 1, Len(s))[j] = s[j + i]
  BY <1>7
<1>10. PICK x, y : x = SubSeq(s, 1, i - 1) /\ y = SubSeq(s, i + 1, Len(s)) OBVIOUS
<1>11. x \in Seq(S) /\ y \in Seq(S) /\ t = x \o y BY <1>8, <1>9, <1>10
<1>12. Len(x) = i - 1 /\ \A j \in 1..i - 1 : x[j] = s[j] BY <1>8, <1>10
<1>13. Len(y) = Len(s) - i /\ \A j \in 1..Len(s) - i : y[j] = s[j + i] BY <1>9, <1>10
<1> HIDE DEF t
<1>14. x \o y \in Seq(S) /\ Len(x \o y) = Len(x) + Len(y) BY <1>11, ConcatProperties
<1>15. t \in Seq(S) /\ Len(t) = Len(s) - 1
  BY <1>7, <1>11, <1>12, <1>13, <1>14
<1>16. ASSUME NEW j \in 1..Len(t) PROVE t[j] = IF j < i THEN s[j] ELSE s[j + 1]
  <2>1. t[j] = IF j <= i - 1 THEN x[j] ELSE y[j - (i - 1)]
    BY <1>7, <1>15, <1>11, <1>12, <1>13, ConcatProperties
  <2>2. CASE j < i BY <1>7, <1>12, <2>1, <2>2
  <2>3. CASE j >= i
    <3>1. j - (i - 1) \in 1..Len(s) - i BY <1>7, <1>15, <2>3
    <3>2. y[j - (i - 1)] = s[(j - (i - 1)) + i] BY <1>13, <3>1
    <3> QED BY <1>7, <1>15, <2>1, <2>3, <3>2
  <2> QED BY <1>7, <2>2, <2>3
<1>17. DOMAIN t = 1..Len(t) /\ DOMAIN s = 1..Len(s) BY <1>15
<1>18. Tcp!IsInjective(s) => Tcp!IsInjective(t)
  <2> SUFFICES ASSUME Tcp!IsInjective(s) PROVE Tcp!IsInjective(t)
    OBVIOUS
  <2>1. ASSUME NEW j \in 1..Len(t), NEW k \in 1..Len(t), t[j] = t[k] PROVE j = k
    <3>1. j \in 1..Len(s) /\ k \in 1..Len(s) /\ j + 1 \in 1..Len(s) /\ k + 1 \in 1..Len(s)
      BY <1>7, <1>15
    <3>2. \A a, b \in 1..Len(s) : s[a] = s[b] => a = b BY <1>17 DEF Tcp!IsInjective
    <3>3. j \in Int /\ k \in Int BY <1>7, <1>15
    <3> QED BY <1>7, <1>16, <2>1, <3>1, <3>2, <3>3
  <2> QED BY <1>17, <2>1 DEF Tcp!IsInjective
<1>19. ASSUME Tcp!IsInjective(s), NEW j \in 1..Len(t) PROVE t[j] \in Tcp!ToSet(s) \ {e}
  <2>1. PICK k \in 1..Len(s) : t[j] = s[k] /\ k # i BY <1>7, <1>15, <1>16
  <2> QED BY <1>4, <1>17, <1>19, <2>1 DEF Tcp!ToSet
<1>20. ASSUME NEW k \in 1..Len(s), s[k] # e PROVE s[k] \in Tcp!ToSet(t)
  <2>1. k # i BY <1>3, <1>20
  <2>2. PICK j \in 1..Len(t) : t[j] = s[k]
    <3>1. CASE k < i
      <4>1. k \in 1..Len(t) /\ t[k] = s[k] BY <1>7, <1>15, <1>16, <3>1
      <4> QED BY <4>1
    <3>2. CASE k > i
      <4>1. k - 1 \in 1..Len(t) /\ t[k - 1] = s[k] BY <1>7, <1>15, <1>16, <3>2
      <4> QED BY <4>1
    <3> QED BY <1>7, <2>1, <3>1, <3>2
  <2> QED BY <1>17, <2>2 DEF Tcp!ToSet
<1>21. Tcp!IsInjective(s) => Tcp!ToSet(t) = Tcp!ToSet(s) \ {e}
  BY <1>17, <1>19, <1>20 DEF Tcp!ToSet
<1> QED BY <1>6, <1>15, <1>18, <1>21 DEF t

\* The kernel gives a number that was free.
LEMMA KernelGives ==
  ASSUME Tcp!NumberFree PROVE Tcp!Lowest \in Tcp!Fds /\ v3[Tcp!Lowest] = "free"
PROOF
<1>1. MaxFd \in Nat BY ComponentsAssumption
<1> DEFINE T == {n \in Tcp!Fds : v3[n] = "free"}
<1>2. T \subseteq Nat /\ T # {} BY <1>1 DEF Tcp!Fds, Tcp!NumberFree
<1>3. PICK n \in T : \A m \in T : n <= m BY <1>2, Least
<1>4. ASSUME NEW m \in 1..n - 1 PROVE v3[m] # "free"
  <2>1. n \in 1..MaxFd BY DEF Tcp!Fds
  <2>2. m \in 1..MaxFd /\ ~(n <= m) BY <1>1, <2>1
  <2> QED BY <1>3, <2>2 DEF Tcp!Fds
<1>5. n \in Tcp!Fds /\ v3[n] = "free" OBVIOUS
<1> QED BY <1>4, <1>5 DEF Tcp!Lowest

LEMMA AccountedInit == Tcp!Init => Tcp!Accounted
PROOF
<1> SUFFICES ASSUME Tcp!Init PROVE Tcp!Accounted
  OBVIOUS
<1> USE DEF Tcp!Init
<1>1. MaxFd \in Nat BY ComponentsAssumption
<1>2. Tcp!ToSet(v2) = {} BY DEF Tcp!ToSet
<1>3. Tcp!AcceptsExact BY <1>2 DEF Tcp!AcceptsExact, Tcp!IsInjective
<1>4. v2 \in Seq(Tcp!Fds) OBVIOUS
<1> QED BY <1>3, <1>4 DEF Tcp!Accounted

LEMMA AccountedStep ==
  ASSUME Tcp!Accounted, [Tcp!Next]_Tcp!vars PROVE Tcp!Accounted'
PROOF
<1> DEFINE Conns(o) == {n \in Tcp!Fds : o[n] = "connection"}
<1>0. MaxFd \in Nat /\ -1 \notin Tcp!Fds BY ComponentsAssumption DEF Tcp!Fds
<1>1. /\ v1 \in Tcp!Fds \cup {-1} /\ v2 \in Seq(Tcp!Fds) /\ v5 \subseteq Tcp!Fds
      /\ v3 \in [Tcp!Fds -> {"free", "listener", "connection", "other"}]
      /\ v9 \in BOOLEAN /\ v10 \in BOOLEAN
      /\ Tcp!AcceptsExact
  BY DEF Tcp!Accounted
<1>2. CASE Tcp!InitServer
  <2>1. PICK l \in Tcp!Fds : /\ v3[l] = "free" /\ v1' = l
                            /\ v3' = [v3 EXCEPT ![l] = "listener"]
    BY <1>2, KernelGives DEF Tcp!InitServer, Tcp!Opens
  <2>2. UNCHANGED <<v2, v5, v6, v9, v10>> BY <1>2 DEF Tcp!InitServer
  <2>3. Conns(v3') = Conns(v3) BY <1>1, <2>1
  <2>4. Tcp!AcceptsExact'
    BY <1>1, <2>1, <2>2, <2>3 DEF Tcp!AcceptsExact, Tcp!ToSet, Tcp!IsInjective
  <2> QED BY <1>1, <2>1, <2>2, <2>4 DEF Tcp!Accounted
<1>3. CASE Tcp!SvrAccept
  <2>1. PICK l \in Tcp!Fds : /\ v3[l] = "free" /\ v2' = Append(v2, l)
                            /\ v3' = [v3 EXCEPT ![l] = "connection"]
                            /\ v5' = v5 \cup {l} /\ v6' = v6 \cup {l}
    BY <1>3, KernelGives DEF Tcp!SvrAccept, Tcp!Opens
  <2>2. UNCHANGED <<v1, v9, v10>> /\ v1 # -1 /\ v3[v1] = "listener"
    BY <1>3 DEF Tcp!SvrAccept
  <2>3. Conns(v3') = Conns(v3) \cup {l} BY <1>1, <2>1
  <2>4. /\ v2' \in Seq(Tcp!Fds) /\ Len(v2') = Len(v2) + 1 /\ Len(v2) \in Nat
        /\ \A i \in 1..Len(v2) : v2'[i] = v2[i]
        /\ v2'[Len(v2) + 1] = l
    BY <1>1, <2>1
  <2>5. DOMAIN v2 = 1..Len(v2) /\ DOMAIN v2' = 1..Len(v2) + 1 BY <1>1, <2>4
  <2>6. \A i \in DOMAIN v2' : i \in DOMAIN v2 \/ i = Len(v2) + 1 BY <2>4, <2>5
  <2>7. Tcp!ToSet(v2') = Tcp!ToSet(v2) \cup {l}
    BY <2>4, <2>5, <2>6 DEF Tcp!ToSet
  <2>8. ASSUME ~v9 PROVE l \notin Tcp!ToSet(v2)
    BY <1>1, <2>1, <2>8 DEF Tcp!AcceptsExact
  <2>9. ASSUME ~v9 PROVE Tcp!IsInjective(v2')
    <3>1. \A i \in DOMAIN v2 : v2[i] # l BY <2>8, <2>9 DEF Tcp!ToSet
    <3>2. Tcp!IsInjective(v2) BY <1>1, <2>9 DEF Tcp!AcceptsExact
    <3> QED BY <2>4, <2>5, <2>6, <3>1, <3>2 DEF Tcp!IsInjective
  <2>10. Tcp!AcceptsExact'
    BY <1>1, <2>1, <2>2, <2>3, <2>7, <2>9 DEF Tcp!AcceptsExact
  <2> QED BY <1>1, <2>1, <2>2, <2>4, <2>10 DEF Tcp!Accounted
<1>4. ASSUME NEW h \in Tcp!Fds, Tcp!Uses(h), Tcp!Drop(h) PROVE Tcp!Accounted'
  <2>1. /\ v3' = [n \in Tcp!Fds |-> IF n \in {h} THEN "free" ELSE v3[n]]
        /\ v2' = Tcp!RemoveFirst(v2, h) /\ v6' = v6 \ {h}
        /\ v10' = (v10 \/ v3[h] = "other") /\ UNCHANGED <<v1, v5>>
    BY <1>4 DEF Tcp!Drop, Tcp!CloseAll
  <2>2. v9' = (v9 \/ h \notin v6) /\ v1 # -1 BY <1>4 DEF Tcp!Uses
  <2>3. v2' \in Seq(Tcp!Fds) BY <1>1, <2>1, FirstRemoved
  <2>4. ASSUME ~v9' PROVE Tcp!AcceptsExact'
    <3>1. /\ ~v9 /\ h \in v6 /\ v6 = Tcp!ToSet(v2) /\ Tcp!IsInjective(v2)
          /\ Tcp!ToSet(v2) = Conns(v3) /\ v3[v1] = "listener" /\ ~v10
      BY <1>1, <2>2, <2>4 DEF Tcp!AcceptsExact
    <3>2. Tcp!IsInjective(v2') /\ Tcp!ToSet(v2') = Tcp!ToSet(v2) \ {h}
      BY <1>1, <2>1, <3>1, FirstRemoved
    <3>3. v3[h] = "connection" /\ v1 # h BY <3>1
    <3>4. Conns(v3') = Conns(v3) \ {h} BY <2>1
    <3>5. v3'[v1] = "listener" BY <1>1, <2>1, <2>2, <3>1, <3>3
    <3> QED BY <2>1, <3>1, <3>2, <3>3, <3>4, <3>5 DEF Tcp!AcceptsExact
  <2>5. v3' \in [Tcp!Fds -> {"free", "listener", "connection", "other"}] BY <1>1, <2>1
  <2>6. v9' \in BOOLEAN /\ v10' \in BOOLEAN BY <2>1, <2>2
  <2>7. Tcp!AcceptsExact' BY <2>4 DEF Tcp!AcceptsExact
  <2> QED BY <1>1, <2>1, <2>3, <2>5, <2>6, <2>7 DEF Tcp!Accounted
<1>5. ASSUME NEW h \in Tcp!Fds, Tcp!Uses(h), UNCHANGED <<v1, v2, v3, v5, v6, v10>>
      PROVE  Tcp!Accounted'
  <2>1. v9' = (v9 \/ h \notin v6) BY <1>5 DEF Tcp!Uses
  <2> QED
    BY <1>1, <1>5, <2>1 DEF Tcp!Accounted, Tcp!AcceptsExact, Tcp!ToSet, Tcp!IsInjective
<1>6. ASSUME NEW h \in Tcp!Fds, Tcp!SendData(h) \/ Tcp!ReceiveData(h) PROVE Tcp!Accounted'
  <2>1. Tcp!Uses(h) /\ (Tcp!Drop(h) \/ UNCHANGED <<v1, v2, v3, v5, v6, v10>>)
    BY <1>6 DEF Tcp!SendData, Tcp!ReceiveData
  <2> QED BY <1>4, <1>5, <2>1
<1>7. CASE Tcp!Deinit
  <2>1. /\ v3' = [n \in Tcp!Fds |-> IF n \in Tcp!ToSet(v2) \cup {v1} THEN "free" ELSE v3[n]]
        /\ v1' = -1 /\ v2' = <<>> /\ v6' = {} /\ UNCHANGED <<v5, v9>>
        /\ v10' = (v10 \/ \E n \in Tcp!ToSet(v2) : v3[n] = "other")
    BY <1>7 DEF Tcp!Deinit, Tcp!CloseAll
  <2>2. Tcp!ToSet(v2') = {} /\ Tcp!IsInjective(v2') /\ v2' \in Seq(Tcp!Fds)
    BY <2>1 DEF Tcp!ToSet, Tcp!IsInjective
  <2>3. ~v9 => Conns(v3') = {} BY <1>1, <2>1 DEF Tcp!AcceptsExact
  <2>4. ~v9 => ~v10' BY <1>1, <2>1 DEF Tcp!AcceptsExact
  <2>5. Tcp!AcceptsExact' BY <2>1, <2>2, <2>3, <2>4 DEF Tcp!AcceptsExact
  <2>6. v3' \in [Tcp!Fds -> {"free", "listener", "connection", "other"}] BY <1>1, <2>1
  <2>7. v10' \in BOOLEAN BY <2>1
  <2> QED BY <1>1, <2>1, <2>2, <2>5, <2>6, <2>7 DEF Tcp!Accounted
<1>8. CASE Tcp!OtherOpens \/ \E n \in Tcp!Fds : Tcp!OtherCloses(n)
  <2>1. PICK n \in Tcp!Fds : /\ v3[n] \in {"free", "other"}
                            /\ \/ v3' = [v3 EXCEPT ![n] = "other"]
                               \/ v3' = [v3 EXCEPT ![n] = "free"]
    BY <1>8, KernelGives DEF Tcp!OtherOpens, Tcp!OtherCloses, Tcp!Opens
  <2>2. UNCHANGED <<v1, v2, v5, v6, v9, v10>>
    BY <1>8 DEF Tcp!OtherOpens, Tcp!OtherCloses
  <2>3. Conns(v3') = Conns(v3) BY <1>1, <2>1
  <2>4. v1 # -1 /\ v3[v1] = "listener" => v3'[v1] = "listener" BY <1>1, <2>1
  <2>5. Tcp!AcceptsExact'
    BY <1>1, <2>2, <2>3, <2>4 DEF Tcp!AcceptsExact, Tcp!ToSet, Tcp!IsInjective
  <2>6. v3' \in [Tcp!Fds -> {"free", "listener", "connection", "other"}] BY <1>1, <2>1
  <2> QED BY <1>1, <2>2, <2>5, <2>6 DEF Tcp!Accounted
<1>9. CASE UNCHANGED <<v1, v2, v3, v5, v6, v9, v10>>
  BY <1>1, <1>9 DEF Tcp!Accounted, Tcp!AcceptsExact, Tcp!ToSet, Tcp!IsInjective
<1>10. ASSUME NEW h \in Tcp!Fds, Tcp!PeerLeaves(h)
       PROVE  UNCHANGED <<v1, v2, v3, v5, v6, v9, v10>>
  BY <1>10 DEF Tcp!PeerLeaves
<1>11. UNCHANGED Tcp!vars => UNCHANGED <<v1, v2, v3, v5, v6, v9, v10>> BY DEF Tcp!vars
<1> QED
  BY <1>2, <1>3, <1>6, <1>7, <1>8, <1>9, <1>10, <1>11 DEF Tcp!Next

LEMMA AccountedMeans == Tcp!Accounted => Tcp!AcceptsExact
PROOF BY DEF Tcp!Accounted

\* A caller that believes what it is told may rely on the list of connections: it has
\* each once and nothing else, and no descriptor of others is closed, for any number of
\* descriptors and of calls.
THEOREM AcceptsExactHolds == Spec => []AcceptsExact
PROOF
<1> DEFINE Inv == Is("tcp") => Tcp!Accounted
<1>1. Init => Inv BY Chosen, AccountedInit
<1>2. Inv /\ [Next]_vars => Inv' BY Alone, AccountedStep DEF Is
<1>3. Inv => AcceptsExact BY AccountedMeans DEF AcceptsExact
<1> QED BY <1>1, <1>2, <1>3, PTL DEF Spec

-----------------------------------------------------------------------------------
(* Assembly *)

LEMMA ProtectedInit == Process!Init => Process!Protected
PROOF
<1> SUFFICES ASSUME Process!Init PROVE Process!Protected
  OBVIOUS
<1>1. Process!ServerDemo.sends = FALSE /\ Process!ClientDemo.sends = TRUE
  BY DEF Process!ServerDemo, Process!ClientDemo
<1>2. v1.sends \in BOOLEAN BY <1>1 DEF Process!Init
<1>3. v5 = TRUE /\ v2 = "create" /\ v7 = "none" /\ v11 = {} BY DEF Process!Init
<1> QED BY <1>2, <1>3 DEF Process!Protected, Process!WrongUses

LEMMA ProtectedStep ==
  ASSUME Process!Protected, [Process!Next]_Process!vars PROVE Process!Protected'
PROOF
<1> DEFINE prog == v1
           pc == v2
           ops == v5
           sender == v7
           recv == v8
           wrong == v11
<1> USE DEF Process!objects, Process!threads
<1>1. CASE Process!MainStep
  <2>1. UNCHANGED <<prog, sender, wrong>>
    BY <1>1 DEF Process!MainStep, Process!Create, Process!InitObject, Process!InitFails,
                Process!CreateDaemons, Process!DeinitBegins, Process!RemoveChannel,
                Process!RemoveFails, Process!StopQueue, Process!RemoveQueue,
                Process!ClearOps, Process!Exit
  <2>2. CASE Process!InitObject
    BY <2>1, <2>2 DEF Process!InitObject, Process!Protected, Process!WrongUses
  <2>3. CASE Process!RemoveQueue
    BY <2>1, <2>3 DEF Process!RemoveQueue, Process!Protected, Process!WrongUses
  <2>4. CASE Process!ClearOps
    BY <2>1, <2>4 DEF Process!ClearOps, Process!Protected, Process!WrongUses
  <2>5. CASE Process!Exit \/ Process!RemoveFails \/ Process!InitFails
    BY <2>1, <2>5 DEF Process!Exit, Process!RemoveFails, Process!InitFails,
                      Process!Protected, Process!WrongUses
  <2>6. CASE \/ Process!Create \/ Process!CreateDaemons \/ Process!DeinitBegins
             \/ Process!RemoveChannel \/ Process!StopQueue
    BY <2>1, <2>6 DEF Process!Create, Process!CreateDaemons, Process!DeinitBegins,
                      Process!RemoveChannel, Process!StopQueue, Process!Protected,
                      Process!WrongUses
  <2> QED BY <1>1, <2>2, <2>3, <2>4, <2>5, <2>6 DEF Process!MainStep
<1>2. ASSUME NEW start \in BOOLEAN, Process!ReceiverCalls(start) PROVE Process!Protected'
  <2>1. recv = "call" /\ recv' \in {"returns", "joins"} /\ UNCHANGED <<prog, pc, ops>>
    BY <1>2 DEF Process!ReceiverCalls
  <2>2. ops BY <2>1 DEF Process!Protected
  <2>3. wrong' = wrong /\ (~prog.sends => sender' = sender)
    BY <1>2, <2>2 DEF Process!ReceiverCalls, Process!Calls
  <2> QED BY <2>1, <2>2, <2>3 DEF Process!Protected, Process!WrongUses
<1>3. CASE Process!DaemonCalls
  <2>1. UNCHANGED <<prog, pc, ops, recv>> BY <1>3 DEF Process!DaemonCalls
  <2>2. /\ wrong' \subseteq wrong \cup {<<"daemon", "ops">>}
        /\ ~prog.sends => sender' = sender
    BY <1>3 DEF Process!DaemonCalls, Process!Calls
  <2> QED BY <2>1, <2>2 DEF Process!Protected, Process!WrongUses
<1>4. CASE Process!EventComes \/ Process!ReceiverJoined \/ Process!ReceiverReturns
  <2>1. /\ recv # "ended" /\ UNCHANGED <<prog, pc, ops, wrong>>
        /\ sender' \in {sender, "none"}
    BY <1>4 DEF Process!EventComes, Process!ReceiverJoined, Process!ReceiverReturns
  <2> QED BY <2>1 DEF Process!Protected, Process!WrongUses
<1>5. CASE Process!DaemonWakes \/ Process!DaemonJoined
  <2>1. UNCHANGED <<prog, pc, ops, recv, wrong>> /\ sender' \in {sender, "none"}
    BY <1>5 DEF Process!DaemonWakes, Process!DaemonJoined
  <2> QED BY <2>1 DEF Process!Protected, Process!WrongUses
<1>6. CASE Process!SenderStep
  <2>1. sender # "none" /\ UNCHANGED <<prog, pc, ops, recv>>
    BY <1>6 DEF Process!SenderStep, Process!SenderTests, Process!SenderUses,
                Process!SenderTells, Process!SenderSends
  <2>2. wrong' \subseteq wrong \cup {<<"sender", "vid">>, <<"sender", "msg">>}
    BY <1>6 DEF Process!SenderStep, Process!SenderTests, Process!SenderUses,
                Process!SenderTells, Process!SenderSends
  <2> QED BY <2>1, <2>2 DEF Process!Protected, Process!WrongUses
<1>7. CASE UNCHANGED Process!vars
  BY <1>7 DEF Process!vars, Process!Protected, Process!WrongUses
<1> QED
  BY <1>1, <1>2, <1>3, <1>4, <1>5, <1>6, <1>7
     DEF Process!Next, Process!ReceiverStep, Process!DaemonStep

LEMMA ProtectedMeans == Process!Protected => Process!WrongUses
PROOF BY DEF Process!Protected

\* The receiving thread of the queue never calls cleared callbacks, and a program that
\* starts no sender uses nothing that is gone but, in the daemon, the callbacks.
THEOREM WrongUsesHolds == Spec => []WrongUses
PROOF
<1> DEFINE Inv == Is("process") => Process!Protected
<1>1. Init => Inv BY Chosen, ProtectedInit
<1>2. Inv /\ [Next]_vars => Inv' BY Alone, ProtectedStep DEF Is
<1>3. Inv => WrongUses BY ProtectedMeans DEF WrongUses
<1> QED BY <1>1, <1>2, <1>3, PTL DEF Spec

-----------------------------------------------------------------------------------
(* GatewayParams *)

LEMMA Lines ==
  /\ 1..1 = {1} /\ 1..2 = {1, 2}
  /\ \A a : Len(<<a>>) = 1 /\ <<a>>[1] = a
  /\ \A a, b : Len(<<a, b>>) = 2 /\ <<a, b>>[1] = a /\ <<a, b>>[2] = b
PROOF
<1>1. \A i : i \in 1..1 <=> i = 1 OBVIOUS
<1>2. \A i : i \in 1..2 <=> i = 1 \/ i = 2 OBVIOUS
<1>3. \A a : Len(<<a>>) = 1 /\ <<a>>[1] = a OBVIOUS
<1>4. \A a, b : Len(<<a, b>>) = 2 /\ <<a, b>>[1] = a /\ <<a, b>>[2] = b OBVIOUS
<1> QED BY <1>1, <1>2, <1>3, <1>4

\* Of a clean file only genuine values are read.
LEMMA CleanRead ==
  ASSUME NEW f, Params!Clean(f), NEW old, NEW k \in Params!KeySet, old[k] # Cut
  PROVE  Params!Loaded(f, old)[k] # Cut
PROOF
<1> DEFINE lines == Params!Entries(f, k)
           last == CHOOSE i \in lines : \A j \in lines : j <= i
<1>1. CASE lines = {} BY <1>1 DEF Params!Loaded
<1>2. CASE lines # {}
  <2>1. lines \subseteq 1..Len(f) /\ Len(f) \in {1, 2} /\ \A i \in lines : f[i].kind = "entry"
    BY DEF Params!Entries, Params!Usable, Params!Clean
  <2>2. lines \subseteq {1, 2} BY <2>1
  <2> HIDE DEF lines
  <2>3. \E i \in lines : \A j \in lines : j <= i
    <3>1. CASE 2 \in lines BY <2>2, <3>1
    <3>2. CASE 2 \notin lines
      <4>1. \A j \in lines : j = 1 BY <2>2, <3>2
      <4> QED BY <1>2, <4>1
    <3> QED BY <3>1, <3>2
  <2>4. last \in lines BY <2>3
  <2>5. f[last].ended /\ f[last].value # Cut BY <2>1, <2>4 DEF Params!Clean
  <2>6. Params!Loaded(f, old)[k] = Params!Read(f[last])
    BY <1>2 DEF Params!Loaded, lines
  <2> QED BY <2>5, <2>6 DEF Params!Read
<1> QED BY <1>1, <1>2

\* What is read of a file that was written anew is what was written.
LEMMA WrittenRead ==
  ASSUME NEW m, m = [k \in Params!KeySet |-> m[k]], NEW f,
         f = [i \in 1..Len(Params!Keys) |->
                Params!Entry(Params!Keys[i], m[Params!Keys[i]], TRUE)]
  PROVE  /\ Params!Loaded(f, Params!Defaults) = m
         /\ (\A k \in Params!KeySet : m[k] # Cut) => Params!Clean(f)
PROOF
<1>1. Len(Params!Keys) = 2 /\ Params!Keys[1] = "Password" /\ Params!Keys[2] = "PlatformIP"
  BY DEF Params!Keys
<1>2. Params!KeySet = {"Password", "PlatformIP"} BY <1>1 DEF Params!KeySet
<1>a. f = [i \in 1..2 |-> Params!Entry(Params!Keys[i], m[Params!Keys[i]], TRUE)]
  BY <1>1
<1>b. 1 \in 1..2 /\ 2 \in 1..2 OBVIOUS
<1>3. f[1] = Params!Entry("Password", m["Password"], TRUE)
  BY <1>1, <1>a, <1>b
<1>4. f[2] = Params!Entry("PlatformIP", m["PlatformIP"], TRUE)
  BY <1>1, <1>a, <1>b
<1>5. Len(f) = 2 BY <1>a
<1>6. /\ f[1].kind = "entry" /\ f[1].key = "Password" /\ f[1].value = m["Password"]
      /\ f[2].kind = "entry" /\ f[2].key = "PlatformIP" /\ f[2].value = m["PlatformIP"]
      /\ f[1].ended = TRUE /\ f[2].ended = TRUE
  BY <1>3, <1>4 DEF Params!Entry
<1>7. Params!Usable(f) = {1, 2}
  <2>1. \A i \in 1..2 : \A j \in 1..i : f[j].kind = "entry"
    <3>1. \A i \in 1..2 : \A j \in 1..i : j = 1 \/ j = 2 OBVIOUS
    <3> QED BY <1>6, <3>1
  <2> QED BY <1>5, <2>1, Lines DEF Params!Usable
<1>8. Params!Entries(f, "Password") = {1} /\ Params!Entries(f, "PlatformIP") = {2}
  BY <1>6, <1>7 DEF Params!Entries
<1>9. ASSUME NEW k \in Params!KeySet, NEW i \in {1, 2}, Params!Entries(f, k) = {i}
      PROVE  Params!Loaded(f, Params!Defaults)[k] = f[i].value
  <2> DEFINE last(S) == CHOOSE x \in S : \A j \in S : j <= x
  <2>1. last({i}) = i OBVIOUS
  <2>2. Params!Loaded(f, Params!Defaults)[k] =
          IF Params!Entries(f, k) = {} THEN Params!Defaults[k]
          ELSE Params!Read(f[last(Params!Entries(f, k))])
    BY <1>9 DEF Params!Loaded
  <2> HIDE DEF last
  <2>3. Params!Loaded(f, Params!Defaults)[k] = Params!Read(f[i])
    BY <1>9, <2>1, <2>2
  <2> QED BY <1>6, <2>3 DEF Params!Read
<1>10. \A k \in Params!KeySet : Params!Loaded(f, Params!Defaults)[k] = m[k]
  BY <1>2, <1>6, <1>8, <1>9
<1>11. Params!Loaded(f, Params!Defaults) = m
  BY <1>10 DEF Params!Loaded
<1>12. (\A k \in Params!KeySet : m[k] # Cut) => Params!Clean(f)
  <2>1. 1..Len(f) = {1, 2} BY <1>5, Lines
  <2> SUFFICES ASSUME \A k \in Params!KeySet : m[k] # Cut PROVE Params!Clean(f)
    OBVIOUS
  <2>2. m["Password"] # Cut /\ m["PlatformIP"] # Cut BY <1>2
  <2>3. \A i \in {1, 2} : f[i].ended /\ f[i].value # Cut BY <1>6, <2>2
  <2> QED BY <1>5, <2>1, <2>3 DEF Params!Clean
<1> QED BY <1>11, <1>12

LEMMA UserFilesClean ==
  ASSUME NEW f, f \in Params!UserFiles,
         \A i \in 1..Len(f) : f[i].kind = "entry" => f[i].ended
  PROVE  Params!Clean(f)
PROOF
<1>0. Cut # Edited BY ComponentsAssumption DEF Params!ParamsAssumption
<1>1. ASSUME NEW e \in Params!UserEntries, f = <<e>> PROVE Params!Clean(f)
  <2>1. e.value = Edited BY DEF Params!UserEntries
  <2>2. Len(f) = 1 /\ f[1].value = Edited BY <1>1, <2>1, Lines
  <2>3. 1..Len(f) = {1} BY <2>2, Lines
  <2> QED BY <1>0, <2>2, <2>3 DEF Params!Clean
<1>2. ASSUME NEW a, NEW b, f = <<a, b>>, a.kind = "entry" => a.value = Edited,
             b.kind = "entry" => b.value = Edited
      PROVE  Params!Clean(f)
  <2>1. Len(f) = 2 /\ f[1] = a /\ f[2] = b BY <1>2, Lines
  <2>2. 1..Len(f) = {1, 2} BY <2>1, Lines
  <2> QED BY <1>0, <1>2, <2>1, <2>2 DEF Params!Clean
<1>3. /\ Params!Note.kind # "entry" /\ Params!Junk.kind # "entry"
      /\ \A k : Params!Entry(k, Edited, TRUE).value = Edited
  BY DEF Params!Entry, Params!Note, Params!Junk
<1>4. CASE \/ f = <<Params!Note, Params!Entry("Password", Edited, TRUE)>>
           \/ f = <<Params!Entry("PlatformIP", Edited, TRUE), Params!Junk>>
  BY <1>2, <1>3, <1>4
<1>5. \/ \E e \in Params!UserEntries : f = <<e>>
      \/ f = <<Params!Note, Params!Entry("Password", Edited, TRUE)>>
      \/ f = <<Params!Entry("PlatformIP", Edited, TRUE), Params!Junk>>
  BY DEF Params!UserFiles
<1> QED BY <1>1, <1>4, <1>5

LEMMA GenuineInit == Params!Init => Params!Genuine
PROOF
<1> SUFFICES ASSUME Params!Init PROVE Params!Genuine
  OBVIOUS
<1>0. Cut # Default BY ComponentsAssumption DEF Params!ParamsAssumption
<1>1. Params!Clean(Params!NoFile)
  <2>1. Len(Params!NoFile) = 1 /\ Params!NoFile[1].kind = "no file" BY DEF Params!NoFile
  <2>2. 1..Len(Params!NoFile) = {1} BY <2>1, Lines
  <2> QED BY <2>1, <2>2 DEF Params!Clean
<1>2. Params!ParametersTrue
  BY <1>0 DEF Params!Init, Params!ParametersTrue, Params!AuthenticValues,
              Params!RunsOnFile, Params!Defaults
<1> QED BY <1>1, <1>2 DEF Params!Init, Params!Genuine, Params!Defaults

LEMMA GenuineStep ==
  ASSUME Params!Genuine, [Params!Next]_Params!vars PROVE Params!Genuine'
PROOF
<1> DEFINE prog == v1
           file == v2
           map == v3
           pc == v4
           given == v6
           faults == v8
           semicolons == v9
<1>0. Cut # Default BY ComponentsAssumption DEF Params!ParamsAssumption
<1>1. CASE Params!UserWrites
  <2>1. /\ pc = "off" /\ file' \in Params!UserFiles /\ UNCHANGED <<map, pc, given, faults>>
        /\ semicolons' = (semicolons /\ \A i \in 1..Len(file') :
                             file'[i].kind = "entry" => file'[i].ended)
    BY <1>1 DEF Params!UserWrites
  <2>2. semicolons' => Params!Clean(file') BY <2>1, UserFilesClean
  <2>3. Params!ParametersTrue'
    BY <2>1 DEF Params!Genuine, Params!ParametersTrue, Params!AuthenticValues,
                Params!RunsOnFile
  <2> QED BY <2>1, <2>2, <2>3 DEF Params!Genuine
<1>2. CASE Params!Boot
  <2>1. /\ map' = Params!Defaults /\ pc' = "load"
        /\ UNCHANGED <<file, given, faults, semicolons>>
    BY <1>2 DEF Params!Boot
  <2>2. Params!ParametersTrue'
    BY <1>0, <2>1 DEF Params!Genuine, Params!ParametersTrue, Params!AuthenticValues,
                      Params!RunsOnFile, Params!Defaults
  <2>3. map' = [k \in Params!KeySet |-> map'[k]] BY <2>1 DEF Params!Defaults
  <2> QED BY <2>1, <2>2, <2>3 DEF Params!Genuine
<1>3. CASE Params!LoadParam
  <2>1. /\ pc = "load" /\ map' = Params!Loaded(file, map)
        /\ UNCHANGED <<file, given, faults, semicolons>>
        /\ pc' = IF Params!Unreadable(file) THEN "create" ELSE "check"
    BY <1>3 DEF Params!LoadParam
  <2>2. map = Params!Defaults BY <2>1 DEF Params!Genuine
  <2>3. map' = [k \in Params!KeySet |-> map'[k]] BY <2>1 DEF Params!Loaded
  <2>4. ASSUME semicolons, faults = 0, NEW k \in Params!KeySet PROVE map'[k] # Cut
    <3>1. Params!Clean(file) /\ map[k] # Cut
      BY <2>4 DEF Params!Genuine, Params!ParametersTrue, Params!AuthenticValues
    <3> QED BY <2>1, <3>1, CleanRead
  <2>5. Params!ParametersTrue'
    BY <2>1, <2>4 DEF Params!Genuine, Params!ParametersTrue, Params!AuthenticValues,
                      Params!RunsOnFile
  <2> QED BY <2>1, <2>2, <2>3, <2>5 DEF Params!Genuine
<1>4. CASE Params!Create
  <2>1. /\ pc = "create" /\ pc' = "check" /\ UNCHANGED <<map, given, faults, semicolons>>
        /\ \/ file' = [i \in 1..Len(Params!Keys) |->
                         Params!Entry(Params!Keys[i], map[Params!Keys[i]], TRUE)]
           \/ file' = file
    BY <1>4 DEF Params!Create
  <2>2. Params!ParametersTrue'
    BY <2>1 DEF Params!Genuine, Params!ParametersTrue, Params!AuthenticValues,
                Params!RunsOnFile
  <2>3. CASE file' = file
    BY <2>1, <2>2, <2>3 DEF Params!Genuine
  <2>4. CASE file' # file
    <3>1. /\ Params!Loaded(file', Params!Defaults) = map
          /\ (\A k \in Params!KeySet : map[k] # Cut) => Params!Clean(file')
      BY <2>1, <2>4, WrittenRead DEF Params!Genuine
    <3> QED
      BY <2>1, <2>2, <3>1 DEF Params!Genuine, Params!ParametersTrue, Params!AuthenticValues
  <2> QED BY <2>3, <2>4
<1>5. CASE Params!Check
  <2>1. pc = "check" /\ pc' \in {"off", "ping"} /\ UNCHANGED <<file, map, given, faults, semicolons>>
    BY <1>5 DEF Params!Check
  <2> QED
    BY <2>1 DEF Params!Genuine, Params!ParametersTrue, Params!AuthenticValues,
                Params!RunsOnFile
<1>6. CASE Params!StartUp
  <2>1. /\ pc = "ping" /\ pc' = "run" /\ given' = map
        /\ UNCHANGED <<file, map, faults, semicolons>>
    BY <1>6 DEF Params!StartUp
  <2> QED
    BY <2>1 DEF Params!Genuine, Params!ParametersTrue, Params!AuthenticValues,
                Params!RunsOnFile
<1>7. CASE Params!Crash
  <2>1. faults' = faults + 1 /\ pc' = "off" /\ UNCHANGED map
    BY <1>7 DEF Params!Crash
  <2>2. faults \in Nat /\ map = [k \in Params!KeySet |-> map[k]] BY DEF Params!Genuine
  <2>3. faults' \in Nat /\ faults' # 0 BY <2>1, <2>2
  <2> QED
    BY <2>1, <2>2, <2>3 DEF Params!Genuine, Params!ParametersTrue, Params!AuthenticValues,
                            Params!RunsOnFile
<1>8. CASE UNCHANGED Params!vars
  BY <1>8 DEF Params!vars, Params!Genuine, Params!ParametersTrue, Params!AuthenticValues,
              Params!RunsOnFile
<1> QED
  BY <1>1, <1>2, <1>3, <1>4, <1>5, <1>6, <1>7, <1>8 DEF Params!Next, Params!Start

LEMMA GenuineMeans == Params!Genuine => Params!ParametersTrue
PROOF BY DEF Params!Genuine

\* The platform is given only values somebody wrote, and those of the file, whatever
\* was read half or written anew before.
THEOREM ParametersTrueHolds == Spec => []ParametersTrue
PROOF
<1> DEFINE Inv == Is("params") => Params!Genuine
<1>1. Init => Inv BY Chosen, GenuineInit
<1>2. Inv /\ [Next]_vars => Inv' BY Alone, GenuineStep DEF Is
<1>3. Inv => ParametersTrue BY GenuineMeans DEF ParametersTrue
<1> QED BY <1>1, <1>2, <1>3, PTL DEF Spec

-----------------------------------------------------------------------------------
(* SocketObject *)

\* What the proof needs to know of the six classes.
LEMMA ClassesKnown ==
  ASSUME NEW class, class \in Socket!Classes
  PROVE  /\ class.addresses[1] \in {0, 1} /\ class.addresses[2] \in {0, 1}
         /\ \/ class.refuses = {} /\ class.name # "FtpClient"
            \/ class.refuses = Socket!Fds /\ class.name = "FtpClient"
            \/ class.refuses = {1, 2} /\ class.name \notin {"FtpClient", "TCPSocket"}
         /\ class.refuses = {1, 2} => class.spares = {0}
         /\ class.refuses # {1, 2} => class.spares = {-1}
         /\ class.refuses # {} => class.closesOnFailure = TRUE
         /\ class.name = "TCPSocket" =>
              class.closesOnFailure = FALSE /\ class.addresses[1] = 0 /\ class.addresses[2] = 0
         /\ class.after \in {-1, 0} /\ (class.name # "FtpClient" => class.after = -1)
PROOF
<1> USE DEF Socket!Fds
<1>1. CASE class = Socket!BroadCastSvr BY <1>1 DEF Socket!BroadCastSvr
<1>2. CASE class = Socket!BroadCastCli BY <1>2 DEF Socket!BroadCastCli
<1>3. CASE class = Socket!TCPSocket BY <1>3 DEF Socket!TCPSocket
<1>4. CASE class = Socket!FtpClient BY <1>4 DEF Socket!FtpClient
<1>5. CASE class = Socket!BroadcastServer BY <1>5 DEF Socket!BroadcastServer
<1>6. CASE class = Socket!BroadcastClient
  BY <1>6 DEF Socket!BroadcastClient, Socket!BroadcastServer
<1> QED BY <1>1, <1>2, <1>3, <1>4, <1>5, <1>6 DEF Socket!Classes

LEMMA LowestIsFree ==
  ASSUME Socket!NumberFree PROVE Socket!Lowest \in Socket!Fds /\ v3[Socket!Lowest] = "nobody"
PROOF
<1> DEFINE T == {n \in Socket!Fds : v3[n] = "nobody"}
<1>1. T \subseteq Nat /\ T # {} BY DEF Socket!Fds, Socket!NumberFree
<1>2. PICK n \in T : \A m \in T : n <= m BY <1>1, Least
<1>3. ASSUME NEW m \in 0..n - 1 PROVE v3[m] # "nobody"
  <2>1. n \in 0..2 BY DEF Socket!Fds
  <2>2. m \in 0..2 /\ ~(n <= m) BY <2>1
  <2> QED BY <1>2, <2>2 DEF Socket!Fds
<1>4. n \in Socket!Fds /\ v3[n] = "nobody" OBVIOUS
<1> QED BY <1>3, <1>4 DEF Socket!Lowest

LEMMA HeldInit == Socket!Init => Socket!Held
PROOF
<1> SUFFICES ASSUME Socket!Init PROVE Socket!Held
  OBVIOUS
<1>1. v2 = -1 /\ v5 = FALSE /\ v7 = FALSE /\ v8 = FALSE /\ v9 = {} /\ v1 \in Socket!Classes
  BY DEF Socket!Init
<1>2. /\ v3 \in [Socket!Fds -> {"nobody", "object", "other"}] /\ v3[0] = "other"
      /\ Socket!OpenOf = {}
  BY DEF Socket!Init, Socket!OpenOf, Socket!Fds
<1>3. /\ v4 \in [{1, 2} -> {"null", "live", "deleted"}]
      /\ \A i \in {1, 2} : v4[i] = "null"
      /\ Socket!Live = {}
  BY DEF Socket!Init, Socket!Live
<1>4. v2 \in Socket!Numbers BY <1>1 DEF Socket!Numbers
<1>5. Socket!Remembered /\ Socket!Orderly
  BY <1>1, <1>2, <1>3 DEF Socket!Remembered, Socket!Orderly
<1>6. Socket!DescriptorsKept
  BY <1>1 DEF Socket!DescriptorsKept, Socket!OrderlyUse, Socket!NoDescriptorLost,
              Socket!OthersUntouched
<1> QED BY <1>1, <1>2, <1>3, <1>4, <1>5, <1>6 DEF Socket!Held

LEMMA HeldStep ==
  ASSUME Socket!Held, [Socket!Next]_Socket!vars PROVE Socket!Held'
PROOF
<1> DEFINE class == v1
           fd == v2
           owner == v3
           addr == v4
           up == v5
           misuse == v7
           failed == v8
           harm == v9
<1>1. /\ class \in Socket!Classes /\ fd \in Socket!Numbers
      /\ up \in BOOLEAN /\ misuse \in BOOLEAN /\ failed \in BOOLEAN
      /\ owner \in [Socket!Fds -> {"nobody", "object", "other"}]
      /\ addr \in [{1, 2} -> {"null", "live", "deleted"}]
      /\ \A i \in {1, 2} : class.addresses[i] = 0 => addr[i] = "null"
      /\ class.name = "TCPSocket" => fd = -1 \/ fd \in Socket!OpenOf
  BY DEF Socket!Held
<1>2. Socket!Remembered /\ Socket!Orderly BY DEF Socket!Held
<1>3. /\ Socket!OrderlyUse /\ Socket!NoDescriptorLost /\ Socket!OthersUntouched
  BY DEF Socket!Held, Socket!DescriptorsKept
<1>4. /\ class.addresses[1] \in {0, 1} /\ class.addresses[2] \in {0, 1}
      /\ \/ class.refuses = {} /\ class.name # "FtpClient"
         \/ class.refuses = Socket!Fds /\ class.name = "FtpClient"
         \/ class.refuses = {1, 2} /\ class.name \notin {"FtpClient", "TCPSocket"}
      /\ class.refuses = {1, 2} => class.spares = {0}
      /\ class.refuses # {1, 2} => class.spares = {-1}
      /\ class.refuses # {} => class.closesOnFailure = TRUE
      /\ class.name = "TCPSocket" =>
           class.closesOnFailure = FALSE /\ class.addresses[1] = 0 /\ class.addresses[2] = 0
      /\ class.after \in {-1, 0} /\ (class.name # "FtpClient" => class.after = -1)
  BY <1>1, ClassesKnown
<1>5. Socket!Fds = {0, 1, 2} /\ Socket!Numbers = {-1, 0, 1, 2} /\ -1 \notin class.refuses
  BY <1>4 DEF Socket!Fds, Socket!Numbers
<1>6. Socket!Orphans \subseteq {"leak"} /\ (Socket!OpenOf = {} => Socket!Orphans = {})
  BY DEF Socket!Orphans, Socket!OpenOf
<1>7. \A i \in {1, 2} : Socket!Lost(i) => i \in Socket!Live
  BY DEF Socket!Lost, Socket!Live
<1>8. CASE Socket!InitRefused
  <2>1. /\ fd \in class.refuses /\ misuse' = (misuse \/ up)
        /\ harm' = IF up THEN harm ELSE harm \cup {"refused"}
        /\ UNCHANGED <<class, fd, owner, addr, up, failed>>
    BY <1>8 DEF Socket!InitRefused, Socket!Refuses
  <2>2. UNCHANGED <<Socket!OpenOf, Socket!Live, Socket!Refuses>>
    BY <2>1 DEF Socket!OpenOf, Socket!Live, Socket!Refuses
  <2>3. Socket!Remembered' BY <1>2, <2>1, <2>2 DEF Socket!Remembered
  <2>4. Socket!Orderly' BY <1>2, <2>1, <2>2 DEF Socket!Orderly
  <2>5. Socket!OrderlyUse'
    <3>1. ASSUME ~misuse', ~failed' PROVE class.name = "FtpClient"
      BY <1>2, <1>5, <2>1, <3>1 DEF Socket!Orderly
    <3> QED BY <1>3, <2>1, <3>1 DEF Socket!OrderlyUse
  <2>6. Socket!NoDescriptorLost' /\ Socket!OthersUntouched'
    BY <1>3, <2>1 DEF Socket!NoDescriptorLost, Socket!OthersUntouched
  <2> QED
    BY <1>1, <2>1, <2>2, <2>3, <2>4, <2>5, <2>6 DEF Socket!Held, Socket!DescriptorsKept
<1>9. CASE Socket!InitSucceeds
  <2>1. PICK l \in Socket!Fds : owner[l] = "nobody" /\ l = Socket!Lowest
    BY <1>9, LowestIsFree DEF Socket!InitSucceeds
  <2>2. /\ ~Socket!Refuses /\ fd' = l /\ owner' = [owner EXCEPT ![l] = "object"]
        /\ addr' = [i \in {1, 2} |-> IF class.addresses[i] = 1 THEN "live" ELSE addr[i]]
        /\ harm' = harm \cup Socket!Orphans
                     \cup (IF \E i \in {1, 2} : Socket!Lost(i) THEN {"leak"} ELSE {})
        /\ misuse' = (misuse \/ up) /\ up' = TRUE /\ UNCHANGED <<class, failed>>
    BY <1>9, <2>1 DEF Socket!InitSucceeds
  <2>3. Socket!OpenOf' = Socket!OpenOf \cup {l}
    BY <1>1, <2>1, <2>2 DEF Socket!OpenOf
  <2>4. class.refuses # {} => l \in class.refuses
    BY <1>2, <1>4, <1>5, <2>1 DEF Socket!Remembered
  <2>5. Socket!OpenOf = {} /\ Socket!Live = {} => harm' = harm
    BY <1>6, <1>7, <2>2
  <2>6. harm' \subseteq harm \cup {"leak"} BY <1>6, <2>2
  <2>7. class.refuses # {} => Socket!OpenOf = {} /\ Socket!Live = {}
    BY <1>2, <2>2 DEF Socket!Remembered
  <2>8. Socket!Remembered'
    <3>1. l # 0 => owner'[0] = owner[0] BY <1>1, <1>5, <2>2
    <3> QED
      BY <1>2, <1>4, <2>2, <2>3, <2>4, <2>7, <3>1 DEF Socket!Remembered, Socket!Refuses
  <2>9. Socket!Orderly'
    <3>1. ASSUME ~misuse', ~failed'
          PROVE  /\ l \notin class.spares /\ Socket!OpenOf = {}
                 /\ \A i \in {1, 2} : addr'[i] # "deleted"
      <4>1. ~misuse /\ ~failed /\ ~up BY <2>2, <3>1
      <4>2. Socket!OpenOf = {} BY <1>2, <4>1 DEF Socket!Orderly
      <4>3. l \notin class.spares
        BY <1>4, <1>5, <2>1, <2>4
      <4>4. \A i \in {1, 2} : addr'[i] # "deleted" BY <1>1, <1>4, <2>2
      <4> QED BY <4>2, <4>3, <4>4
    <3> QED BY <2>1, <2>2, <2>3, <3>1 DEF Socket!Orderly
  <2>10. Socket!OrderlyUse'
    <3>1. ASSUME ~misuse', ~failed' PROVE harm' = harm /\ ~misuse /\ ~failed
      BY <1>2, <2>2, <2>5, <3>1 DEF Socket!Orderly
    <3> QED BY <1>3, <2>2, <3>1 DEF Socket!OrderlyUse
  <2>11. Socket!NoDescriptorLost' /\ Socket!OthersUntouched'
    BY <1>3, <2>2, <2>5, <2>6, <2>7 DEF Socket!NoDescriptorLost, Socket!OthersUntouched
  <2>12. /\ owner' \in [Socket!Fds -> {"nobody", "object", "other"}]
         /\ addr' \in [{1, 2} -> {"null", "live", "deleted"}]
         /\ \A i \in {1, 2} : class.addresses[i] = 0 => addr'[i] = "null"
    BY <1>1, <1>4, <2>1, <2>2
  <2>13. fd' \in Socket!Numbers BY <1>5, <2>1, <2>2
  <2> QED
    BY <1>1, <2>2, <2>3, <2>8, <2>9, <2>10, <2>11, <2>12, <2>13
       DEF Socket!Held, Socket!DescriptorsKept
<1>10. CASE Socket!InitFails
  <2>1. PICK l \in Socket!Fds : owner[l] = "nobody" /\ l = Socket!Lowest
    BY <1>10, LowestIsFree DEF Socket!InitFails
  <2>2. /\ ~Socket!Refuses /\ fd' = l
        /\ owner' = IF class.closesOnFailure THEN owner ELSE [owner EXCEPT ![l] = "object"]
        /\ addr' = IF class.addresses[1] = 1 THEN [addr EXCEPT ![1] = "live"] ELSE addr
        /\ harm' = harm \cup Socket!Orphans \cup (IF Socket!Lost(1) THEN {"leak"} ELSE {})
        /\ misuse' = (misuse \/ up) /\ failed' = TRUE /\ UNCHANGED <<class, up>>
    BY <1>10, <2>1 DEF Socket!InitFails, Socket!Allocate
  <2>3. class.refuses # {} => l \in class.refuses /\ Socket!OpenOf = {} /\ Socket!Live = {}
    BY <1>2, <1>4, <1>5, <2>1, <2>2 DEF Socket!Remembered
  <2>4. class.refuses # {} => owner' = owner /\ Socket!OpenOf' = Socket!OpenOf
    BY <1>4, <2>2 DEF Socket!OpenOf
  <2>5. Socket!Remembered'
    BY <1>2, <2>2, <2>3, <2>4 DEF Socket!Remembered, Socket!Refuses
  <2>6. Socket!Orderly' /\ Socket!OrderlyUse'
    BY <2>2 DEF Socket!Orderly, Socket!OrderlyUse
  <2>7. harm' \subseteq harm \cup {"leak"} /\ (class.refuses # {} => harm' = harm)
    BY <1>6, <1>7, <2>2, <2>3
  <2>8. Socket!NoDescriptorLost' /\ Socket!OthersUntouched'
    BY <1>3, <2>2, <2>7 DEF Socket!NoDescriptorLost, Socket!OthersUntouched
  <2>9. /\ owner' \in [Socket!Fds -> {"nobody", "object", "other"}]
        /\ addr' \in [{1, 2} -> {"null", "live", "deleted"}]
        /\ \A i \in {1, 2} : class.addresses[i] = 0 => addr'[i] = "null"
    BY <1>1, <1>4, <2>1, <2>2
  <2>10. class.name = "TCPSocket" => fd' \in Socket!OpenOf'
    BY <1>1, <1>4, <2>1, <2>2 DEF Socket!OpenOf
  <2>11. fd' \in Socket!Numbers BY <1>5, <2>1, <2>2
  <2> QED
    BY <1>1, <2>2, <2>5, <2>6, <2>8, <2>9, <2>10, <2>11
       DEF Socket!Held, Socket!DescriptorsKept
<1>11. CASE Socket!InitGetsNone \/ Socket!InitFindsNoAddress
  <2>1. /\ failed' = TRUE /\ misuse' = (misuse \/ up) /\ UNCHANGED <<class, owner, addr, up>>
        /\ \/ fd' = -1 /\ ~Socket!Refuses /\ harm' = harm \cup Socket!Orphans
           \/ UNCHANGED <<fd, harm>>
    BY <1>11 DEF Socket!InitGetsNone, Socket!InitFindsNoAddress
  <2>2. UNCHANGED <<Socket!OpenOf, Socket!Live>> BY <2>1 DEF Socket!OpenOf, Socket!Live
  <2>3. Socket!Remembered' BY <1>2, <1>5, <2>1, <2>2 DEF Socket!Remembered, Socket!Refuses
  <2>4. Socket!Orderly' /\ Socket!OrderlyUse'
    BY <2>1 DEF Socket!Orderly, Socket!OrderlyUse
  <2>5. harm' \subseteq harm \cup {"leak"} /\ (class.refuses # {} => harm' = harm)
    BY <1>2, <1>6, <2>1 DEF Socket!Remembered
  <2>6. Socket!NoDescriptorLost' /\ Socket!OthersUntouched'
    BY <1>3, <2>1, <2>5 DEF Socket!NoDescriptorLost, Socket!OthersUntouched
  <2>7. fd' \in Socket!Numbers BY <1>1, <1>5, <2>1
  <2> QED
    BY <1>1, <2>1, <2>2, <2>3, <2>4, <2>6, <2>7 DEF Socket!Held, Socket!DescriptorsKept
<1>12. CASE Socket!Deinit
  <2>1. /\ owner' = IF Socket!Closes(fd) THEN [owner EXCEPT ![fd] = "nobody"] ELSE owner
        /\ fd' = IF fd = -1 THEN fd ELSE class.after
        /\ addr' = [i \in {1, 2} |-> IF addr[i] = "live" THEN "deleted" ELSE addr[i]]
        /\ harm' = harm
             \cup (IF Socket!Closes(fd) /\ owner[fd] = "other" THEN {"stranger"} ELSE {})
             \cup (IF \E i \in {1, 2} : addr[i] = "deleted" THEN {"double delete"} ELSE {})
        /\ misuse' = (misuse \/ ~up) /\ up' = FALSE /\ UNCHANGED <<class, failed>>
    BY <1>12 DEF Socket!Deinit, Socket!AfterDeinit
  <2>2. Socket!Closes(fd) <=>
          fd \in Socket!Fds /\ fd \notin class.spares /\ owner[fd] # "nobody"
    BY DEF Socket!Closes
  <2>3. Socket!OpenOf' = IF Socket!Closes(fd) THEN Socket!OpenOf \ {fd} ELSE Socket!OpenOf
    BY <1>1, <2>1, <2>2 DEF Socket!OpenOf
  <2>4. Socket!Live' = {} BY <2>1 DEF Socket!Live
  <2>5. \A n \in Socket!OpenOf : n \in Socket!Fds /\ owner[n] = "object"
    BY DEF Socket!OpenOf
  <2>6. class.refuses # {} => Socket!OpenOf' = {}
    <3>1. ASSUME class.refuses # {}, fd \in Socket!OpenOf PROVE Socket!Closes(fd)
      <4>1. fd \in class.refuses BY <1>2, <3>1 DEF Socket!Remembered, Socket!Refuses
      <4>2. fd \notin class.spares BY <1>4, <1>5, <4>1
      <4> QED BY <2>2, <2>5, <3>1, <4>2
    <3>2. class.refuses # {} => Socket!OpenOf \subseteq {fd} BY <1>2 DEF Socket!Remembered
    <3> QED BY <2>3, <3>1, <3>2
  <2>7. (class.refuses # {} /\ class.name # "FtpClient" /\ owner[0] = "other") =>
          owner'[0] = "other"
    BY <1>1, <1>4, <1>5, <2>1, <2>2
  <2>8. Socket!Remembered' BY <1>2, <2>1, <2>4, <2>6, <2>7 DEF Socket!Remembered
  <2>9. Socket!Orderly'
    <3>1. ASSUME ~misuse', ~failed' PROVE Socket!OpenOf' = {}
      <4>1. up /\ ~misuse /\ ~failed BY <1>1, <2>1, <3>1
      <4>2. fd \in Socket!Fds \ class.spares /\ Socket!OpenOf = {fd}
        BY <1>2, <4>1 DEF Socket!Orderly
      <4>3. Socket!Closes(fd) BY <2>2, <2>5, <4>2
      <4> QED BY <2>3, <4>2, <4>3
    <3>2. fd' = -1 \/ class.name = "FtpClient" BY <1>4, <2>1
    <3> QED BY <2>1, <2>4, <3>1, <3>2 DEF Socket!Orderly
  <2>10. Socket!OrderlyUse'
    <3>1. ASSUME ~misuse', ~failed' PROVE harm' = harm /\ ~misuse /\ ~failed
      <4>1. up /\ ~misuse /\ ~failed BY <1>1, <2>1, <3>1
      <4>2. Socket!OpenOf = {fd} /\ \A i \in {1, 2} : addr[i] # "deleted"
        BY <1>2, <4>1 DEF Socket!Orderly
      <4>3. owner[fd] = "object" BY <2>5, <4>2
      <4> QED BY <2>1, <4>1, <4>2, <4>3
    <3> QED BY <1>3, <2>1, <3>1 DEF Socket!OrderlyUse
  <2>11. Socket!NoDescriptorLost'
    BY <1>3, <2>1 DEF Socket!NoDescriptorLost
  <2>12. Socket!OthersUntouched'
    <3>1. ASSUME class.name = "TCPSocket" PROVE harm' = harm
      <4>1. \A i \in {1, 2} : addr[i] # "deleted" BY <1>1, <1>4, <3>1
      <4>2. Socket!Closes(fd) => owner[fd] = "object" BY <1>1, <1>5, <2>2, <2>5, <3>1
      <4> QED BY <2>1, <4>1, <4>2
    <3> QED BY <1>3, <2>1, <3>1 DEF Socket!OthersUntouched
  <2>13. /\ owner' \in [Socket!Fds -> {"nobody", "object", "other"}]
         /\ addr' \in [{1, 2} -> {"null", "live", "deleted"}]
         /\ \A i \in {1, 2} : class.addresses[i] = 0 => addr'[i] = "null"
    BY <1>1, <2>1
  <2>14. fd' \in Socket!Numbers /\ (class.name = "TCPSocket" => fd' = -1)
    BY <1>4, <1>5, <2>1
  <2> QED
    BY <1>1, <2>1, <2>8, <2>9, <2>10, <2>11, <2>12, <2>13, <2>14
       DEF Socket!Held, Socket!DescriptorsKept
<1>13. CASE Socket!OtherOpens \/ \E n \in Socket!Fds : Socket!OtherCloses(n)
  <2>1. /\ UNCHANGED <<class, fd, addr, up, misuse, failed, harm>>
        /\ \E n \in Socket!Fds :
             \/ owner[n] = "nobody" /\ owner' = [owner EXCEPT ![n] = "other"]
             \/ n # 0 /\ owner[n] = "other" /\ owner' = [owner EXCEPT ![n] = "nobody"]
    BY <1>13, LowestIsFree DEF Socket!OtherOpens, Socket!OtherCloses
  <2>2. PICK n \in Socket!Fds :
          \/ owner[n] = "nobody" /\ owner' = [owner EXCEPT ![n] = "other"]
          \/ n # 0 /\ owner[n] = "other" /\ owner' = [owner EXCEPT ![n] = "nobody"]
    BY <2>1
  <2>3. UNCHANGED <<Socket!OpenOf, Socket!Live, Socket!Refuses>>
    BY <1>1, <2>1, <2>2 DEF Socket!OpenOf, Socket!Live, Socket!Refuses
  <2>4. owner[0] = "other" => owner'[0] = "other" BY <1>1, <1>5, <2>2
  <2>5. Socket!Remembered' /\ Socket!Orderly'
    BY <1>2, <2>1, <2>3, <2>4 DEF Socket!Remembered, Socket!Orderly
  <2>6. owner' \in [Socket!Fds -> {"nobody", "object", "other"}] BY <1>1, <2>2
  <2>7. Socket!DescriptorsKept'
    BY <1>3, <2>1 DEF Socket!DescriptorsKept, Socket!OrderlyUse, Socket!NoDescriptorLost,
                      Socket!OthersUntouched
  <2> QED BY <1>1, <2>1, <2>3, <2>5, <2>6, <2>7 DEF Socket!Held
<1>14. CASE UNCHANGED Socket!vars
  <2>1. UNCHANGED <<class, fd, owner, addr, up, misuse, failed, harm>>
    BY <1>14 DEF Socket!vars
  <2> QED
    BY <2>1 DEF Socket!Held, Socket!Remembered, Socket!Orderly, Socket!OpenOf, Socket!Live,
                Socket!Refuses, Socket!DescriptorsKept, Socket!OrderlyUse,
                Socket!NoDescriptorLost, Socket!OthersUntouched
<1> QED
  BY <1>8, <1>9, <1>10, <1>11, <1>12, <1>13, <1>14 DEF Socket!Next

LEMMA HeldMeans == Socket!Held => Socket!DescriptorsKept
PROOF BY DEF Socket!Held

\* Descriptors and addresses of the six socket classes: whatever the order of init,
\* failed init and deinit, and however often.
THEOREM DescriptorsKeptHolds == Spec => []DescriptorsKept
PROOF
<1> DEFINE Inv == Is("socket") => Socket!Held
<1>1. Init => Inv BY Chosen, HeldInit
<1>2. Inv /\ [Next]_vars => Inv' BY Alone, HeldStep DEF Is
<1>3. Inv => DescriptorsKept BY HeldMeans DEF DescriptorsKept
<1> QED BY <1>1, <1>2, <1>3, PTL DEF Spec
====================================================================================
