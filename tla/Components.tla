--------------------------------- MODULE Components ---------------------------------
(***************************************************************************)
(* The components that share nothing with each other, in one               *)
(* specification: the initial state chooses one of them, and it runs       *)
(* alone.  They take turns in the same variables, which mean what the      *)
(* substitutions say; those the chosen component does not need stay        *)
(* "unused".                                                               *)
(***************************************************************************)
EXTENDS Integers, Sequences

CONSTANTS
  MaxMoves,              \* GpsUpload
  MaxEdits, MaxFaults,   \* GatewayParams
  Default, Edited, Cut,
  Modulus, Room,         \* FrameLayout
  MaxData, MaxOpens,     \* BroadCast
  MaxFd, MaxCalls,       \* TcpServer; MaxCalls also SocketObject
  Chunk, MaxUnits,       \* FtpSession
  Devices                \* Discovery

VARIABLES which, v1, v2, v3, v4, v5, v6, v7, v8, v9, v10, v11

Gps == INSTANCE GpsUpload WITH
  here <- v1, asked <- v2, answer <- v3, storing <- v4, lng <- v5, lat <- v6,
  bGpsUpload <- v7, gps <- v8, readLat <- v9, sent <- v10

Params == INSTANCE GatewayParams WITH
  prog <- v1, file <- v2, map <- v3, pc <- v4, ret <- v5, given <- v6,
  edits <- v7, faults <- v8, semicolons <- v9

Process == INSTANCE Assembly WITH
  prog <- v1, pc <- v2, k <- v3, obj <- v4, ops <- v5, isStart <- v6, sender <- v7,
  recv <- v8, daemon <- v9, free <- v10, wrong <- v11

Frame == INSTANCE FrameLayout WITH
  len <- v1, dataLen <- v2, state <- v3, slot <- v4

Cast == INSTANCE BroadCast WITH
  mode <- v1, m_fdBlock <- v2, nonblock <- v3, pc <- v4, data <- v5, result <- v6, opens <- v7,
  room <- v8, came <- v9

Socket == INSTANCE SocketObject WITH
  class <- v1, fd <- v2, owner <- v3, addr <- v4, up <- v5, calls <- v6,
  misuse <- v7, failed <- v8, harm <- v9

Tcp == INSTANCE TcpServer WITH
  m_socketFd <- v1, m_accepts <- v2, owner <- v3, gone <- v4, known <- v5, valid <- v6,
  alive <- v7, calls <- v8, stale <- v9, stolen <- v10

Ftp == INSTANCE FtpSession WITH
  commands <- v1, pc <- v2, cmd <- v3, got <- v4, newest <- v5, stream <- v6,
  said <- v7, heard <- v8, peer <- v9

Finder == INSTANCE Discovery WITH
  m_running <- v1, open <- v2, receive <- v3, msg <- v4, found <- v5, client <- v6, net <- v7

\* What the components assume of their constants.
ASSUME ComponentsAssumption ==
  /\ Params!ParamsAssumption /\ Frame!LayoutAssumption /\ Cast!BroadCastAssumption /\ Ftp!FtpAssumption
  /\ {MaxMoves, MaxEdits, MaxFaults, MaxFd, MaxCalls} \subseteq Nat

vars == <<which, v1, v2, v3, v4, v5, v6, v7, v8, v9, v10, v11>>

Is(component) == which = component

Init ==
  \/ Is("gps") /\ Gps!Init /\ v11 = "unused"
  \/ Is("params") /\ Params!Init /\ v10 = "unused" /\ v11 = "unused"
  \/ Is("process") /\ Process!Init
  \/ Is("frame") /\ Frame!Init /\ v5 = "unused" /\ v6 = "unused" /\ v7 = "unused"
       /\ v8 = "unused" /\ v9 = "unused" /\ v10 = "unused" /\ v11 = "unused"
  \/ Is("cast") /\ Cast!Init
       /\ v10 = "unused" /\ v11 = "unused"
  \/ Is("socket") /\ Socket!Init /\ v10 = "unused" /\ v11 = "unused"
  \/ Is("tcp") /\ Tcp!Init /\ v11 = "unused"
  \/ Is("ftp") /\ Ftp!Init /\ v10 = "unused" /\ v11 = "unused"
  \/ Is("finder") /\ Finder!Init
       /\ v8 = "unused" /\ v9 = "unused" /\ v10 = "unused" /\ v11 = "unused"

Next ==
  \/ Is("gps") /\ Gps!Next /\ UNCHANGED <<which, v11>>
  \/ Is("params") /\ Params!Next /\ UNCHANGED <<which, v10, v11>>
  \/ Is("process") /\ Process!Next /\ UNCHANGED which
  \/ Is("frame") /\ Frame!Next /\ UNCHANGED <<which, v5, v6, v7, v8, v9, v10, v11>>
  \/ Is("cast") /\ Cast!Next /\ UNCHANGED <<which, v10, v11>>
  \/ Is("socket") /\ Socket!Next /\ UNCHANGED <<which, v10, v11>>
  \/ Is("tcp") /\ Tcp!Next /\ UNCHANGED <<which, v11>>
  \/ Is("ftp") /\ Ftp!Next /\ UNCHANGED <<which, v10, v11>>
  \/ Is("finder") /\ Finder!Next /\ UNCHANGED <<which, v8, v9, v10, v11>>

(* Fairness: that of the chosen component's specification.                    *)
gpsVars == Gps!vars
paramsVars == Params!vars
processVars == Process!vars
finderVars == Finder!vars

Fairness ==
  /\ WF_gpsVars(Is("gps") /\ Gps!GpsStep)
  /\ SF_gpsVars(Is("gps") /\ Gps!Ask /\ v2')
  /\ WF_gpsVars(Is("gps") /\ Gps!Answers)
  /\ SF_gpsVars(Is("gps") /\ Gps!StoreLongitude)
  /\ WF_gpsVars(Is("gps") /\ Gps!StoreLatitude)
  /\ WF_paramsVars(Is("params") /\ Params!Start)
  /\ WF_processVars(Is("process") /\ Process!RemoveQueue)
  /\ WF_processVars(Is("process") /\ Process!ReceiverStep)
  /\ WF_processVars(Is("process") /\ Process!DaemonStep)
  /\ WF_processVars(Is("process") /\ Process!SenderStep)
  /\ WF_finderVars(Is("finder") /\ Finder!Thread)
  /\ WF_finderVars(Is("finder") /\ Finder!StopCloses)
  /\ \A d \in Devices :
       /\ WF_finderVars(Is("finder") /\ Finder!Inits(d))
       /\ SF_finderVars(Is("finder") /\ Finder!Answers(d)
                          /\ Finder!For("server", Finder!Answer(d)) \in v7')
       /\ SF_finderVars(Is("finder") /\ Finder!Receives /\ v4' = <<Finder!Answer(d)>>)

Spec == Init /\ [][Next]_vars /\ Fairness

-------------------------------------------------------------------------------
(* Each component's properties, under their own names                          *)

\* An upload mixes two positions in one way only (GpsUpload).
MixedOneWay == Is("gps") => Gps!MixedOneWay
\* Every position the camera stays at is uploaded (GpsUpload).
PositionArrives ==
  \A p \in 0..MaxMoves : (Is("gps") /\ Gps!StandsAt(p)) ~> (Is("gps") /\ Gps!Uploaded(p))
\* The parameters in use are genuine and those of the file (GatewayParams).
ParametersTrue == Is("params") => Params!ParametersTrue
\* The gateway comes up whatever the file holds (GatewayParams).
ComesUp == <>(Is("params") => Params!Running)
\* Who uses what when it is gone (Assembly).
WrongUses == Is("process") => Process!WrongUses
\* Neither deinit nor the daemon waits for ever (Assembly).
NobodyStuck ==
  /\ (Is("process") /\ Process!JoinsCallback) ~> ~(Is("process") /\ Process!JoinsCallback)
  /\ (Is("process") /\ Process!Refused) ~> ~(Is("process") /\ Process!Refused)
\* A frame arrives whole or cut at the slot's end (FrameLayout).
WholeOrCut == Is("frame") => Frame!WholeOrCut
\* What to expect of two threads on one descriptor (BroadCast).
SharedSocket == Is("cast") => Cast!SharedSocket
\* What can go wrong with descriptors and addresses (SocketObject).
DescriptorsKept == Is("socket") => Socket!DescriptorsKept
\* The list of accepted connections is exact (TcpServer).
AcceptsExact == Is("tcp") => Tcp!AcceptsExact
\* The replies are behind the commands, and nobody waits for ever (FtpSession).
RepliesBehind == Is("ftp") => Ftp!RepliesBehind
\* A device that stays up is found (Discovery).
SearchFinds ==
  \A d \in Devices :
    [](Is("finder") /\ Finder!Searching) /\ []<>(Is("finder") /\ Finder!Asked(d))
      /\ <>[](Is("finder") /\ Finder!Up(d)) => <>(Is("finder") /\ Finder!Found(d))
\* stop ends the detached thread (Discovery).
ThreadEnds == (Is("finder") /\ Finder!Leaving) ~> ~(Is("finder") /\ Finder!Leaving)
===============================================================================
