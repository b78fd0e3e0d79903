-------------------------------- MODULE FtpSession --------------------------------
(***************************************************************************)
(* The dialogue of FtpClient with a server: login and upload send one      *)
(* command after the other and read after each.  recvData is told the size *)
(* of a pointer, not of the buffer, and reads that many bytes one by one,  *)
(* however long the reply is; and the server speaks first.  That no        *)
(* message is shorter than such a read is assumed of the server.           *)
(*                                                                         *)
(* The stream from the server is a sequence of units, each the number of   *)
(* the message it belongs to: 0 is the greeting, n the reply to command n. *)
(***************************************************************************)
EXTENDS Integers, Sequences

CONSTANTS
  Chunk,     \* the size of a pointer, in units of the stream
  MaxUnits   \* bound: units of a message, none is shorter than Chunk

FtpAssumption == Chunk \in Nat \ {0} /\ MaxUnits \in Nat

Login == <<"AUTH", "USER", "PASS">>
Upload == <<"TYPE", "STOR">>

VARIABLES
  commands,  \* the session: login, or login and upload
  pc,        \* where the client is
  cmd,       \* the command it is at
  got,       \* units recvData has read for it
  newest,    \* the newest message among these, -1 if none
  stream,    \* units sent by the server and not read
  said,      \* messages the server has sent
  heard,     \* commands that have reached it
  peer       \* "absent", "up", "closed" by the server; "reset": an error waits for the
             \* client's next call; "broken": it was reported, or came after the end

vars == <<commands, pc, cmd, got, newest, stream, said, heard, peer>>

Init ==
  /\ commands \in {Login, Login \o Upload}
  /\ pc = "init" /\ cmd = 1 /\ got = 0 /\ newest = -1
  /\ stream = <<>> /\ said = 0 /\ heard = 0 /\ peer \in {"absent", "up"}

server == <<said, peer>>

-------------------------------------------------------------------------------
(* Steps with a plausible bug.  They are not part of the specification: each   *)
(* one in the place of its original is what some property has to catch.        *)

\* The whole buffer is asked for.
AskedBuffer == 4 * Chunk

-------------------------------------------------------------------------------
(* The client: init, sendData, recvData, login, upload, main *)

\* init may fail; that connect fails it does not notice.
Connect ==
  /\ pc = "init"
  /\ pc' \in {"send", "failed"}
  /\ UNCHANGED <<commands, cmd, got, newest, stream, heard>> /\ UNCHANGED server

\* The error of a reset since the last call is reported and ends the session.  Without
\* one to report, sending on what is no connection kills the process (SIGPIPE).  The
\* first command after the server's end still goes out.
SendData ==
  /\ pc = "send"
  /\ \/ peer \in {"absent", "broken"} /\ pc' = "killed" /\ UNCHANGED <<heard, peer>>
     \/ peer = "reset" /\ pc' = "failed" /\ peer' = "broken" /\ UNCHANGED heard
     \/ peer = "up" /\ pc' = "recv" /\ heard' = cmd /\ UNCHANGED peer
     \/ peer = "closed" /\ pc' = "recv" /\ UNCHANGED <<heard, peer>>
  /\ got' = 0 /\ newest' = -1
  /\ UNCHANGED <<commands, cmd, stream, said>>

\* sizeof(buf) of a char *.
Asked == Chunk

RecvByte ==
  /\ pc = "recv" /\ got < Asked /\ stream # <<>>
  /\ stream' = Tail(stream) /\ got' = got + 1 /\ newest' = Head(stream)
  /\ UNCHANGED <<commands, pc, cmd, heard>> /\ UNCHANGED server

\* All that was asked for is there, or recv reports the end or, once, an error;
\* recvData returns 0 in any case.
RecvReturns ==
  /\ pc = "recv"
  /\ \/ got = Asked /\ UNCHANGED peer
     \/ /\ got < Asked /\ stream = <<>> /\ peer # "up"
        /\ peer' = IF peer = "reset" THEN "broken" ELSE peer
  /\ IF cmd = Len(commands) THEN pc' = "done" /\ cmd' = cmd
                            ELSE pc' = "send" /\ cmd' = cmd + 1
  /\ UNCHANGED <<commands, got, newest, stream, said, heard>>

-------------------------------------------------------------------------------
(* The server *)

Speaks ==
  /\ peer = "up" /\ pc # "init" /\ said <= heard
  /\ \E n \in Chunk..MaxUnits : stream' = stream \o [i \in 1..n |-> said]
  /\ said' = said + 1
  /\ UNCHANGED <<commands, pc, cmd, got, newest, heard, peer>>

Closes ==
  /\ peer = "up" /\ pc # "init"
  /\ peer' = "closed"
  /\ UNCHANGED <<commands, pc, cmd, got, newest, stream, said, heard>>

\* Of what has not been read a part may be lost.  After the server's end the reset is
\* reported as EPIPE if the end was taken in before, else as any other.
Resets ==
  /\ peer \in {"up", "closed"} /\ pc # "init"
  /\ peer' = "reset" \/ (peer = "closed" /\ peer' = "broken")
  /\ \E n \in 0..Len(stream) : stream' = SubSeq(stream, 1, n)
  /\ UNCHANGED <<commands, pc, cmd, got, newest, said, heard>>

-------------------------------------------------------------------------------

Client == Connect \/ SendData \/ RecvByte \/ RecvReturns
Next == Client \/ Speaks \/ Closes \/ Resets

Spec == Init /\ [][Next]_vars

-------------------------------------------------------------------------------
(* Properties *)

\* What login reads behind a command belongs to an earlier message, never to the reply
\* to this command: the greeting is in the way, so whether the password was accepted
\* it cannot know.
AnswersLag == (pc = "recv" /\ got > 0) => newest < cmd

\* Client and server never wait for each other: when the client waits for more and
\* nothing is on its way, the server has heard a command, or has a greeting to say,
\* that it has not answered yet.
NeverBothWait ==
  (pc = "recv" /\ got < Asked /\ stream = <<>> /\ peer = "up") => said <= heard

\* The two sides of reading little: the dialogue is behind, and does not hang.
RepliesBehind == AnswersLag /\ NeverBothWait

-------------------------------------------------------------------------------
(* The invariant the proof needs *)

\* Units of the stream the client has read, at most.
Read == (cmd - 1) * Chunk + IF pc \in {"recv", "done"} THEN got ELSE 0

Shape ==
  /\ commands \in {Login, Login \o Upload}
  /\ pc \in {"init", "send", "recv", "done", "failed", "killed"}
  /\ cmd \in 1..Len(commands) /\ got \in 0..Chunk /\ newest \in Int
  /\ stream \in Seq(Nat) /\ said \in Nat /\ heard \in Nat
  /\ peer \in {"absent", "up", "closed", "reset", "broken"}

\* No message is shorter than a read: a unit is as late as its message times Chunk.
Late == \A i \in 1..Len(stream) : stream[i] * Chunk <= Read + i - 1
SaidLate == peer = "up" => said * Chunk <= Read + Len(stream)
NewestLate == (pc = "recv" /\ got > 0) => newest * Chunk <= Read - 1
Heard == (pc = "recv" /\ peer = "up") => heard = cmd

Lagging == Shape /\ Late /\ SaidLate /\ NewestLate /\ Heard
===============================================================================
