---------------------------- MODULE ChannelClasses ----------------------------
(***************************************************************************)
(* ShareVideo, ShareAudio and ShareTalk are three copies of one protocol;  *)
(* these records hold everything in which their send and recv differ as    *)
(* far as the protocol is concerned.                                       *)
(*   sendMax, sendStep    send: maxWaitReadFlg and the step of waitReadCnt *)
(*   recvMax, recvStep    recv: the same                                   *)
(*   recvStrict           recv gives up on waitReadCnt > maxWaitReadFlg    *)
(*                        instead of >=                                    *)
(*   cntAtTake            recv clears m_waitRecvFailedCnt when it gets the *)
(*                        permit instead of when it delivered a frame      *)
(*   maxCnt               __MAX_CNT__                                      *)
(***************************************************************************)
EXTENDS Naturals

VideoClass == [sendMax |-> 60, sendStep |-> 5, recvMax |-> 60, recvStep |-> 5,
               recvStrict |-> FALSE, cntAtTake |-> TRUE, maxCnt |-> 3]

AudioClass == [sendMax |-> 200, sendStep |-> 2, recvMax |-> 200, recvStep |-> 10,
               recvStrict |-> FALSE, cntAtTake |-> TRUE, maxCnt |-> 3]

TalkClass == [sendMax |-> 200, sendStep |-> 2, recvMax |-> 200, recvStep |-> 10,
              recvStrict |-> TRUE, cntAtTake |-> FALSE, maxCnt |-> 3]

IsClass(c) ==
  /\ {c.sendMax, c.recvMax, c.maxCnt} \subseteq Nat
  /\ {c.sendStep, c.recvStep} \subseteq Nat \ {0}
  /\ {c.recvStrict, c.cntAtTake} \subseteq BOOLEAN

\* The same class with patience for two naps only, for small instances.
Impatient(c) == [c EXCEPT !.sendMax = 2 * c.sendStep, !.recvMax = c.recvStep]
===============================================================================
