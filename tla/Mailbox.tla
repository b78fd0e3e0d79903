------------------------------- MODULE Mailbox -------------------------------
(***************************************************************************)
(* What a shared-memory channel (ShareVideo, ShareAudio, ShareTalk)        *)
(* promises to the two processes that use it: a box that holds at most one *)
(* frame.  A frame put into the empty box stays there, whole, until it has *)
(* been handed to the consumer's callback at least once; only then may the *)
(* box be emptied.  A frame may be handed over again before it is cleared  *)
(* (a consumer that died between its callback and the clearing store sees  *)
(* the frame again when it is restarted); nothing else may happen.         *)
(***************************************************************************)
EXTENDS Naturals

CONSTANTS Frames,     \* the frames a producer may send
          NoFrame     \* the content of an empty box

VARIABLES box,        \* the frame in the box, or NoFrame
          last,       \* the frame most recently handed to the callback
          handed      \* how often the frame in the box has been handed over

vars == <<box, last, handed>>

TypeOK == /\ box \in Frames \cup {NoFrame}
          /\ last \in Frames \cup {NoFrame}
          /\ handed \in Nat

Init == box = NoFrame /\ last = NoFrame /\ handed = 0

Put == /\ box = NoFrame
       /\ box' \in Frames
       /\ handed' = 0
       /\ UNCHANGED last

HandOver == /\ box # NoFrame
            /\ last' = box
            /\ handed' = handed + 1
            /\ UNCHANGED box

Clear == /\ handed > 0
         /\ last = box
         /\ box' = NoFrame
         /\ UNCHANGED <<last, handed>>

Next == Put \/ HandOver \/ Clear

Spec == Init /\ [][Next]_vars
==============================================================================
