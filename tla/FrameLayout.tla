-------------------------------- MODULE FrameLayout --------------------------------
(***************************************************************************)
(* What send does with a frame's length: len is a signed number that is    *)
(* compared with the slot's room after its conversion to unsigned, and     *)
(* dataLen is what recv tells its callback.  The slot keeps the bytes of   *)
(* earlier frames where a new one does not reach.                          *)
(***************************************************************************)
EXTENDS Integers

CONSTANTS
  Modulus,  \* the values of an unsigned int
  Room      \* m_size - headLen

LayoutAssumption == Modulus \in Nat /\ Room \in Nat /\ 2 * Room < Modulus

Lengths == {len \in -Modulus..Modulus : -Modulus <= 2 * len /\ 2 * len < Modulus}

VARIABLES
  len,      \* the length the sender gave for the frame in the slot
  dataLen,  \* head->dataLen
  state,    \* head->state
  slot      \* for each byte of the slot the number of the frame it is from

vars == <<len, dataLen, state, slot>>

Init == len = 0 /\ dataLen = 0 /\ state = 0 /\ slot = [i \in 1..Room |-> 0]

-------------------------------------------------------------------------------
(* Steps with a plausible bug.  They are not part of the specification: each   *)
(* one in the place of its original is what some property has to catch.        *)

\* The comparison is one of signed numbers.
WrittenSigned(l) == IF l > Room THEN Room ELSE l

-------------------------------------------------------------------------------

Unsigned(l) == IF l < 0 THEN l + Modulus ELSE l
Written(l) == IF Unsigned(l) > Room THEN Room ELSE Unsigned(l)

\* Frames are numbered 1 and 2 in turn: enough to tell a byte from an earlier frame's.
Send(l) ==
  /\ state = 0
  /\ len' = l /\ dataLen' = Written(l) /\ state' = 1
  /\ slot' = LET this == IF slot = [i \in 1..Room |-> 0] THEN 1 ELSE 3 - slot[1]
             IN [i \in 1..Room |-> IF i <= Written(l) THEN this ELSE slot[i]]

Recv ==
  /\ state = 1
  /\ state' = 0
  /\ UNCHANGED <<len, dataLen, slot>>

Next == (\E l \in Lengths : Send(l)) \/ Recv
Spec == Init /\ [][Next]_vars

-------------------------------------------------------------------------------
(* Properties *)

\* What the callback is told lies inside the slot and is all of one frame: a frame
\* arrives whole or cut at the slot's end.  A negative length, which no caller of the
\* API rejects, is taken for the longest: the callback gets a full slot then.
WholeOrCut ==
  /\ dataLen \in 0..Room
  /\ \A i, j \in 1..dataLen : slot[i] = slot[j]
  /\ dataLen = IF len >= 0 /\ len <= Room THEN len ELSE Room
===============================================================================
