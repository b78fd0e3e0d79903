---------------------------- MODULE MCFrameChannel ----------------------------
(* Instances of FrameChannel for TLC: patience of two naps, or the real one. *)
EXTENDS FrameChannel, TLC

ImpatientAudio == Impatient(AudioClass)
ImpatientTalk == Impatient(TalkClass)

Symmetry == Permutations(Senders) \cup Permutations(Frames) \cup Permutations(Parts)
===============================================================================
