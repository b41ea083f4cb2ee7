---------------------------- MODULE MCFrameModal -----------------------------
(***************************************************************************)
(* Small instance of FrameModal: a record with neighbours on both sides    *)
(* and one with a single neighbour, the next frame of the same video,      *)
(* opened up to three times.                                               *)
(***************************************************************************)
EXTENDS FrameModal

CONSTANTS r1, r2

MCBefore == [r \in Records |-> IF r = r1 THEN 1 ELSE 0]
MCAfter == [r \in Records |-> 1]
MCVideo == [r \in Records |-> "video"]
MCPlace == [r \in Records |-> IF r = r1 THEN 1 ELSE 2]
==============================================================================
