------------------------------ MODULE FrameIds -------------------------------
(***************************************************************************)
(* Keyframes and the ids of their points in the vector collection.         *)
(* addDatabase numbers the keyframes of all videos in one run, in the      *)
(* order of its folders and, in a folder, of the sorted feature files.     *)
(* Every server process numbers them again when it starts (_prepare_data), *)
(* in the order the file system lists the directories, and _get_frames     *)
(* turns a window of frame numbers into ids with that second numbering.    *)
(*                                                                         *)
(* Frames[v] is the set of frame numbers of v's keyframe files.  A file is *)
(* named by the five digits of its number, so that sorting the names sorts *)
(* the numbers.                                                            *)
(***************************************************************************)
EXTENDS Integers, Sequences, FiniteSets

CONSTANTS
  Video,    \* video names
  Frames,   \* Frames[v]: the frame numbers of v's keyframes
  NoFrame   \* the bound of a window that is left open (None)

MaxFrame == 99999  \* the largest number of five digits

ASSUME FramesAssumption ==
  /\ IsFiniteSet(Video)
  /\ \A v \in Video : Frames[v] \subseteq 0..MaxFrame /\ Frames[v] # {}
  /\ NoFrame \notin Int

\* The keyframes of a video, as pairs.
KeyframesOf(v) == {<<v, n>> : n \in Frames[v]}

Least(S) == CHOOSE n \in S : \A m \in S : n <= m
Greatest(S) == CHOOSE n \in S : \A m \in S : m <= n

-----------------------------------------------------------------------------
\* The videos numbered before v, when they are numbered in the given order.
Before(order, v) == {order[i] : i \in {j \in 1..Len(order) :
                                  \E k \in (j + 1)..Len(order) : order[k] = v}}

\* The keyframes numbered before frame n of v.
Earlier(order, v, n) ==
  (UNION {KeyframesOf(u) : u \in Before(order, v)}) \cup {k \in KeyframesOf(v) : k[2] < n}

Id(order, v, n) == Cardinality(Earlier(order, v, n))

-----------------------------------------------------------------------------
\* Variant with a plausible slip; nothing but a mutation run uses it.
StartAfter(F, first) ==
  IF first = NoFrame THEN Least(F)
                     ELSE Least({n \in F : n > first} \cup {Greatest(F)})

\* The keyframe a window starts at: the first one at or after `first', and the
\* last one of the video when there is none (bisect_left over list_keys[:-1]).
Start(F, first) ==
  IF first = NoFrame THEN Least(F)
                     ELSE Least({n \in F : n >= first} \cup {Greatest(F)})

\* Variant with a plausible slip; nothing but a mutation run uses it.
EndBefore(F, last) ==
  IF last = NoFrame THEN Greatest(F) ELSE Greatest({n \in F : n < last} \cup {Least(F)})

\* The keyframe a window ends at: `last' itself if it is one, and otherwise the
\* first one AFTER it (bisect_right over list_keys[:-1]).
End(F, last) ==
  IF last = NoFrame THEN Greatest(F)
  ELSE IF last \in F THEN last
  ELSE Least({n \in F : n > last} \cup {Greatest(F)})

Hits(F, first, last) == {n \in F : Start(F, first) <= n /\ n <= End(F, last)}

\* Variant with a plausible slip; nothing but a mutation run uses it.
GetFramesOneMore(order, v, first, last) ==
  UNION {{Id(order, v, n), Id(order, v, n) + 1} : n \in Hits(Frames[v], first, last)}

GetFrames(order, v, first, last) ==
  {Id(order, v, n) : n \in Hits(Frames[v], first, last)}

-----------------------------------------------------------------------------
(***************************************************************************)
(* What a window must return, for proofs and runs.                         *)
(***************************************************************************)
From(first) == IF first = NoFrame THEN 0 ELSE first

Within(F, first, last) == {n \in F : From(first) <= n /\ (last = NoFrame \/ n <= last)}
=============================================================================
