-------------------------- MODULE MCTemporalSearch ---------------------------
(***************************************************************************)
(* One video whose keyframes are within and out of reach of each other     *)
(* (0 -> 900 -> 1400, but not 0 -> 1400), the last one of which is found   *)
(* again by a window past the end, and one of another video.               *)
(***************************************************************************)
EXTENDS TemporalSearch

MCVideo == {"v1", "v2"}
MCFrames == [v1 |-> {0, 900, 1400}, v2 |-> {500}]
MCShots == {[video |-> "v1", from |-> 0, to |-> 100]}
MCAnchors == {<<"v1", 1400>>}
MCSpoken == {<<"v1", 900>>, <<"v2", 500>>}
MCSimilarity == {s \in [Keyframe -> {-1, 1, 2}] : s[<<"v2", 500>>] = 1}

Plain(ends, k) == [ends |-> ends, k |-> k, videos |-> {}, words |-> FALSE,
                   noAnchors |-> FALSE, skip |-> {}]
TwoScenes == <<"mark", "stop", "stop">>
MCRequests ==
  {Plain(TwoScenes, 1), Plain(TwoScenes, 4), Plain(<<"stop", "stop", "stop">>, 2),
   Plain(<<"mark", "mark">>, 4), Plain(<<"stop">>, 4),
   [Plain(TwoScenes, 4) EXCEPT !.noAnchors = TRUE, !.skip = MCShots],
   [Plain(TwoScenes, 4) EXCEPT !.videos = {"v1"}, !.words = TRUE]}
=============================================================================
