---------------------------- MODULE MCVectorIndex ----------------------------
(***************************************************************************)
(* Three videos in two folders.  v1 has shots that begin and end between   *)
(* full seconds; with 25 frames per second frame 49 is in second 1.        *)
(***************************************************************************)
EXTENDS VectorIndex

MCVideo == {"v1", "v2", "v3"}
MCFrames == [v1 |-> {0, 30, 49, 60}, v2 |-> {10}, v3 |-> {5, 25}]
MCFolders == <<<<"v1", "v2">>, <<"v3">>>>
MCAnchors == {<<"v1", 30>>}
MCSegments == {[video |-> "v1", from |-> 0, to |-> 49], [video |-> "v1", from |-> 50, to |-> 70],
               [video |-> "v3", from |-> 0, to |-> 20]}

\* The corpus has what the theorems about it ask for.
ASSUME MCBuiltOnce == BuiltOnce

\* The directories listed in name order, and listed in any order.
SortedWalk == {<<"v1", "v2", "v3">>}
AnyWalk == {<<"v1", "v2", "v3">>, <<"v2", "v1", "v3">>, <<"v3", "v1", "v2">>, <<"v3", "v2", "v1">>}
=============================================================================
