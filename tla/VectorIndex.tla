----------------------------- MODULE VectorIndex -----------------------------
(***************************************************************************)
(* The vector collection: setup_database builds it anew while the same     *)
(* process goes on answering, and scroll_video reads it by id.             *)
(*                                                                         *)
(* setup_database_handler is a plain function, so each call runs in a      *)
(* thread of its own; the search handlers run on the event loop and are    *)
(* each one step.  The collection lives in Qdrant, outside the process:    *)
(* a crash of the process leaves it as it is.  An upsert is acknowledged   *)
(* before it is applied (wait=False); creating a payload index waits, so   *)
(* it returns only when the upserts before it have been applied.           *)
(*                                                                         *)
(* Left out: vectors and scores, payload fields other than the keyframe,   *)
(* and the s2t filter.  A feature file is taken to have one row for each   *)
(* keyframe of its video.                                                  *)
(*                                                                         *)
(* Bounds: MaxCrashes crashes.                                             *)
(***************************************************************************)
EXTENDS FrameIds, SequencesExt

CONSTANTS
  Folders,     \* FEATURES_PATH: for each folder its feature files, sorted
  Walks,       \* orders in which a starting process may list the videos
  Setups,      \* threads that may run setup_database_handler
  Anchors,     \* keyframes of class 0 (a presenter is on screen)
  Fps,         \* frames per second
  Seconds,     \* times the filter panel may send, in seconds
  Segments,    \* [video, from, to]: the shots of the keyframes
  Limits,      \* values of k
  MaxCrashes,
  NoAnswer

SegmentLimit == 273  \* the k of a segment's scroll

\* All videos in the order in which addDatabase numbers their frames.
BuildOrder == FlattenSeq(Folders)

ASSUME IndexAssumption ==
  /\ Folders \in Seq(Seq(Video)) /\ Walks \subseteq Seq(Video) /\ Walks # {}
  /\ Fps \in Nat \ {0} /\ Seconds \subseteq Nat /\ Limits \subseteq Nat
  /\ Segments \subseteq [video : Video, from : Nat, to : Nat]
  /\ \A s \in Segments : \E n \in Frames[s.video] : s.from <= n
  /\ MaxCrashes \in Nat

VARIABLES
  exists,   \* Qdrant has the collection
  points,   \* its points: pairs <<id, keyframe>>
  queue,    \* upserts Qdrant has acknowledged and not yet applied
  pc,       \* pc[b]: where the call of setup thread b is
  at,       \* at[b]: folders inserted, then payload indexes created, so far
  alone,    \* history: alone[b]: no other setup has run during b's
  walk,     \* the listing that this process's frame_names was built from
  crashes,  \* crashes so far
  answer    \* what scroll_video answered, if that was the last step

collVars == <<exists, points, queue>>
vars == <<exists, points, queue, pc, at, alone, walk, crashes, answer>>

Init ==
  /\ exists = FALSE /\ points = {} /\ queue = <<>>
  /\ pc = [b \in Setups |-> "idle"]
  /\ at = [b \in Setups |-> 0]
  /\ alone = [b \in Setups |-> FALSE]
  /\ walk \in Walks
  /\ crashes = 0
  /\ answer = NoAnswer

-----------------------------------------------------------------------------
(***************************************************************************)
(* setup_database.                                                         *)
(***************************************************************************)
\* Variant with a plausible slip; nothing but a mutation run uses it.
BatchFromZero(i) ==
  UNION {{<<Id(Folders[i], k[1], k[2]), k>> : k \in KeyframesOf(v)} : v \in Range(Folders[i])}

\* The points of a folder: ids go on from the folders before it.
Batch(i) ==
  UNION {{<<Id(BuildOrder, k[1], k[2]), k>> : k \in KeyframesOf(v)} : v \in Range(Folders[i])}

Upsert(stored, batch) ==
  {p \in stored : \A q \in batch : q[1] # p[1]} \cup batch

GoTo(b, stage) == pc' = [pc EXCEPT ![b] = stage]

Over == {"idle", "ready", "failed"}

Setup(b) ==
  /\ pc[b] \in Over
  /\ GoTo(b, "look")
  /\ alone' = [c \in Setups |-> c = b /\ \A d \in Setups \ {b} : pc[d] \in Over]
  /\ answer' = NoAnswer /\ UNCHANGED <<collVars, at, walk, crashes>>

\* Variant with a plausible slip; nothing but a mutation run uses it.
LookUntilGone(b) ==
  /\ pc[b] = "look"
  /\ GoTo(b, IF exists THEN "look" ELSE "create")
  /\ answer' = NoAnswer /\ UNCHANGED <<collVars, at, alone, walk, crashes>>

Look(b) ==
  /\ pc[b] = "look"
  /\ GoTo(b, IF exists THEN "drop" ELSE "create")
  /\ answer' = NoAnswer /\ UNCHANGED <<collVars, at, alone, walk, crashes>>

Drop(b) ==
  /\ pc[b] = "drop"
  /\ exists' = FALSE /\ points' = {} /\ queue' = <<>>
  /\ GoTo(b, "create")
  /\ answer' = NoAnswer /\ UNCHANGED <<at, alone, walk, crashes>>

\* Creating a collection that exists, or using one that does not, raises.
Create(b) ==
  /\ pc[b] = "create"
  /\ exists' = TRUE
  /\ GoTo(b, IF exists THEN "failed" ELSE "insert")
  /\ at' = [at EXCEPT ![b] = 0]
  /\ answer' = NoAnswer /\ UNCHANGED <<points, queue, alone, walk, crashes>>

Insert(b) ==
  /\ pc[b] = "insert" /\ at[b] < Len(Folders)
  /\ IF exists
     THEN /\ queue' = Append(queue, Batch(at[b] + 1))
          /\ at' = [at EXCEPT ![b] = IF at[b] + 1 < Len(Folders) THEN at[b] + 1 ELSE 0]
          /\ GoTo(b, IF at[b] + 1 < Len(Folders) THEN "insert" ELSE "index")
     ELSE GoTo(b, "failed") /\ UNCHANGED <<queue, at>>
  /\ answer' = NoAnswer /\ UNCHANGED <<exists, points, alone, walk, crashes>>

\* A metadata file is missing or has no entry for a video.
Raise(b) ==
  /\ pc[b] = "insert"
  /\ GoTo(b, "failed")
  /\ answer' = NoAnswer /\ UNCHANGED <<collVars, at, alone, walk, crashes>>

\* Variant with a plausible slip; nothing but a mutation run uses it.
IndexAtOnce(b) ==
  /\ pc[b] = "index"
  /\ at' = [at EXCEPT ![b] = at[b] + 1]
  /\ GoTo(b, IF ~exists THEN "failed" ELSE IF at[b] = 2 THEN "warm" ELSE "index")
  /\ answer' = NoAnswer /\ UNCHANGED <<collVars, alone, walk, crashes>>

\* video_name, s2t and frame_class are indexed in turn.
Index(b) ==
  /\ pc[b] = "index"
  /\ exists => queue = <<>>
  /\ at' = [at EXCEPT ![b] = at[b] + 1]
  /\ GoTo(b, IF ~exists THEN "failed" ELSE IF at[b] = 2 THEN "warm" ELSE "index")
  /\ answer' = NoAnswer /\ UNCHANGED <<collVars, alone, walk, crashes>>

\* The dummy query; after it the call answers "Success".
Warm(b) ==
  /\ pc[b] = "warm"
  /\ GoTo(b, IF exists THEN "ready" ELSE "failed")
  /\ answer' = NoAnswer /\ UNCHANGED <<collVars, at, alone, walk, crashes>>

SetupStep(b) ==
  Look(b) \/ Drop(b) \/ Create(b) \/ Insert(b) \/ Raise(b) \/ Index(b) \/ Warm(b)

-----------------------------------------------------------------------------
\* Qdrant applies the oldest acknowledged upsert.
Apply ==
  /\ queue # <<>>
  /\ points' = Upsert(points, Head(queue))
  /\ queue' = Tail(queue)
  /\ answer' = NoAnswer /\ UNCHANGED <<exists, pc, at, alone, walk, crashes>>

\* The process dies and is started again: its setup calls are gone, and the
\* new process lists the key frame folders for itself.
Crash ==
  /\ crashes < MaxCrashes
  /\ crashes' = crashes + 1
  /\ pc' = [b \in Setups |-> "idle"]
  /\ at' = [b \in Setups |-> 0]
  /\ walk' \in Walks
  /\ answer' = NoAnswer
  /\ UNCHANGED <<collVars, alone>>

-----------------------------------------------------------------------------
(***************************************************************************)
(* scroll_video.                                                           *)
(***************************************************************************)
ToFrame(second) == Fps * second      \* convert_time_to_frame, in the hub
ToSecond(frame) == frame \div Fps    \* frameToTime, on the page

Complete == exists /\ points = UNION {Batch(i) : i \in DOMAIN Folders}

\* The k points of least id among those that pass the filter.
LowestK(S, k) == {p \in S : Cardinality({q \in S : q[1] < p[1]}) < k}

ScrollVideo(k, v, first, last, hideAnchors, skips) ==
  LET wanted  == GetFrames(walk, v, first, last)
      skipped == UNION {GetFrames(walk, s.video, s.from, s.to) : s \in skips}
      passing == {p \in points : /\ p[1] \in wanted
                                 /\ hideAnchors => p[2] \notin Anchors
                                 /\ p[1] \notin skipped}
  IN  {p[2] : p \in LowestK(passing, k)}

Scroll(k, v, first, last, hideAnchors, skips) ==
  /\ exists /\ answer = NoAnswer
  /\ answer' = [k |-> k, video |-> v, first |-> first, last |-> last,
                hideAnchors |-> hideAnchors, skips |-> skips, complete |-> Complete,
                frames |-> ScrollVideo(k, v, first, last, hideAnchors, skips)]
  /\ UNCHANGED <<collVars, pc, at, alone, walk, crashes>>

\* From the filter panel: times in minutes and seconds, either may be empty.
PanelScroll ==
  \E k \in Limits, v \in Video, in \in Seconds \cup {NoFrame}, out \in Seconds \cup {NoFrame},
     hideAnchors \in BOOLEAN, skips \in {{}} \cup {{s} : s \in Segments} :
    Scroll(k, v, IF in = NoFrame THEN NoFrame ELSE ToFrame(in),
           IF out = NoFrame THEN NoFrame ELSE ToFrame(out), hideAnchors, skips)

\* From a thumbnail: the shot of its frame, its ends sent as times.
SegmentScroll ==
  \E s \in Segments, hideAnchors \in BOOLEAN :
    Scroll(SegmentLimit, s.video, ToFrame(ToSecond(s.from)), ToFrame(ToSecond(s.to)),
           hideAnchors, {})

Next ==
  \/ \E b \in Setups : Setup(b) \/ SetupStep(b)
  \/ Apply \/ Crash \/ PanelScroll \/ SegmentScroll

Spec == Init /\ [][Next]_vars

\* The threads run and Qdrant applies what it has acknowledged.  Creating a
\* payload index waits for the upserts acknowledged before it only, not for
\* those another setup adds meanwhile: hence strong fairness of Index.
FairSpec ==
  /\ Spec
  /\ WF_vars(Apply)
  /\ \A b \in Setups : WF_vars(SetupStep(b)) /\ SF_vars(Index(b))
-----------------------------------------------------------------------------
(***************************************************************************)
(* Properties.                                                             *)
(***************************************************************************)
\* The pairs of ids and keyframes that a build stores.
Layout ==
  UNION {{<<Id(BuildOrder, k[1], k[2]), k>> : k \in KeyframesOf(v)} : v \in Video}

\* The variables have their types; what is queued is of the layout.
IndexTypeOK ==
  /\ exists \in BOOLEAN
  /\ queue \in Seq(SUBSET Layout)
  /\ pc \in [Setups -> Over \cup {"look", "drop", "create", "insert", "index", "warm"}]
  /\ at \in [Setups -> Nat]
  /\ alone \in [Setups -> BOOLEAN]
  /\ walk \in Walks
  /\ crashes \in 0..MaxCrashes

\* However many setup calls overlap, drop each other's collection, fail or die
\* with their process between two upserts, what the collection holds or will
\* hold under an id is the keyframe that addDatabase numbers so: a partial or
\* doubly built collection never pairs an id with another frame.
PointsAreGenuine ==
  /\ IndexTypeOK
  /\ points \subseteq Layout
  /\ ~exists => points = {} /\ queue = <<>>

\* Each video is in one folder, so that addDatabase numbers it once.
BuiltOnce ==
  /\ BuildOrder \in Seq(Video) /\ IsInjective(BuildOrder) /\ Range(BuildOrder) = Video
  /\ \A v \in Video : \E i \in DOMAIN Folders : v \in Range(Folders[i])

\* The listing of _prepare_data has the order of addDatabase.
ListedAsBuilt == BuiltOnce /\ Walks = {BuildOrder}

Answers(b) == pc[b] # "ready" /\ pc'[b] = "ready"

\* When a setup that no other one overlapped answers "Success" every keyframe
\* can be found, whatever failed or died before it: the upserts are not waited
\* for, but creating the payload indexes waits for them.
ReadyMeansComplete == [][\A b \in Setups : (Answers(b) /\ alone[b]) => Complete]_vars

\* scroll_video shows frames of the video it was asked for.
ScrollStaysInVideo == answer # NoAnswer => \A k \in answer.frames : k[1] = answer.video

\* An answer that k does not cut off has every frame of the window, unless it
\* is a presenter's or in an excluded shot (which loses the next frame too),
\* and at most one frame that is not in the window.
ScrollCoversWindow ==
  (answer # NoAnswer /\ answer.complete) =>
    LET v == answer.video
        window == Within(Frames[v], answer.first, answer.last)
        excluded(n) == \E s \in answer.skips :
                         /\ s.video = v /\ s.from <= n
                         /\ \A m \in Frames[v] : s.to < m => n <= m
    IN  /\ Cardinality({k \in answer.frames : k[2] \notin window}) <= 1
        /\ Cardinality(answer.frames) < answer.k =>
             \A n \in window : \/ <<v, n>> \in answer.frames
                               \/ answer.hideAnchors /\ <<v, n>> \in Anchors
                               \/ excluded(n)

\* A frame of an excluded shot is not shown, whichever way the window that
\* excludes it and the window that is asked for overlap.
ExcludedNeverShown ==
  answer # NoAnswer =>
    \A s \in answer.skips, k \in answer.frames :
      k[1] = s.video => ~(s.from <= k[2] /\ k[2] <= s.to)

\* A setup call that has begun ends: it answers, fails, or dies with its process.
SetupEnds ==
  \A b \in Setups : pc[b] = "look" ~> pc[b] \in {"ready", "failed", "idle"}
=============================================================================
