--------------------------- MODULE TemporalSearch ----------------------------
(***************************************************************************)
(* The temporal search: a text of several sentences is a sequence of       *)
(* scenes, and the answer is a list of rows, one keyframe per scene, that  *)
(* follow each other in one video.  search_temporal asks Qdrant once per   *)
(* scene; after the first, only keyframes within Gap frames of a row's     *)
(* last one are searched, and merge_scores joins what comes back to the    *)
(* rows found so far.                                                      *)
(*                                                                         *)
(* A keyframe stands for its point: its id is the one _get_frames gives it *)
(* (see VectorIndex for when the two disagree).  Similarities are integers *)
(* and may be negative, as inner products may be.  The text is the         *)
(* sequence of the signs that end its sentences, "stop" for a full stop    *)
(* and "mark" for a question or exclamation mark.                          *)
(***************************************************************************)
EXTENDS FrameIds

CONSTANTS
  Shots,       \* [video, from, to]: the shots a user may exclude
  Anchors,     \* keyframes of class 0
  Spoken,      \* keyframes whose speech has the words of the s2t filter
  Similarity,  \* how alike the keyframes and a sentence may be
  Requests     \* the searches the page may be asked for

Gap == 1000  \* frames between two scenes, at most

Keyframe == UNION {KeyframesOf(v) : v \in Video}

ASSUME TemporalAssumption ==
  /\ \A sim \in Similarity : sim \in [Keyframe -> Int]
  /\ Requests \subseteq [ends : Seq({"stop", "mark"}), k : Nat, videos : SUBSET Video,
                         words : BOOLEAN, noAnchors : BOOLEAN, skip : SUBSET Shots]

VARIABLES
  pc,       \* idle, searching, answered or failed
  request,  \* the request being served, or the last one
  sims,     \* the similarities of the scenes searched so far
  rows      \* the rows found so far, best first

vars == <<pc, request, sims, rows>>

Init == pc = "idle" /\ request \in Requests /\ sims = <<>> /\ rows = <<>>

-----------------------------------------------------------------------------
\* The page counts sentences, the service segments between full stops.
Sentences(ends) == Len(ends)
Segments(ends) == 1 + Cardinality({i \in 1..(Len(ends) - 1) : ends[i] = "stop"})

\* The keyframes that pass the filters.
Passing(r) ==
  {f \in Keyframe : /\ r.videos = {} \/ f[1] \in r.videos
                    /\ r.words => f \in Spoken
                    /\ r.noAnchors => f \notin Anchors
                    /\ \A shot \in r.skip :
                         f \notin {<<shot.video, n>> :
                                     n \in Hits(Frames[shot.video], shot.from, shot.to)}}

Moment(row) == row[Len(row)].frame
Score(row) == row[Len(row)].score

\* Where the next scene is looked for: around the rows, whatever the filters.
Following ==
  UNION {{<<Moment(rows[i])[1], n>> :
            n \in Hits(Frames[Moment(rows[i])[1]], Moment(rows[i])[2] + 1, Moment(rows[i])[2] + Gap)} :
           i \in DOMAIN rows}

Searched == IF sims = <<>> THEN Passing(request) ELSE Following

\* Each scene asks for fewer frames than the one before.
Limit == request.k * (Segments(request.ends) - Len(sims))

\* The `limit' best of S, best first; equal ones may come in any order.
Ranked(S, sim, limit) ==
  {q \in [1..(IF limit < Cardinality(S) THEN limit ELSE Cardinality(S)) -> S] :
     \A i \in DOMAIN q : /\ \A j \in DOMAIN q : i < j => q[i] # q[j] /\ sim[q[i]] >= sim[q[j]]
                         /\ \A f \in S \ {q[j] : j \in DOMAIN q} : sim[q[i]] >= sim[f]}

-----------------------------------------------------------------------------
(***************************************************************************)
(* merge_scores.  A match <<j, i>> joins hit j to row i.                   *)
(***************************************************************************)
Linked(a, b) == a[1] = b[1] /\ b[2] - a[2] >= 0 /\ b[2] - a[2] <= Gap

Partners(b) == {i \in DOMAIN rows : Linked(Moment(rows[i]), b) /\ Score(rows[i]) > 0}

\* Variant with a plausible slip; nothing but a mutation run uses it.
LastMatches(hits) ==
  {m \in (DOMAIN hits) \X (DOMAIN rows) :
     /\ m[2] \in Partners(hits[m[1]])
     /\ \A i \in Partners(hits[m[1]]) : m[2] >= i}

\* A hit is joined to the best row it may follow, the first of several best.
Matches(hits) ==
  {m \in (DOMAIN hits) \X (DOMAIN rows) :
     /\ m[2] \in Partners(hits[m[1]])
     /\ \A i \in Partners(hits[m[1]]) :
          \/ Score(rows[m[2]]) > Score(rows[i])
          \/ Score(rows[m[2]]) = Score(rows[i]) /\ m[2] <= i}

\* Variant with a plausible slip; nothing but a mutation run uses it.
BestScore(hits, sim, m) ==
  IF sim[hits[m[1]]] > Score(rows[m[2]]) THEN sim[hits[m[1]]] ELSE Score(rows[m[2]])

NewScore(hits, sim, m) == sim[hits[m[1]]] + Score(rows[m[2]])

\* The order of sorted(..., reverse=True), which keeps equal ones in place.
Ahead(hits, sim, m, n) ==
  \/ NewScore(hits, sim, m) > NewScore(hits, sim, n)
  \/ NewScore(hits, sim, m) = NewScore(hits, sim, n) /\ m[1] < n[1]

\* Variant with a plausible slip; nothing but a mutation run uses it.
KeptAll(hits, sim) == Matches(hits)

\* Of the matches that continue the same keyframe only the first stays.
Kept(hits, sim) ==
  {m \in Matches(hits) :
     \A n \in Matches(hits) \ {m} :
       Moment(rows[n[2]]) = Moment(rows[m[2]]) => Ahead(hits, sim, m, n)}

\* The merged rows, best first (a set of one list).
Merged(hits, sim) ==
  {[p \in DOMAIN s |-> Append(rows[s[p][2]],
                              [frame |-> hits[s[p][1]], score |-> NewScore(hits, sim, s[p])])] :
     s \in {q \in [1..Cardinality(Kept(hits, sim)) -> Kept(hits, sim)] :
              \A i, j \in DOMAIN q : i < j => Ahead(hits, sim, q[i], q[j])}}

-----------------------------------------------------------------------------
\* The page sends a text of several sentences to the temporal route.
Ask ==
  /\ pc # "searching"
  /\ request' \in {r \in Requests : Sentences(r.ends) > 1}
  /\ pc' = "searching" /\ sims' = <<>> /\ rows' = <<>>

FirstScene ==
  /\ pc = "searching" /\ sims = <<>>
  /\ \E sim \in Similarity : \E hits \in Ranked(Searched, sim, Limit) :
       /\ rows' = [i \in DOMAIN hits |-> <<[frame |-> hits[i], score |-> sim[hits[i]]]>>]
       /\ sims' = <<sim>>
  /\ UNCHANGED <<pc, request>>

NextScene ==
  /\ pc = "searching" /\ sims # <<>> /\ Len(sims) < Segments(request.ends)
  /\ \E sim \in Similarity : \E hits \in Ranked(Searched, sim, Limit) :
       /\ rows' \in Merged(hits, sim)
       /\ sims' = Append(sims, sim)
  /\ UNCHANGED <<pc, request>>

\* The closing pass looks at the last scene but one of every row (item[-2]):
\* it drops nothing that merge_scores kept, and fails on a row of one scene.
Answer ==
  /\ pc = "searching" /\ Len(sims) = Segments(request.ends)
  /\ pc' = IF Segments(request.ends) = 1 /\ rows # <<>> THEN "failed" ELSE "answered"
  /\ UNCHANGED <<request, sims, rows>>

Next == Ask \/ FirstScene \/ NextScene \/ Answer

Spec == Init /\ [][Next]_vars
-----------------------------------------------------------------------------
(***************************************************************************)
(* Properties.                                                             *)
(***************************************************************************)
Entry == [frame : Keyframe, score : Int]

\* The rows and similarities have their types, and every row has one keyframe
\* for each scene searched (the table of temporalHandler.js takes its number of
\* columns from the first row).
TypeOK ==
  /\ pc \in {"idle", "searching", "answered", "failed"}
  /\ request \in Requests
  /\ sims \in Seq(Similarity)
  /\ rows \in Seq(Seq(Entry))
  /\ \A i \in DOMAIN rows : Len(rows[i]) = Len(sims)

\* Two rows never show the same keyframe for the same scene: merge_scores joins
\* a hit to one row (qdrant_database.py searches every window at once, so a hit
\* may follow several) and keeps one hit per row, scene after scene.
MomentsAreDistinct ==
  \A i, j \in DOMAIN rows : \A c \in 1..Len(sims) :
    rows[i][c].frame = rows[j][c].frame => i = j

ScoresAreSums ==
  \A i \in DOMAIN rows : \A c \in 1..Len(sims) :
    rows[i][c].score =
      sims[c][rows[i][c].frame] + (IF c = 1 THEN 0 ELSE rows[i][c - 1].score)

\* Rows are complete, and the score a row is sorted by is the sum of its scenes'
\* similarities, however many other rows its keyframes were compared with on
\* the way (merge_scores overwrites record_B["score"]).
ScoresAddUp == TypeOK /\ ScoresAreSums

\* For a search of two scenes with room for every keyframe, joining each hit to
\* its best row only and keeping one hit per row still finds the best pair:
\* no keyframe of the first scene with a positive score and later keyframe in
\* reach of it beat the first row.
BestPairIsFirst ==
  pc = "answered" /\ Segments(request.ends) = 2 /\ request.k >= Cardinality(Keyframe) =>
    \A a \in Passing(request) : \A b \in Keyframe :
      Linked(a, b) /\ b # a /\ sims[1][a] > 0 =>
        rows # <<>> /\ Score(rows[1]) >= sims[1][a] + sims[2][b]
=============================================================================
