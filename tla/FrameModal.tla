----------------------------- MODULE FrameModal ------------------------------
(***************************************************************************)
(* The frame modal of thumbnailView.js: a thumbnail is opened, the frames  *)
(* around it are fetched, and the user moves among them, submits one or    *)
(* closes the modal, while answers to earlier fetches may still arrive.    *)
(* window.framesList, window.currentFrameIndex and the image on display    *)
(* are global: an answer does not know whose modal it finds.               *)
(*                                                                         *)
(* Bounds: MaxCalls calls of showModal in all.  One click may make several *)
(* calls, since initThumbnailView adds its handler again each time a page  *)
(* is drawn and thumbnails are cached; at most CallsPerClick of them.      *)
(***************************************************************************)
EXTENDS Integers, Sequences

CONSTANTS
  Records,        \* results whose thumbnails can be opened
  Before, After,  \* Before[r], After[r]: neighbours the service has for r
  Video, Place,   \* Video[r], Place[r]: the video of r, and where r is in it
  MaxCalls, CallsPerClick,
  NoRecord

ASSUME ModalAssumption ==
  /\ Before \in [Records -> Nat] /\ After \in [Records -> Nat]
  /\ DOMAIN Video = Records /\ Place \in [Records -> Int]
  /\ MaxCalls \in Nat /\ CallsPerClick \in Nat \ {0}
  /\ NoRecord \notin Records

VARIABLES
  open,     \* the modal is displayed (window.isModalOpen)
  opened,   \* history: the record last clicked
  list,     \* window.framesList
  index,    \* window.currentFrameIndex, counted from 1
  shown,    \* the frame whose image and details the modal holds
  strip,    \* the previews in the neighbour strip
  lit,      \* the highlighted preview
  stripOn,  \* the strip is displayed
  keys,     \* the modal's keydown handler is on the document
  pending,  \* pending[r]: fetches in flight for r
  calls,    \* calls of showModal so far
  filled    \* the frame last put into the submission form

stripVars == <<strip, lit, stripOn>>
fetchVars == <<pending, calls>>
vars == <<open, opened, list, index, shown, stripVars, keys, fetchVars, filled>>

\* The frame `at` places after the record r in its video.
Frame(r, at) == [of |-> r, at |-> at]
NoFrame == Frame(NoRecord, 0)

\* frame_path: the neighbours of two records may be the same picture.
Path(f) == <<Video[f.of], Place[f.of] + f.at>>

\* p frames before r, r, and n frames after it.
Around(r, p, n) == [i \in 1 .. p + 1 + n |-> Frame(r, i - 1 - p)]
------------------------------------------------------------------------------
Init ==
  /\ open = FALSE /\ opened = NoRecord
  /\ list = <<>> /\ index = 1 /\ shown = NoFrame
  /\ strip = <<>> /\ lit = 1 /\ stripOn = FALSE
  /\ keys = FALSE
  /\ pending = [r \in Records |-> 0] /\ calls = 0
  /\ filled = NoFrame

\* A click on a thumbnail: every handler on it calls showModal, up to its
\* await.  The strip of the modal before stays where it is.
Show(r) ==
  /\ ~open
  /\ open' = TRUE /\ opened' = r
  /\ list' = Around(r, 0, 0) /\ index' = 1 /\ shown' = Frame(r, 0)
  /\ \E n \in 1 .. CallsPerClick :
       /\ calls + n <= MaxCalls
       /\ calls' = calls + n
       /\ pending' = [pending EXCEPT ![r] = @ + n]
  /\ UNCHANGED <<stripVars, keys, filled>>

Settle(r) ==
  /\ pending[r] > 0
  /\ pending' = [pending EXCEPT ![r] = @ - 1]
  /\ keys' = TRUE
  /\ UNCHANGED <<open, opened, calls, filled>>

\* Variants with a plausible slip each; nothing but the mutation runs uses them.
PutListOnly(r, p, n) ==
  /\ list' = Around(r, p, n)
  /\ index' = p + 1
  /\ shown' = shown
  /\ strip' = list' /\ lit' = index' /\ stripOn' = TRUE
PutOverOldStrip(r, p, n) ==
  /\ list' = Around(r, p, n)
  /\ index' = p + 1
  /\ shown' = Frame(r, 0)
  /\ strip' = (IF stripOn THEN strip ELSE list') /\ lit' = index' /\ stripOn' = TRUE

\* The rest of showModal once its neighbours have come.
PutNeighbours(r, p, n) ==
  /\ list' = Around(r, p, n)
  /\ index' = p + 1
  /\ shown' = Frame(r, 0)
  /\ strip' = list' /\ lit' = index' /\ stripOn' = TRUE

\* The answer for r: its neighbours, or none if the fetch failed.
Answered(r) ==
  /\ Settle(r)
  /\ PutNeighbours(r, Before[r], After[r]) \/ PutNeighbours(r, 0, 0)

\* An answer without lists: the catch clause hides the strip.
AnsweredWithoutLists(r) ==
  /\ Settle(r)
  /\ stripOn' = FALSE
  /\ UNCHANGED <<list, index, shown, strip, lit>>

\* Variant with a plausible slip; nothing but a mutation run uses it.
GoToIndexOnly(i) ==
  /\ index' = i /\ lit' = i
  /\ UNCHANGED <<shown, open, opened, list, strip, stripOn, keys, fetchVars, filled>>

\* The frame at position i becomes the current one.
GoTo(i) ==
  /\ index' = i /\ shown' = list[i]
  /\ lit' = i
  /\ UNCHANGED <<open, opened, list, strip, stripOn, keys, fetchVars, filled>>

\* One frame on, wrapping around at both ends.
Step(d) ==
  IF index + d < 1 THEN Len(list)
  ELSE IF index + d > Len(list) THEN 1 ELSE index + d

\* navigateFrames: an arrow on the modal, or an arrow key while the handler is
\* attached, be the modal displayed or not.
Navigate(d) ==
  /\ open \/ keys
  /\ list # <<>>
  /\ GoTo(Step(d))

\* A click on a preview goes to the frame of its path if the list holds one, be
\* the strip that of another record.
PickPreview(k) ==
  /\ open /\ stripOn /\ k \in DOMAIN strip
  /\ \E i \in DOMAIN list : Path(list[i]) = Path(strip[k]) /\ GoTo(i)

\* What closeModal does to the frame state and to the keyboard.
Reset ==
  /\ open' = FALSE /\ keys' = FALSE
  /\ list' = <<>> /\ index' = 1

\* closeModal: the cross, the backdrop, or Escape.
Close ==
  /\ open \/ keys
  /\ Reset
  /\ UNCHANGED <<opened, shown, stripVars, fetchVars, filled>>

\* "Submit this Frame": the current frame goes to the submission form.
Submit ==
  /\ open /\ index \in DOMAIN list
  /\ filled' = list[index]
  /\ Reset
  /\ UNCHANGED <<opened, shown, stripVars, fetchVars>>

Next ==
  \/ \E r \in Records : Show(r) \/ Answered(r) \/ AnsweredWithoutLists(r)
  \/ \E d \in {-1, 1} : Navigate(d)
  \/ \E k \in DOMAIN strip : PickPreview(k)
  \/ Close
  \/ Submit

Spec == Init /\ [][Next]_vars
------------------------------------------------------------------------------
(***************************************************************************)
(* Properties.                                                             *)
(***************************************************************************)
Frames == [of : Records, at : Int]
ModalTypeOK ==
  /\ open \in BOOLEAN /\ stripOn \in BOOLEAN /\ keys \in BOOLEAN
  /\ opened \in Records \cup {NoRecord}
  /\ index \in Nat \ {0} /\ lit \in Nat \ {0}
  /\ shown \in Frames \cup {NoFrame} /\ filled \in Frames \cup {NoFrame}
  /\ pending \in [Records -> Nat] /\ calls \in 0 .. MaxCalls

\* While a modal is open its list has a current frame and that frame is the
\* one on display, whichever answers, arrows and previews came in between: so
\* "Submit this Frame" cannot submit a frame the user does not see.
DisplayedIsCurrent ==
  open => index \in DOMAIN list /\ shown = list[index]

\* Once nothing is in flight the strip shows the frames the arrows go through,
\* with the current one highlighted, or is hidden: a strip left over from an
\* earlier modal does not survive the answers.
StripShowsList ==
  /\ ModalTypeOK
  /\ (open /\ stripOn /\ \A r \in Records : pending[r] = 0) => strip = list /\ lit = index

\* What is put into the submission form is the frame on display.
SubmitsDisplayed == [][filled' # filled => filled' = shown]_vars

(***************************************************************************)
(* What comments of the code say and the code does not do.                 *)
(***************************************************************************)
\* "Show modal with thumbnail details and fetch neighbors"
\* (thumbnailView.js:451): the modal shows the thumbnail that was opened, or a
\* neighbour of it.
OpenedRecordShown == open => shown.of = opened
==============================================================================
