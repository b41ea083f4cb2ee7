---------------------------- MODULE FilterPanel ------------------------------
(***************************************************************************)
(* The filter panel (filterPanel.js): the batches, the dropdown of video   *)
(* names that the util service fills, the typed filters and the list of    *)
(* excluded frames.                                                        *)
(*                                                                         *)
(* Every change of a batch asks for names; several questions can be open   *)
(* and are answered in any order.  A frame is identified by its video name *)
(* without ".mp4" and its keyframe id.  The s2t text and the two times are *)
(* taken together.  Searching in the dropdown only hides options.          *)
(*                                                                         *)
(* Bounds: MaxAsks questions for video names in all.                       *)
(***************************************************************************)
EXTENDS Naturals, SequencesExt

CONSTANTS
  Batches,      \* the numbers of the batch checkboxes
  Videos,       \* Videos[b]: the videos of batch b, sorted
  Folder,       \* Folder[v]: the folder (L21, ...) of video v
  FolderOrder,  \* all folders, sorted
  Frames,       \* frames that can be excluded
  Typings, NoTyping,
  MaxAsks

ASSUME PanelAssumption ==
  /\ Batches \subseteq Nat /\ IsFiniteSet(Batches)
  /\ NoTyping \notin Typings
  /\ MaxAsks \in Nat \ {0}

VARIABLES
  batches,   \* the checked batches
  asks,      \* questions asked so far
  pending,   \* questions without an answer: [n, batches]
  options,   \* the options of the dropdown
  filler,    \* history: the question whose answer they are, 0 if none
  selected,  \* the selected options
  typed,     \* the text inputs
  excluded,  \* excludedFrames
  rows       \* the frames listed; the button of row i removes excluded[i]

nameVars == <<batches, asks, pending, options, filler, selected>>
panelVars == <<nameVars, typed, excluded, rows>>

\* get_video_names: the folders, then the videos, of some batches.
GetVideoNames(B) ==
  LET videos == FlattenSeq([i \in 1..Cardinality(B) |-> Videos[SetToSortSeq(B, <)[i]]])
  IN  SelectSeq(FolderOrder, LAMBDA f : \E v \in Range(videos) : Folder[v] = f) \o videos

\* The page is loaded: every batch is checked and the names are asked for.
PanelInit ==
  /\ batches = Batches
  /\ asks = 1 /\ pending = {[n |-> 1, batches |-> Batches]}
  /\ options = <<>> /\ filler = 0 /\ selected = {}
  /\ typed = NoTyping /\ excluded = <<>> /\ rows = <<>>
------------------------------------------------------------------------------
\* fetchVideoNames up to its await: the batches are read now.
FetchVideoNames(B) ==
  /\ asks < MaxAsks
  /\ asks' = asks + 1
  /\ pending' = pending \cup {[n |-> asks + 1, batches |-> B]}

AskAgain ==
  /\ FetchVideoNames(batches)
  /\ UNCHANGED <<batches, options, filler, selected, typed, excluded, rows>>

\* Variant with a plausible slip; nothing but a mutation run uses it.
ToggleAskingBefore(b) ==
  /\ batches' = IF b \in batches THEN batches \ {b} ELSE batches \cup {b}
  /\ FetchVideoNames(batches)
  /\ UNCHANGED <<options, filler, selected, typed, excluded, rows>>

ToggleBatch(b) ==
  /\ batches' = IF b \in batches THEN batches \ {b} ELSE batches \cup {b}
  /\ FetchVideoNames(batches')
  /\ UNCHANGED <<options, filler, selected, typed, excluded, rows>>

\* The names arrive: new options replace the old ones, and none is selected.
NamesArrive(q) ==
  /\ q \in pending
  /\ pending' = pending \ {q}
  /\ options' = GetVideoNames(q.batches)
  /\ filler' = q.n
  /\ selected' = {}
  /\ UNCHANGED <<batches, asks, typed, excluded, rows>>

\* An answer without data: the options are gone by the time it raises.
NamesMissing(q) ==
  /\ q \in pending
  /\ pending' = pending \ {q}
  /\ options' = <<>> /\ filler' = 0 /\ selected' = {}
  /\ UNCHANGED <<batches, asks, typed, excluded, rows>>

\* An alert; the options stay.
NamesFail(q) ==
  /\ q \in pending
  /\ pending' = pending \ {q}
  /\ UNCHANGED <<batches, asks, options, filler, selected, typed, excluded, rows>>

\* One option is selected, or no longer; several clicks select any others.
SelectName(n) ==
  /\ n \in Range(options)
  /\ selected' = IF n \in selected THEN selected \ {n} ELSE selected \cup {n}
  /\ UNCHANGED <<batches, asks, pending, options, filler, typed, excluded, rows>>

TypeFilters(t) ==
  /\ t # typed
  /\ typed' = t
  /\ UNCHANGED <<nameVars, excluded, rows>>

\* Variant with a plausible slip; nothing but a mutation run uses it.
AddTwice(f) ==
  /\ excluded' = Append(excluded, f)
  /\ rows' = excluded'
  /\ UNCHANGED <<nameVars, typed>>

\* The exclude button of a thumbnail, in any view.
AddExcludedFrame(f) ==
  /\ f \notin Range(excluded)
  /\ excluded' = Append(excluded, f)
  /\ rows' = excluded'
  /\ UNCHANGED <<nameVars, typed>>

RemoveRow(i) ==
  /\ i \in DOMAIN rows
  /\ excluded' = RemoveAt(excluded, i)
  /\ rows' = excluded'
  /\ UNCHANGED <<nameVars, typed>>

\* The batches stay checked, and no names are asked for.
ResetFilters ==
  /\ excluded' = <<>> /\ rows' = <<>>
  /\ typed' = NoTyping
  /\ options' = <<>> /\ filler' = 0 /\ selected' = {}
  /\ UNCHANGED <<batches, asks, pending>>

\* What a search is sent.  The names are joined by ", "; listed: the excluded
\* frames are, if only as an empty list.
GetFilters ==
  [names |-> SelectSeq(options, LAMBDA n : n \in selected), typed |-> typed,
   skips |-> excluded, listed |-> TRUE]

\* The filters of an earlier search.  Its names are split at "," only: all but
\* the first keep a blank and name no option.  Its frames go to a property of
\* window that nothing reads, and the list, if any, is drawn from excludedFrames.
SetFilters(filters) ==
  /\ typed' = filters.typed
  /\ selected' = IF filters.names = <<>> THEN selected
                 ELSE {filters.names[1]} \cap Range(options)
  /\ rows' = IF filters.listed THEN excluded ELSE rows
  /\ UNCHANGED <<batches, asks, pending, options, filler, excluded>>

------------------------------------------------------------------------------
(***************************************************************************)
(* Properties.                                                             *)
(***************************************************************************)
\* The variables of the panel have their types.
PanelTypeOK ==
  /\ batches \subseteq Batches /\ asks \in 1..MaxAsks
  /\ pending \subseteq [n : 1..asks, batches : SUBSET Batches]
  /\ options \in {<<>>} \cup {GetVideoNames(B) : B \in SUBSET Batches}
  /\ filler \in 0..asks /\ selected \subseteq Range(options)
  /\ typed \in Typings \cup {NoTyping}
  /\ excluded \in Seq(Frames) /\ rows \in Seq(Frames)

\* However thumbnails, remove buttons, reset and earlier searches change the
\* exclusions, the list shows what is excluded, row by row, so that a remove
\* button (its closure holds an index) removes the frame beside it; and no
\* frame is excluded twice, so that removing it lets it be found again.
ListShowsExclusions == rows = excluded /\ IsInjective(excluded)

\* When the dropdown was filled by the answer to the latest question it offers
\* the names of the batches that are checked now, whatever was asked, answered
\* out of order, refused or reset before; a selection is always of its options.
\* An older answer that lands last stays in the dropdown: nothing is said of it.
DropdownFollowsBatches ==
  /\ PanelTypeOK
  /\ filler = asks => options = GetVideoNames(batches)
==============================================================================
