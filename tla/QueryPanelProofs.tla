------------------------- MODULE QueryPanelProofs ----------------------------
(***************************************************************************)
(* Proofs about QueryPanel, for any batches, videos, frames, texts and     *)
(* numbers of searches, questions and acts.                                *)
(***************************************************************************)
EXTENDS QueryPanel, SequenceTheorems, TLAPS

\* A recorder runs and a click waits, or two wait, only once clicks have crossed.
VoiceInv ==
  /\ RecorderHasItsButton
  /\ waits >= 2 => crossed
  /\ recorder = "recording" /\ waits > 0 => crossed

ExclusionsInv == excluded \in Seq(Frames) /\ ListShowsExclusions

Kinds == {"text", "image", "scroll", "temporal"}

Searches == [stage : {"translating", "fetching", "over"}, text : Texts, kind : Kinds,
             temporal : BOOLEAN]

\* What a search carries, until it is over, tells what was on display.
Tells(i) ==
  /\ filters[i] = looked[i].filters
  /\ searches[i].kind = looked[i].kind /\ searches[i].temporal = looked[i].temporal
  /\ searches[i].text \in Wordings(looked[i].text)
  /\ searches[i].stage = "translating" =>
       searches[i].text = looked[i].text /\ looked[i].text # NoText

SearchesInv ==
  /\ text \in Texts /\ kind \in Kinds /\ temporal \in BOOLEAN
  /\ searches \in Seq(Searches)
  /\ filters \in Seq(Range(filters)) /\ Len(filters) = Len(searches)
  /\ looked \in Seq(Range(looked)) /\ Len(looked) = Len(searches)
  /\ \A i \in 1..Len(searches) : Tells(i)

HistoryInv ==
  /\ \A c \in history : c.search \in 1..Len(looked) /\ c.query \in Texts /\ c.type \in Kinds
  /\ HistoryTellsTheSearch
------------------------------------------------------------------------------
(***************************************************************************)
(* The recorder's button.                                                  *)
(***************************************************************************)
LEMMA VoiceStep ==
  ASSUME VoiceInv,
         \/ ClickStart \/ ClickStop \/ Heard \/ Browser \/ Silence \/ UNCHANGED voiceVars
  PROVE  VoiceInv'
<1> USE VoiceAssumption DEF VoiceInv, RecorderHasItsButton
<1>1. CASE ClickStart
  <2>1. /\ ~isRecording /\ waits < MaxWaits /\ recognition' = "on" /\ waits' = waits + 1
        /\ UNCHANGED <<isRecording, recorder, left>>
    BY <1>1 DEF ClickStart
  <2>2. crossed' = (crossed \/ waits > 0)
    BY <1>1 DEF ClickStart
  <2>3. CASE waits > 0
    <3>1. crossed' = TRUE
      BY <2>2, <2>3
    <3> QED
      BY <2>1, <3>1
  <2>4. CASE waits = 0
    <3>1. crossed' = crossed
      <4>1. ~(waits > 0)
        BY <2>4
      <4> QED
        BY <2>2, <4>1
    <3> QED
      BY <2>1, <2>4, <3>1
  <2> QED
    BY <2>3, <2>4
<1>2. CASE ClickStop
  BY <1>2 DEF ClickStop, StopBoth
<1>3. CASE Heard
  BY <1>3 DEF Heard
<1>4. CASE Granted
  <2>1. waits' \in 0..MaxWaits /\ left' \in Nat /\ recognition' = recognition
    BY <1>4 DEF Granted
  <2>2. isRecording' = TRUE /\ recorder' = "recording" /\ crossed' = crossed
    BY <1>4 DEF Granted
  <2>3. left' > 0 => crossed'
    BY <1>4, <2>2 DEF Granted
  <2>4. waits' > 0 => crossed'
    BY <1>4, <2>2 DEF Granted
  <2> QED
    BY <2>1, <2>2, <2>3, <2>4
<1>5. CASE Refused
  BY <1>5 DEF Refused
<1>6. CASE RecognitionEnds
  BY <1>6 DEF RecognitionEnds
<1>7. CASE Silence
  BY <1>7 DEF Silence, StopBoth
<1>8. CASE MicrophoneLost
  BY <1>8 DEF MicrophoneLost
<1>9. CASE UNCHANGED voiceVars
  BY <1>9 DEF voiceVars
<1> QED
  BY <1>1, <1>2, <1>3, <1>4, <1>5, <1>6, <1>7, <1>8, <1>9 DEF Browser

\* Every step of the form is a step of the voice button or leaves it alone.
LEMMA VoiceOfNext ==
  ASSUME [Next]_vars
  PROVE  \/ ClickStart \/ ClickStop \/ Heard \/ Browser \/ Silence \/ UNCHANGED voiceVars
<1>1. CASE Act
  <2>1. CASE PanelAct
    BY <2>1 DEF PanelAct
  <2>2. CASE VoiceAct
    BY <2>2 DEF VoiceAct
  <2>3. CASE QueryAct
    BY <2>3 DEF QueryAct, Submit, ScrollSearch, LoadSearchContext, Write, ChooseKind,
        ChooseModel
  <2> QED
    BY <1>1, <2>1, <2>2, <2>3 DEF Act
<1>2. CASE Names
  BY <1>2 DEF Names
<1>3. CASE Voice
  BY <1>3 DEF Voice
<1>4. CASE Searching
  BY <1>4 DEF Searching, Translated, Fails, Answered
<1>5. CASE UNCHANGED vars
  BY <1>5 DEF vars
<1> QED
  BY <1>1, <1>2, <1>3, <1>4, <1>5 DEF Next

\* For any number of clicks waiting for the microphone, in whatever order they
\* are granted, refused, overtaken by results, lost microphones and the timer: in
\* voiceRecognition.js a click never starts a recording while the named recorder
\* runs, and none is left behind unless two clicks waited at once.
THEOREM RecordersHaveAButton == Spec => []RecorderHasItsButton
<1>1. Init => VoiceInv
  <2> SUFFICES ASSUME Init PROVE VoiceInv
    OBVIOUS
  <2>1. 0 \in 0..MaxWaits /\ 0 \in Nat
    BY VoiceAssumption
  <2>2. /\ waits = 0 /\ left = 0 /\ recorder = "none" /\ recognition = "off"
        /\ isRecording = FALSE /\ crossed = FALSE
    BY DEF Init, VoiceInit
  <2>3. isRecording \in BOOLEAN /\ crossed \in BOOLEAN
    BY <2>2
  <2>4. ~(waits > 0) /\ ~(left > 0) /\ ~(waits >= 2)
    BY <2>2
  <2>5. waits \in 0..MaxWaits /\ left \in Nat /\ recognition \in {"off", "on", "stopping"}
    BY <2>1, <2>2
  <2>6. recorder # "recording"
    BY <2>2
  <2> QED
    BY <2>3, <2>4, <2>5, <2>6, Zenon DEF VoiceInv, RecorderHasItsButton
<1>2. VoiceInv /\ [Next]_vars => VoiceInv'
  BY VoiceStep, VoiceOfNext
<1>3. VoiceInv => RecorderHasItsButton
  BY DEF VoiceInv
<1> QED
  BY <1>1, <1>2, <1>3, PTL DEF Spec
------------------------------------------------------------------------------
(***************************************************************************)
(* The list of excluded frames.                                            *)
(***************************************************************************)
LEMMA AddedInjective ==
  ASSUME NEW S, NEW s \in Seq(S), NEW e \in S, IsInjective(s), e \notin Range(s)
  PROVE  IsInjective(Append(s, e))
<1> DEFINE r == Append(s, e)
<1>1. Len(s) \in Nat /\ DOMAIN s = 1..Len(s) /\ DOMAIN r = 1..(Len(s) + 1)
  OBVIOUS
<1>2. r[Len(s) + 1] = e /\ \A i \in 1..Len(s) : r[i] = s[i] /\ s[i] # e
  BY <1>1 DEF Range
<1> HIDE DEF r
<1>3. ASSUME NEW i \in 1..(Len(s) + 1), NEW j \in 1..(Len(s) + 1), r[i] = r[j]
      PROVE  i = j
  <2>1. CASE i \in 1..Len(s) /\ j \in 1..Len(s)
    BY <1>1, <1>2, <1>3, <2>1 DEF IsInjective
  <2>2. CASE i = Len(s) + 1 \/ j = Len(s) + 1
    BY <1>1, <1>2, <1>3, <2>2
  <2> QED
    BY <1>1, <2>1, <2>2
<1>4. IsInjective(r)
  BY <1>1, <1>3 DEF IsInjective
<1> QED
  BY <1>4 DEF r

LEMMA RemovedInjective ==
  ASSUME NEW S, NEW s \in Seq(S), IsInjective(s), NEW i \in 1..Len(s)
  PROVE  RemoveAt(s, i) \in Seq(S) /\ IsInjective(RemoveAt(s, i))
<1> DEFINE a == SubSeq(s, 1, i - 1)
           b == SubSeq(s, i + 1, Len(s))
<1>1. /\ Len(s) \in Nat /\ i \in Nat /\ i <= Len(s) /\ DOMAIN s = 1..Len(s)
      /\ \A j \in 1..Len(s) : s[j] \in S
  OBVIOUS
<1>2. /\ a \in Seq(S) /\ Len(a) = i - 1
      /\ \A j \in 1..(i - 1) : a[j] = s[j]
  BY <1>1
<1>3. /\ b \in Seq(S) /\ Len(b) = Len(s) - i
      /\ \A j \in 1..(Len(s) - i) : b[j] = s[j + i]
  <2>1. \A j \in (i + 1)..Len(s) : s[j] \in S
    BY <1>1
  <2>2. /\ b \in Seq(S)
        /\ Len(b) = IF i + 1 <= Len(s) THEN Len(s) - (i + 1) + 1 ELSE 0
        /\ \A j \in 1..(Len(s) - (i + 1) + 1) : b[j] = s[(i + 1) + j - 1]
    BY <1>1, <2>1, SubSeqProperties
  <2> HIDE DEF b
  <2>3. Len(s) \in Nat /\ i \in Nat /\ i <= Len(s)
    BY <1>1
  <2>4. Len(b) = Len(s) - i
    <3>1. CASE i + 1 <= Len(s)
      BY <2>2, <2>3, <3>1
    <3>2. CASE ~(i + 1 <= Len(s))
      BY <2>2, <2>3, <3>2
    <3> QED
      BY <3>1, <3>2
  <2>5. ASSUME NEW j \in 1..(Len(s) - i)
        PROVE  b[j] = s[j + i]
    <3>1. j \in 1..(Len(s) - (i + 1) + 1) /\ (i + 1) + j - 1 = j + i
      BY <1>1
    <3> QED
      BY <2>2, <3>1
  <2> QED
    BY <2>2, <2>4, <2>5
<1>4. RemoveAt(s, i) = a \o b
  BY DEF RemoveAt
<1> HIDE DEF a, b
<1>5. /\ a \o b \in Seq(S) /\ Len(a \o b) = Len(s) - 1
      /\ DOMAIN (a \o b) = 1..(Len(s) - 1)
  <2>1. a \o b \in Seq(S) /\ Len(a \o b) = Len(a) + Len(b)
    BY <1>2, <1>3, ConcatProperties
  <2>2. DOMAIN (a \o b) = 1..Len(a \o b)
    BY <2>1
  <2> QED
    BY <1>1, <1>2, <1>3, <2>1, <2>2
<1>6. \A j \in 1..(Len(s) - 1) : (a \o b)[j] = IF j < i THEN s[j] ELSE s[j + 1]
  <2> SUFFICES ASSUME NEW j \in 1..(Len(s) - 1)
               PROVE  (a \o b)[j] = IF j < i THEN s[j] ELSE s[j + 1]
    OBVIOUS
  <2>0. (a \o b)[j] = IF j <= Len(a) THEN a[j] ELSE b[j - Len(a)]
    BY <1>1, <1>2, <1>3, ConcatProperties
  <2>1. CASE j < i
    BY <1>1, <1>2, <2>0, <2>1
  <2>2. CASE ~(j < i)
    <3>1. (a \o b)[j] = b[j - (i - 1)]
      BY <1>1, <1>2, <2>0, <2>2
    <3>2. j - (i - 1) \in 1..(Len(s) - i) /\ (j - (i - 1)) + i = j + 1
      BY <1>1, <2>2
    <3> QED
      BY <1>3, <2>2, <3>1, <3>2
  <2> QED
    BY <2>1, <2>2
<1>7. ASSUME NEW j \in 1..(Len(s) - 1), NEW k \in 1..(Len(s) - 1), (a \o b)[j] = (a \o b)[k]
      PROVE  j = k
  <2> DEFINE at(n) == IF n < i THEN n ELSE n + 1
  <2>1. at(j) \in 1..Len(s) /\ at(k) \in 1..Len(s)
    BY <1>1
  <2>2. s[at(j)] = s[at(k)]
    BY <1>6, <1>7
  <2>3. at(j) = at(k)
    BY <1>1, <2>1, <2>2 DEF IsInjective
  <2> QED
    BY <1>1, <2>3
<1> QED
  BY <1>4, <1>5, <1>7 DEF IsInjective

\* A handler that changes the exclusions draws the list; no other changes either.
LEMMA ExclusionsStep ==
  ASSUME ExclusionsInv, [Next]_vars
  PROVE  ExclusionsInv'
<1> USE DEF ExclusionsInv, ListShowsExclusions
<1>1. CASE Act
  <2>1. CASE PanelAct
    <3>1. CASE AskAgain \/ (\E b \in Batches : ToggleBatch(b))
      BY <3>1 DEF AskAgain, ToggleBatch
    <3>2. CASE \E n \in Range(options) : SelectName(n)
      BY <3>2 DEF SelectName
    <3>3. CASE \E t \in Typings \ {SegmentTimes} : TypeFilters(t)
      BY <3>3 DEF TypeFilters
    <3>4. CASE ResetFilters
      <4>1. <<>> \in Seq(Frames) /\ IsInjective(<<>>)
        BY DEF IsInjective
      <4> QED
        BY <3>4, <4>1 DEF ResetFilters
    <3>5. ASSUME NEW f \in Frames, AddExcludedFrame(f) PROVE ExclusionsInv'
      <4>1. excluded' = Append(excluded, f) /\ rows' = excluded' /\ f \notin Range(excluded)
        BY <3>5 DEF AddExcludedFrame
      <4>2. IsInjective(Append(excluded, f))
        BY <4>1, AddedInjective
      <4> QED
        BY <4>1, <4>2
    <3>6. ASSUME NEW i \in DOMAIN rows, RemoveRow(i) PROVE ExclusionsInv'
      <4>1. i \in 1..Len(excluded)
        OBVIOUS
      <4>2. RemoveAt(excluded, i) \in Seq(Frames) /\ IsInjective(RemoveAt(excluded, i))
        BY <4>1, RemovedInjective
      <4> QED
        BY <3>6, <4>2 DEF RemoveRow
    <3> QED
      BY <2>1, <3>1, <3>2, <3>3, <3>4, <3>5, <3>6 DEF PanelAct
  <2>2. CASE VoiceAct
    BY <2>2 DEF VoiceAct, panelVars
  <2>3. CASE QueryAct
    <3>1. CASE \E c \in history : LoadSearchContext(c)
      BY <3>1 DEF LoadSearchContext, SetFilters
    <3>2. CASE \/ \E translate \in BOOLEAN : Submit(translate)
               \/ \E v \in DOMAIN Folder : ScrollSearch(v)
      BY <3>2 DEF Submit, ScrollSearch, formVars, panelVars
    <3>3. CASE \/ \E t \in Written \cup {NoText} : Write(t)
               \/ \E k \in {"text", "image"} : ChooseKind(k)
               \/ ChooseModel
      BY <3>3 DEF Write, ChooseKind, ChooseModel, panelVars
    <3> QED
      BY <2>3, <3>1, <3>2, <3>3 DEF QueryAct
  <2> QED
    BY <1>1, <2>1, <2>2, <2>3 DEF Act
<1>2. CASE Names
  BY <1>2 DEF Names, NamesArrive, NamesMissing, NamesFail
<1>3. CASE Voice
  BY <1>3 DEF Voice, Apart, panelVars
<1>4. CASE Searching
  BY <1>4 DEF Searching, Translated, Fails, Answered, formVars, panelVars
<1>5. CASE UNCHANGED vars
  BY <1>5 DEF vars, panelVars
<1> QED
  BY <1>1, <1>2, <1>3, <1>4, <1>5 DEF Next

\* The list of excluded frames (updateExcludedList) shows excludedFrames, each
\* once, whatever the rest of the form, the searches and the restored ones do.
THEOREM ListStaysTrue == Spec => []ListShowsExclusions
<1>1. Init => ExclusionsInv
  BY DEF Init, PanelInit, ExclusionsInv, ListShowsExclusions, IsInjective
<1>2. ExclusionsInv /\ [Next]_vars => ExclusionsInv'
  BY ExclusionsStep
<1>3. ExclusionsInv => ListShowsExclusions
  BY DEF ExclusionsInv
<1> QED
  BY <1>1, <1>2, <1>3, PTL DEF Spec
------------------------------------------------------------------------------
(***************************************************************************)
(* The history.                                                            *)
(***************************************************************************)
LEMMA Longer ==
  ASSUME NEW s, s \in Seq(Range(s)), NEW e
  PROVE  /\ Append(s, e) \in Seq(Range(Append(s, e)))
         /\ Len(Append(s, e)) = Len(s) + 1
         /\ \A i \in 1..Len(s) : Append(s, e)[i] = s[i]
         /\ Append(s, e)[Len(s) + 1] = e
<1> DEFINE S == Range(s) \cup {e}
           r == Append(s, e)
<1>1. s \in Seq(S) /\ e \in S /\ Len(s) \in Nat
  <2>1. Len(s) \in Nat /\ DOMAIN s = 1..Len(s) /\ \A i \in 1..Len(s) : s[i] \in Range(s)
    OBVIOUS
  <2> QED
    BY <2>1
<1> HIDE DEF S
<1>2. /\ r \in Seq(S) /\ Len(r) = Len(s) + 1
      /\ \A i \in 1..Len(s) : r[i] = s[i]
      /\ r[Len(s) + 1] = e
  BY <1>1, AppendProperties
<1> HIDE DEF r
<1>3. r \in Seq(Range(r))
  <2>1. DOMAIN r = 1..Len(r) /\ Len(r) \in Nat
    BY <1>2
  <2>2. \A i \in 1..Len(r) : r[i] \in Range(r)
    BY <2>1 DEF Range
  <2> QED
    BY <1>2, <2>1, <2>2
<1> QED
  BY <1>2, <1>3 DEF r

\* A submitted search tells what is on display, for the list shows what is excluded.
LEMMA Submitted ==
  ASSUME SearchesInv, HistoryInv, NEW search \in Searches, NEW look, NEW fs,
         searches' = Append(searches, search),
         filters' = Append(filters, fs),
         looked' = Append(looked, look),
         fs = look.filters, search.kind = look.kind, search.temporal = look.temporal,
         search.text = look.text,
         search.stage = "translating" => look.text # NoText,
         UNCHANGED <<text, kind, temporal, history>>
  PROVE  SearchesInv' /\ HistoryInv'
<1> USE DEF SearchesInv
<1>1. /\ searches' \in Seq(Searches) /\ Len(searches') = Len(searches) + 1
      /\ \A i \in 1..Len(searches) : searches'[i] = searches[i]
      /\ searches'[Len(searches) + 1] = search
  BY AppendProperties
<1>2. /\ filters' \in Seq(Range(filters')) /\ Len(filters') = Len(searches) + 1
      /\ \A i \in 1..Len(searches) : filters'[i] = filters[i]
      /\ filters'[Len(searches) + 1] = fs
  BY Longer
<1>3. /\ looked' \in Seq(Range(looked')) /\ Len(looked') = Len(searches) + 1
      /\ \A i \in 1..Len(searches) : looked'[i] = looked[i]
      /\ looked'[Len(searches) + 1] = look
  BY Longer
<1>4. Len(searches) \in Nat
  OBVIOUS
<1>5. ASSUME NEW i \in 1..(Len(searches) + 1)
      PROVE  Tells(i)'
  <2>1. CASE i \in 1..Len(searches)
    BY <1>1, <1>2, <1>3, <2>1 DEF Tells, Wordings
  <2>2. CASE i = Len(searches) + 1
    BY <1>1, <1>2, <1>3, <2>2 DEF Tells, Wordings
  <2> QED
    BY <1>4, <2>1, <2>2
<1>6. SearchesInv'
  BY <1>1, <1>2, <1>3, <1>5
<1>7. HistoryInv'
  <2>1. \A c \in history : looked'[c.search] = looked[c.search]
    BY <1>3 DEF HistoryInv
  <2>2. \A c \in history : c.search \in 1..(Len(searches) + 1)
    BY <1>4 DEF HistoryInv
  <2> QED
    BY <1>3, <2>1, <2>2 DEF HistoryInv, HistoryTellsTheSearch, Wordings
<1> QED
  BY <1>6, <1>7

\* A search changes its stage, keeps its kind, and has a wording of its text.
LEMMA Moves ==
  ASSUME SearchesInv, NEW i \in DOMAIN searches, NEW s \in Searches,
         searches' = [searches EXCEPT ![i] = s],
         s.kind = searches[i].kind, s.temporal = searches[i].temporal, s.text \in Wordings(looked[i].text),
         s.stage # "translating",
         text' \in Texts, UNCHANGED <<kind, temporal, filters, looked>>
  PROVE  SearchesInv'
<1> USE DEF SearchesInv
<1>1. searches' \in Seq(Searches) /\ Len(searches') = Len(searches) /\ i \in 1..Len(searches)
  OBVIOUS
<1>2. ASSUME NEW j \in 1..Len(searches)
      PROVE  Tells(j)'
  <2>1. CASE j = i
    <3>1. searches'[j] = s
      BY <1>1, <2>1
    <3> QED
      BY <1>1, <2>1, <3>1 DEF Tells, Wordings
  <2>2. CASE j # i
    <3>1. searches'[j] = searches[j]
      BY <1>1, <2>2
    <3> QED
      BY <1>1, <3>1 DEF Tells, Wordings
  <2> QED
    BY <2>1, <2>2
<1> QED
  BY <1>1, <1>2

LEMMA Ends ==
  ASSUME SearchesInv, NEW i \in DOMAIN searches, Over(i),
         UNCHANGED <<text, kind, temporal, filters, looked>>
  PROVE  SearchesInv'
<1> DEFINE s == [stage |-> "over", text |-> searches[i].text, kind |-> searches[i].kind,
                 temporal |-> searches[i].temporal]
<1>1. searches[i] \in Searches /\ i \in 1..Len(searches)
  BY DEF SearchesInv
<1>2. s \in Searches /\ s = [searches[i] EXCEPT !.stage = "over"]
  BY <1>1 DEF Searches
<1>3. searches' = [searches EXCEPT ![i] = s]
  BY <1>2 DEF Over
<1>4. s.text \in Wordings(looked[i].text) /\ s.kind = searches[i].kind /\ s.stage = "over"
      /\ s.temporal = searches[i].temporal
  BY <1>1 DEF SearchesInv, Tells
<1>5. text' \in Texts
  BY DEF SearchesInv
<1> HIDE DEF s
<1> QED
  BY <1>2, <1>3, <1>4, <1>5, Moves

\* The form is edited: what is remembered and what is under way stay.
LEMMA Edited ==
  ASSUME SearchesInv, HistoryInv, text' \in Texts, kind' \in Kinds,
         temporal' \in BOOLEAN, UNCHANGED searchVars
  PROVE  SearchesInv' /\ HistoryInv'
BY DEF SearchesInv, Tells, HistoryInv, HistoryTellsTheSearch, searchVars, Wordings

LEMMA SearchingStep ==
  ASSUME SearchesInv, HistoryInv, Searching
  PROVE  SearchesInv' /\ HistoryInv'
<1> SUFFICES ASSUME NEW i \in DOMAIN searches, Translated(i) \/ Fails(i) \/ Answered(i)
             PROVE  SearchesInv' /\ HistoryInv'
  BY DEF Searching
<1>1. searches[i] \in Searches /\ i \in 1..Len(searches) /\ Tells(i)
  BY DEF SearchesInv
<1>2. CASE Translated(i)
  <2> DEFINE s == [stage |-> Sent(searches[i].kind, text', searches[i].temporal),
                   text |-> text', kind |-> searches[i].kind,
                   temporal |-> searches[i].temporal]
  <2>1. searches[i].text = looked[i].text /\ looked[i].text # NoText
    BY <1>1, <1>2 DEF Translated, Tells
  <2>2. /\ searches[i].text \in Texts \ {NoText} /\ searches[i].kind \in Kinds
        /\ searches[i].temporal \in BOOLEAN
    BY <1>1, <2>1 DEF Searches
  <2>3. text' = Translation[searches[i].text] /\ text' \in Texts
    BY <1>2, <2>2, QueryAssumption DEF Translated
  <2>4. /\ s \in Searches /\ s.text = text' /\ s.kind = searches[i].kind
        /\ s.temporal = searches[i].temporal /\ s.stage # "translating"
    BY <2>2, <2>3 DEF Searches, Sent
  <2>5. text' \in Wordings(looked[i].text)
    BY <2>1, <2>3 DEF Wordings
  <2>6. searches' = [searches EXCEPT ![i] = s]
    BY <1>2 DEF Translated
  <2>9. UNCHANGED <<kind, temporal, filters, looked, history>>
    BY <1>2 DEF Translated
  <2> HIDE DEF s
  <2>7. SearchesInv'
    BY <2>3, <2>4, <2>5, <2>6, <2>9, Moves
  <2>8. HistoryInv'
    BY <2>9 DEF HistoryInv, HistoryTellsTheSearch, Wordings
  <2> QED
    BY <2>7, <2>8
<1>3. CASE Fails(i)
  <2>1. Over(i) /\ UNCHANGED <<text, kind, temporal, filters, looked, history>>
    BY <1>3 DEF Fails, formVars
  <2>2. HistoryInv'
    BY <2>1 DEF HistoryInv, HistoryTellsTheSearch, Wordings
  <2> QED
    BY <2>1, <2>2, Ends
<1>4. CASE Answered(i)
  <2> DEFINE c == ContextOf(i)
  <2>1. Over(i) /\ UNCHANGED <<text, kind, temporal, filters, looked>> /\ history' = history \cup {c}
    BY <1>4 DEF Answered, formVars
  <2>2. /\ c.search = i /\ c.query = searches[i].text /\ c.filters = filters[i]
        /\ c.type = QueryType(searches[i].kind, searches[i].text, searches[i].temporal)
    BY DEF ContextOf
  <2> HIDE DEF c
  <2>3. i \in 1..Len(looked) /\ c.query \in Texts /\ c.type \in Kinds
    BY <1>1, <2>2 DEF SearchesInv, Searches, QueryType, Kinds
  <2>4. /\ c.filters = looked[c.search].filters
        /\ c.query \in Wordings(looked[c.search].text)
        /\ c.type = QueryType(looked[c.search].kind, c.query, looked[c.search].temporal)
    BY <1>1, <2>2 DEF Tells
  <2>5. HistoryInv'
    BY <2>1, <2>2, <2>3, <2>4 DEF HistoryInv, HistoryTellsTheSearch, Wordings
  <2> QED
    BY <2>1, <2>5, Ends
<1> QED
  BY <1>2, <1>3, <1>4

LEMMA HistoryStep ==
  ASSUME ExclusionsInv, SearchesInv, HistoryInv, [Next]_vars
  PROVE  SearchesInv' /\ HistoryInv'
<1>1. /\ text \in Texts /\ kind \in Kinds /\ temporal \in BOOLEAN
      /\ NoText \in Texts /\ Spoken \in Texts /\ Written \subseteq Texts
  BY QueryAssumption DEF SearchesInv
<1>2. CASE Act
  <2>1. CASE PanelAct
    BY <1>1, <2>1, Edited DEF PanelAct
  <2>2. CASE VoiceAct
    BY <1>1, <2>2, Edited DEF VoiceAct, ClickStart, ClickStop, Heard
  <2>3. ASSUME NEW translate \in BOOLEAN, Submit(translate)
        PROVE  SearchesInv' /\ HistoryInv'
    <3> DEFINE s == [stage |-> IF translate /\ kind = "text" /\ text # NoText
                               THEN "translating" ELSE Sent(kind, text, temporal),
                     text |-> text, kind |-> kind, temporal |-> temporal]
               l == [text |-> text, kind |-> kind, temporal |-> temporal,
                     filters |-> ShownFilters]
    <3>1. s \in Searches /\ s.kind = kind /\ s.text = text /\ s.temporal = temporal
          /\ (s.stage = "translating" => text # NoText)
      BY <1>1 DEF Searches, Sent
    <3>2. l.text = text /\ l.kind = kind /\ l.temporal = temporal /\ l.filters = ShownFilters
      OBVIOUS
    <3>3. GetFilters = ShownFilters
      BY DEF GetFilters, ShownFilters, ExclusionsInv, ListShowsExclusions
    <3>4. /\ searches' = Append(searches, s) /\ filters' = Append(filters, GetFilters)
          /\ looked' = Append(looked, l) /\ UNCHANGED <<text, kind, temporal, history>>
      BY <2>3 DEF Submit, formVars
    <3> HIDE DEF s, l
    <3> QED
      BY <3>1, <3>2, <3>3, <3>4, Submitted
  <2>4. ASSUME NEW v \in DOMAIN Folder, ScrollSearch(v)
        PROVE  SearchesInv' /\ HistoryInv'
    <3> DEFINE s == [stage |-> "fetching", text |-> NoText, kind |-> "scroll",
                     temporal |-> FALSE]
               l == [text |-> NoText, kind |-> "scroll", temporal |-> FALSE,
                     filters |-> ShotFilters(v)]
    <3>1. /\ s \in Searches /\ s.kind = "scroll" /\ s.text = NoText /\ s.stage = "fetching"
          /\ s.temporal = FALSE
      BY <1>1 DEF Searches, Kinds
    <3>2. /\ l.text = NoText /\ l.kind = "scroll" /\ l.filters = ShotFilters(v)
          /\ l.temporal = FALSE
      OBVIOUS
    <3>3. /\ searches' = Append(searches, s) /\ filters' = Append(filters, ShotFilters(v))
          /\ looked' = Append(looked, l) /\ UNCHANGED <<text, kind, temporal, history>>
      BY <2>4 DEF ScrollSearch, formVars
    <3> HIDE DEF s, l
    <3> QED
      BY <3>1, <3>2, <3>3, Submitted
  <2>5. ASSUME NEW c \in history, LoadSearchContext(c)
        PROVE  SearchesInv' /\ HistoryInv'
    <3>1. c.query \in Texts /\ c.type \in Kinds
      BY DEF HistoryInv
    <3>2. text' = c.query /\ kind' \in {kind, c.type} /\ temporal' \in BOOLEAN /\ UNCHANGED searchVars
      BY <2>5 DEF LoadSearchContext
    <3> QED
      BY <1>1, <3>1, <3>2, Edited
  <2>6. ASSUME NEW t \in Written \cup {NoText}, Write(t)
        PROVE  SearchesInv' /\ HistoryInv'
    BY <1>1, <2>6, Edited DEF Write, Kinds
  <2>7. ASSUME NEW k \in {"text", "image"}, ChooseKind(k)
        PROVE  SearchesInv' /\ HistoryInv'
    BY <1>1, <2>7, Edited DEF ChooseKind, Kinds
  <2>8. CASE ChooseModel
    BY <1>1, <2>8, Edited DEF ChooseModel
  <2> QED
    BY <1>2, <2>1, <2>2, <2>3, <2>4, <2>5, <2>6, <2>7, <2>8 DEF Act, QueryAct
<1>3. CASE Names
  BY <1>1, <1>3, Edited DEF Names
<1>4. CASE Voice
  BY <1>1, <1>4, Edited DEF Voice, Browser, Granted, Refused, RecognitionEnds, MicrophoneLost,
     Silence, Apart
<1>5. CASE Searching
  BY <1>5, SearchingStep
<1>6. CASE UNCHANGED vars
  BY <1>1, <1>6, Edited DEF vars
<1> QED
  BY <1>2, <1>3, <1>4, <1>5, <1>6 DEF Next

LEMMA StartsWell == Init => ExclusionsInv /\ SearchesInv /\ HistoryInv
<1> SUFFICES ASSUME Init PROVE ExclusionsInv /\ SearchesInv /\ HistoryInv
  OBVIOUS
<1>1. /\ excluded = <<>> /\ rows = <<>> /\ text = NoText /\ kind = "text"
      /\ searches = <<>> /\ filters = <<>> /\ looked = <<>> /\ history = {}
  BY DEF Init, PanelInit
<1>2. temporal = FALSE
  BY DEF Init
<1>3. ExclusionsInv
  BY <1>1 DEF ExclusionsInv, ListShowsExclusions, IsInjective
<1>4. SearchesInv
  <2>1. temporal \in BOOLEAN
    BY <1>2
  <2>2. text \in Texts /\ kind \in Kinds
    BY <1>1, QueryAssumption DEF Kinds
  <2>3. /\ searches \in Seq(Searches) /\ Len(searches) = 0
        /\ filters \in Seq(Range(filters)) /\ Len(filters) = 0
        /\ looked \in Seq(Range(looked)) /\ Len(looked) = 0
    BY <1>1 DEF Range
  <2> QED
    BY <2>1, <2>2, <2>3 DEF SearchesInv
<1>5. HistoryInv
  BY <1>1 DEF HistoryInv, HistoryTellsTheSearch
<1> QED
  BY <1>3, <1>4, <1>5

\* For any number of searches translated and answered in any order, whatever is
\* done to the form meanwhile: what displaySearchHistory offers tells the filters,
\* the query and the type of its search as they were when it was submitted.
THEOREM HistoryIsTold == Spec => []HistoryTellsTheSearch
<1> DEFINE Inv == ExclusionsInv /\ SearchesInv /\ HistoryInv
<1>1. Init => Inv
  BY StartsWell
<1>2. Inv /\ [Next]_vars => Inv'
  BY ExclusionsStep, HistoryStep
<1>3. Inv => HistoryTellsTheSearch
  BY DEF HistoryInv
<1> QED
  BY <1>1, <1>2, <1>3, PTL DEF Spec
------------------------------------------------------------------------------
(***************************************************************************)
(* The dropdown of video names.                                            *)
(***************************************************************************)
Offers == {<<>>} \cup {GetVideoNames(B) : B \in SUBSET Batches}

\* The latest question was asked for the batches that are checked now.
LatestAsksForChecked == \A q \in pending : q.n = asks => q.batches = batches

NamesInv ==
  /\ batches \subseteq Batches /\ asks \in 1..MaxAsks
  /\ pending \subseteq [n : 1..asks, batches : SUBSET Batches]
  /\ options \in Offers
  /\ filler \in 0..asks /\ selected \subseteq Range(options)
  /\ LatestAsksForChecked
  /\ filler = asks => options = GetVideoNames(batches)

\* The filters of a search were typed, or filled in by the page, or empty.
TypedInv ==
  /\ typed \in Typings \cup {NoTyping}
  /\ \A i \in 1..Len(looked) : looked[i].filters.typed \in Typings \cup {NoTyping}

\* A question is about the batches as the handler has left them.
LEMMA Asked ==
  ASSUME NamesInv, NEW B \in SUBSET Batches, FetchVideoNames(B), batches' = B,
         UNCHANGED <<options, filler, selected>>
  PROVE  NamesInv'
<1> DEFINE q == [n |-> asks + 1, batches |-> B]
<1>1. /\ asks \in 1..MaxAsks /\ asks < MaxAsks /\ asks' = asks + 1
      /\ pending' = pending \cup {q} /\ filler \in 0..asks
  BY DEF NamesInv, FetchVideoNames
<1>2. MaxAsks \in Nat
  BY PanelAssumption
<1>3. asks' \in 1..MaxAsks /\ filler' \in 0..asks' /\ filler' # asks'
  BY <1>1, <1>2
<1>4. q \in [n : 1..asks', batches : SUBSET Batches]
  BY <1>1, <1>2
<1>5. q.n = asks' /\ q.batches = batches'
  BY <1>1
<1> HIDE DEF q
<1>6. ASSUME NEW p \in pending
      PROVE  p \in [n : 1..asks', batches : SUBSET Batches] /\ p.n # asks'
  <2>1. p \in [n : 1..asks, batches : SUBSET Batches]
    BY DEF NamesInv
  <2>2. p.n \in 1..asks /\ p.batches \in SUBSET Batches /\ p = [n |-> p.n, batches |-> p.batches]
    BY <2>1
  <2>3. p.n \in 1..asks' /\ p.n # asks'
    BY <1>1, <1>2, <2>2
  <2> QED
    BY <2>2, <2>3
<1>7. pending' \subseteq [n : 1..asks', batches : SUBSET Batches]
  BY <1>1, <1>4, <1>6
<1>8. LatestAsksForChecked'
  BY <1>1, <1>5, <1>6 DEF LatestAsksForChecked
<1>9. options' \in Offers /\ selected' \subseteq Range(options')
  BY DEF NamesInv
<1> QED
  BY <1>3, <1>7, <1>8, <1>9 DEF NamesInv, Offers

\* Names that arrive for the latest question are those of the checked batches.
LEMMA NamesCome ==
  ASSUME NamesInv, NEW q \in pending, NamesArrive(q) \/ NamesMissing(q) \/ NamesFail(q)
  PROVE  NamesInv'
<1>1. q \in [n : 1..asks, batches : SUBSET Batches] /\ asks \in Nat
  BY PanelAssumption DEF NamesInv
<1>2. q.n \in 1..asks /\ q.batches \in SUBSET Batches
  BY <1>1
<1>3. CASE NamesArrive(q)
  <2>1. /\ pending' = pending \ {q} /\ options' = GetVideoNames(q.batches)
        /\ filler' = q.n /\ selected' = {} /\ UNCHANGED <<batches, asks>>
    BY <1>3 DEF NamesArrive
  <2>2. options' \in Offers /\ filler' \in 0..asks'
    BY <1>1, <1>2, <2>1 DEF Offers
  <2>3. filler' = asks' => options' = GetVideoNames(batches')
    BY <2>1 DEF NamesInv, LatestAsksForChecked
  <2>4. pending' \subseteq [n : 1..asks', batches : SUBSET Batches] /\ LatestAsksForChecked'
    BY <2>1 DEF NamesInv, LatestAsksForChecked
  <2> QED
    BY <2>1, <2>2, <2>3, <2>4 DEF NamesInv, Offers
<1>4. CASE NamesFail(q)
  <2>1. pending' = pending \ {q} /\ UNCHANGED <<batches, asks, options, filler, selected>>
    BY <1>4 DEF NamesFail
  <2> QED
    BY <2>1 DEF NamesInv, Offers, LatestAsksForChecked
<1>5. CASE NamesMissing(q)
  <2>1. /\ pending' = pending \ {q} /\ options' = <<>> /\ filler' = 0 /\ selected' = {}
        /\ UNCHANGED <<batches, asks>>
    BY <1>5 DEF NamesMissing
  <2>2. filler' \in 0..asks' /\ filler' # asks'
    BY <1>1, <1>2, <2>1
  <2> QED
    BY <2>1, <2>2 DEF NamesInv, Offers, LatestAsksForChecked
<1> QED
  BY <1>3, <1>4, <1>5

\* What leaves the questions alone may at most empty the dropdown or select in it.
LEMMA NamesKept ==
  ASSUME NamesInv, UNCHANGED <<batches, asks, pending>>,
         \/ options' = options /\ filler' = filler /\ selected' \subseteq Range(options)
         \/ options' = <<>> /\ filler' = 0 /\ selected' = {}
  PROVE  NamesInv'
<1>1. asks \in 1..MaxAsks /\ MaxAsks \in Nat
  BY PanelAssumption DEF NamesInv
<1>2. 0 \in 0..asks /\ asks # 0
  BY <1>1
<1> QED
  BY <1>2 DEF NamesInv, Offers, LatestAsksForChecked

LEMMA NamesStep ==
  ASSUME NamesInv, [Next]_vars
  PROVE  NamesInv'
<1>0. selected \subseteq Range(options) /\ batches \subseteq Batches
  BY DEF NamesInv
<1>1. CASE UNCHANGED nameVars
  BY <1>0, <1>1, NamesKept DEF nameVars
<1>2. CASE AskAgain
  BY <1>0, <1>2, Asked DEF AskAgain
<1>3. ASSUME NEW b \in Batches, ToggleBatch(b)
      PROVE  NamesInv'
  <2>1. batches' \in SUBSET Batches
    BY <1>0, <1>3 DEF ToggleBatch
  <2> QED
    BY <1>3, <2>1, Asked DEF ToggleBatch
<1>4. ASSUME NEW n \in Range(options), SelectName(n)
      PROVE  NamesInv'
  BY <1>0, <1>4, NamesKept DEF SelectName
<1>5. CASE ResetFilters
  BY <1>5, NamesKept DEF ResetFilters
<1>6. ASSUME NEW c \in history, LoadSearchContext(c)
      PROVE  NamesInv'
  <2>1. selected' \subseteq Range(options) /\ UNCHANGED <<batches, asks, pending, options, filler>>
    BY <1>0, <1>6 DEF LoadSearchContext, SetFilters
  <2> QED
    BY <2>1, NamesKept
<1>7. ASSUME NEW q \in pending, NamesArrive(q) \/ NamesMissing(q) \/ NamesFail(q)
      PROVE  NamesInv'
  BY <1>7, NamesCome
<1>8. CASE Act
  <2>1. CASE PanelAct
    <3>1. CASE \/ \E t \in Typings \ {SegmentTimes} : TypeFilters(t)
               \/ \E f \in Frames : AddExcludedFrame(f)
               \/ \E i \in DOMAIN rows : RemoveRow(i)
      BY <1>1, <3>1 DEF TypeFilters, AddExcludedFrame, RemoveRow
    <3> QED
      BY <1>2, <1>3, <1>4, <1>5, <2>1, <3>1 DEF PanelAct
  <2>2. CASE VoiceAct
    BY <1>1, <2>2 DEF VoiceAct, panelVars
  <2>3. CASE QueryAct
    <3>1. CASE \/ \E translate \in BOOLEAN : Submit(translate)
               \/ \E v \in DOMAIN Folder : ScrollSearch(v)
      BY <1>1, <3>1 DEF Submit, ScrollSearch, formVars, panelVars
    <3>2. CASE \/ \E t \in Written \cup {NoText} : Write(t)
               \/ \E k \in {"text", "image"} : ChooseKind(k)
               \/ ChooseModel
      BY <1>1, <3>2 DEF Write, ChooseKind, ChooseModel, panelVars
    <3> QED
      BY <1>6, <2>3, <3>1, <3>2 DEF QueryAct
  <2> QED
    BY <1>8, <2>1, <2>2, <2>3 DEF Act
<1>9. CASE Names
  BY <1>7, <1>9 DEF Names
<1>10. CASE Voice
  BY <1>1, <1>10 DEF Voice, Apart, panelVars
<1>11. CASE Searching
  BY <1>1, <1>11 DEF Searching, Translated, Fails, Answered, formVars, panelVars
<1>12. CASE UNCHANGED vars
  BY <1>1, <1>12 DEF vars, panelVars
<1> QED
  BY <1>8, <1>9, <1>10, <1>11, <1>12 DEF Next

\* A search remembers what was typed, or the times of a shot.
LEMMA Remembered ==
  ASSUME TypedInv, SearchesInv, NEW look, looked' = Append(looked, look),
         look.filters.typed \in Typings \cup {NoTyping}, typed' = typed
  PROVE  TypedInv'
<1>1. /\ Len(looked') = Len(looked) + 1 /\ Len(looked) \in Nat
      /\ \A i \in 1..Len(looked) : looked'[i] = looked[i]
      /\ looked'[Len(looked) + 1] = look
  BY Longer DEF SearchesInv
<1>2. ASSUME NEW i \in 1..(Len(looked) + 1)
      PROVE  looked'[i].filters.typed \in Typings \cup {NoTyping}
  <2>1. CASE i \in 1..Len(looked)
    BY <1>1, <2>1 DEF TypedInv
  <2>2. CASE i = Len(looked) + 1
    BY <1>1, <2>2
  <2> QED
    BY <1>1, <2>1, <2>2
<1> QED
  BY <1>1, <1>2 DEF TypedInv

LEMMA TypedStep ==
  ASSUME TypedInv, SearchesInv, HistoryInv, [Next]_vars
  PROVE  TypedInv'
<1>1. CASE typed' \in Typings \cup {NoTyping} /\ UNCHANGED looked
  BY <1>1 DEF TypedInv
<1>2. typed \in Typings \cup {NoTyping} /\ SegmentTimes \in Typings
  BY QueryAssumption DEF TypedInv
<1>3. CASE Act
  <2>1. CASE PanelAct
    <3>1. looked' = looked
      BY <2>1 DEF PanelAct, searchVars
    <3>2. typed' \in Typings \cup {NoTyping}
      BY <1>2, <2>1 DEF PanelAct, AskAgain, ResetFilters, ToggleBatch, SelectName, TypeFilters,
         AddExcludedFrame, RemoveRow
    <3> QED
      BY <1>1, <3>1, <3>2
  <2>2. CASE VoiceAct
    BY <1>1, <1>2, <2>2 DEF VoiceAct, panelVars, searchVars
  <2>3. ASSUME NEW translate \in BOOLEAN, Submit(translate)
        PROVE  TypedInv'
    <3> DEFINE l == [text |-> text, kind |-> kind, temporal |-> temporal,
                     filters |-> ShownFilters]
    <3>1. l.filters.typed = typed
      BY DEF ShownFilters
    <3>2. looked' = Append(looked, l) /\ typed' = typed
      BY <2>3 DEF Submit, formVars, panelVars
    <3> HIDE DEF l
    <3> QED
      BY <1>2, <3>1, <3>2, Remembered
  <2>4. ASSUME NEW v \in DOMAIN Folder, ScrollSearch(v)
        PROVE  TypedInv'
    <3> DEFINE l == [text |-> NoText, kind |-> "scroll", temporal |-> FALSE,
                     filters |-> ShotFilters(v)]
    <3>1. l.filters.typed = SegmentTimes
      BY DEF ShotFilters
    <3>2. looked' = Append(looked, l) /\ typed' = typed
      BY <2>4 DEF ScrollSearch, formVars, panelVars
    <3> HIDE DEF l
    <3> QED
      BY <1>2, <3>1, <3>2, Remembered
  <2>5. ASSUME NEW c \in history, LoadSearchContext(c)
        PROVE  TypedInv'
    <3>1. c.search \in 1..Len(looked) /\ c.filters = looked[c.search].filters
      BY DEF HistoryInv, HistoryTellsTheSearch
    <3>2. c.filters.typed \in Typings \cup {NoTyping}
      BY <3>1 DEF TypedInv
    <3>3. typed' = c.filters.typed /\ looked' = looked
      BY <2>5 DEF LoadSearchContext, SetFilters, searchVars
    <3> QED
      BY <1>1, <3>2, <3>3
  <2>6. CASE \/ \E t \in Written \cup {NoText} : Write(t)
             \/ \E k \in {"text", "image"} : ChooseKind(k)
             \/ ChooseModel
    BY <1>1, <1>2, <2>6 DEF Write, ChooseKind, ChooseModel, panelVars, searchVars
  <2> QED
    BY <1>3, <2>1, <2>2, <2>3, <2>4, <2>5, <2>6 DEF Act, QueryAct
<1>4. CASE Names
  BY <1>1, <1>2, <1>4 DEF Names, NamesArrive, NamesMissing, NamesFail, searchVars
<1>5. CASE Voice
  BY <1>1, <1>2, <1>5 DEF Voice, Apart, panelVars, searchVars
<1>6. CASE Searching
  BY <1>1, <1>2, <1>6 DEF Searching, Translated, Fails, Answered, formVars, panelVars
<1>7. CASE UNCHANGED vars
  BY <1>1, <1>2, <1>7 DEF vars, panelVars, searchVars
<1> QED
  BY <1>3, <1>4, <1>5, <1>6, <1>7 DEF Next

\* For any batches and any number of questions for names, answered or refused in
\* any order: a dropdown of filterPanel.js filled by the answer to the latest one
\* offers the videos of the batches checked now, and what is selected is offered.
THEOREM DropdownIsRight == Spec => []DropdownFollowsBatches
<1> DEFINE Inv == ExclusionsInv /\ SearchesInv /\ HistoryInv /\ NamesInv /\ TypedInv
<1>1. Init => Inv
  <2> SUFFICES ASSUME Init PROVE Inv
    OBVIOUS
  <2>1. ExclusionsInv /\ SearchesInv /\ HistoryInv
    BY StartsWell
  <2>2. NamesInv
    <3>1. /\ batches = Batches /\ asks = 1 /\ pending = {[n |-> 1, batches |-> Batches]}
          /\ options = <<>> /\ filler = 0 /\ selected = {}
      BY DEF Init, PanelInit
    <3>2. 1 \in 1..MaxAsks /\ 0 \in 0..1 /\ 1 \in 1..1
      BY PanelAssumption
    <3>3. LatestAsksForChecked
      BY <3>1 DEF LatestAsksForChecked
    <3> QED
      BY <3>1, <3>2, <3>3 DEF NamesInv, Offers
  <2>3. TypedInv
    BY DEF Init, PanelInit, TypedInv
  <2> QED
    BY <2>1, <2>2, <2>3
<1>2. Inv /\ [Next]_vars => Inv'
  BY ExclusionsStep, HistoryStep, NamesStep, TypedStep
<1>3. Inv => DropdownFollowsBatches
  BY DEF DropdownFollowsBatches, PanelTypeOK, NamesInv, TypedInv, ExclusionsInv,
     ListShowsExclusions, Offers
<1> QED
  BY <1>1, <1>2, <1>3, PTL DEF Spec
==============================================================================
