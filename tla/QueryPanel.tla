----------------------------- MODULE QueryPanel ------------------------------
(***************************************************************************)
(* The query form in use: the filter panel and the spoken query, the       *)
(* submit handler of searchHandler.js, which reads the form, may wait for  *)
(* a translation, sends the search and remembers it with what it has read, *)
(* and loadSearchContext, which fills the form from an earlier search.     *)
(*                                                                         *)
(* A handler is atomic up to its next await.  A text and a query type stand *)
(* for the query; of the model it matters whether it is a temporal one; k  *)
(* and the check boxes are read and restored like the text filters and     *)
(* left out, as are images.  The order and the cap of the history are in   *)
(* SearchPage.                                                             *)
(*                                                                         *)
(* Bounds: MaxSearches searches; MaxActs acts of the user in all.          *)
(***************************************************************************)
EXTENDS FilterPanel, VoiceInput

CONSTANTS
  Texts,         \* what the query box may hold
  Written,       \* what may be typed
  NoText,
  Stories,       \* texts of more than one sentence
  Translation,   \* Translation[t]: what the translator makes of t
  SegmentTimes,  \* the times of a shot, as performScrollSearch fills them in
  MaxSearches, MaxActs

ASSUME QueryAssumption ==
  /\ Written \cup {Spoken} \subseteq Texts \ {NoText} /\ NoText \in Texts
  /\ Stories \subseteq Texts \ {NoText}
  /\ Translation \in [Texts \ {NoText} -> Texts]
  /\ SegmentTimes \in Typings
  /\ MaxSearches \in Nat /\ MaxActs \in Nat

VARIABLES
  kind,      \* the query type chosen: "text" or "image"
  temporal,  \* the model chosen is a temporal one
  searches,  \* searches[i]: stage, text, type and model of the i-th search
  filters,   \* filters[i]: the filters its handler has read
  looked,    \* history: looked[i]: the form on display when i was submitted
  history,   \* the contexts remembered
  acts       \* acts of the user so far

formVars == <<panelVars, text, kind, temporal>>
searchVars == <<searches, filters, looked, history>>
vars == <<panelVars, text, voiceVars, kind, temporal, searchVars, acts>>

\* The filters as the page shows them.
ShownFilters ==
  [names |-> SelectSeq(options, LAMBDA n : n \in selected), typed |-> typed,
   skips |-> rows, listed |-> TRUE]

\* The type a search is sent with: a text search without a text scrolls, and
\* one for several sentences with a temporal model is temporal.
QueryType(k, t, model) ==
  IF k = "text" /\ t = NoText THEN "scroll"
  ELSE IF k = "text" /\ t \in Stories /\ model THEN "temporal" ELSE k

\* With a temporal model chosen a scroll and an image search have no route.
HasRoute(k, t, model) == model => QueryType(k, t, model) \in {"text", "temporal"}

\* Once its text is final a search is sent, or ends in an alert.
Sent(k, t, model) == IF HasRoute(k, t, model) THEN "fetching" ELSE "over"

ContextOf(i) ==
  [search |-> i, query |-> searches[i].text,
   type |-> QueryType(searches[i].kind, searches[i].text, searches[i].temporal),
   filters |-> filters[i]]

Init ==
  /\ PanelInit /\ VoiceInit
  /\ text = NoText /\ kind = "text" /\ temporal = FALSE
  /\ searches = <<>> /\ filters = <<>> /\ looked = <<>> /\ history = {}
  /\ acts = 0
------------------------------------------------------------------------------
\* Submit: text, filters, type and model are read before the first await.  An
\* image search and an empty text are not translated.
Submit(translate) ==
  /\ Len(searches) < MaxSearches
  /\ searches' = Append(searches,
       [stage |-> IF translate /\ kind = "text" /\ text # NoText
                  THEN "translating" ELSE Sent(kind, text, temporal),
        text |-> text, kind |-> kind, temporal |-> temporal])
  /\ filters' = Append(filters, GetFilters)
  /\ looked' = Append(looked, [text |-> text, kind |-> kind, temporal |-> temporal,
                               filters |-> ShownFilters])
  /\ UNCHANGED <<formVars, voiceVars, history>>

ShotFilters(v) == [names |-> <<v>>, typed |-> SegmentTimes, skips |-> <<>>, listed |-> FALSE]

\* The news button of a thumbnail: the shot's video and times, nothing else of
\* the form; a temporal model stands for its plain one.
ScrollSearch(v) ==
  /\ Len(searches) < MaxSearches
  /\ searches' = Append(searches, [stage |-> "fetching", text |-> NoText,
                                   kind |-> "scroll", temporal |-> FALSE])
  /\ filters' = Append(filters, ShotFilters(v))
  /\ looked' = Append(looked, [text |-> NoText, kind |-> "scroll", temporal |-> FALSE,
                               filters |-> ShotFilters(v)])
  /\ UNCHANGED <<formVars, voiceVars, history>>

\* The translation replaces what the query box holds by then.
Translated(i) ==
  /\ searches[i].stage = "translating"
  /\ text' = Translation[searches[i].text]
  /\ searches' = [searches EXCEPT ![i] =
       [stage |-> Sent(searches[i].kind, text', searches[i].temporal), text |-> text',
        kind |-> searches[i].kind, temporal |-> searches[i].temporal]]
  /\ UNCHANGED <<panelVars, voiceVars, kind, temporal, filters, looked, history, acts>>

Over(i) == searches' = [searches EXCEPT ![i].stage = "over"]

\* The translation or the search fails: an alert.
Fails(i) ==
  /\ searches[i].stage \in {"translating", "fetching"}
  /\ Over(i)
  /\ UNCHANGED <<formVars, voiceVars, filters, looked, history, acts>>

\* Variant with a plausible slip; nothing but a mutation run uses it.
AnsweredWithTheForm(i) ==
  /\ searches[i].stage = "fetching"
  /\ Over(i)
  /\ history' = history \cup {[ContextOf(i) EXCEPT !.filters = GetFilters]}
  /\ UNCHANGED <<formVars, voiceVars, filters, looked, acts>>

Answered(i) ==
  /\ searches[i].stage = "fetching"
  /\ Over(i)
  /\ history' = history \cup {ContextOf(i)}
  /\ UNCHANGED <<formVars, voiceVars, filters, looked, acts>>

\* loadSearchContext: a scroll or temporal search leaves the query type as it
\* is; the model remembered is the one the search was sent with.
LoadSearchContext(c) ==
  /\ text' = c.query
  /\ kind' = IF c.type \in {"scroll", "temporal"} THEN kind ELSE c.type
  /\ temporal' = (c.type = "temporal")
  /\ SetFilters(c.filters)
  /\ UNCHANGED <<voiceVars, searchVars>>

\* Typing, or pasting outside a text field, which also chooses "text".
Write(t) ==
  /\ t # text
  /\ text' = t
  /\ kind' \in {kind, "text"}
  /\ UNCHANGED <<panelVars, voiceVars, temporal, searchVars>>

\* The query type's radio button, or an image dropped or pasted.
ChooseKind(k) ==
  /\ k # kind
  /\ kind' = k
  /\ UNCHANGED <<panelVars, text, voiceVars, temporal, searchVars>>

\* Another model, temporal if this one is not and the other way round.
ChooseModel ==
  /\ temporal' = ~temporal
  /\ UNCHANGED <<panelVars, text, voiceVars, kind, searchVars>>

PanelAct ==
  /\ \/ AskAgain \/ ResetFilters
     \/ \E b \in Batches : ToggleBatch(b)
     \/ \E n \in Range(options) : SelectName(n)
     \/ \E t \in Typings \ {SegmentTimes} : TypeFilters(t)
     \/ \E f \in Frames : AddExcludedFrame(f)
     \/ \E i \in DOMAIN rows : RemoveRow(i)
  /\ UNCHANGED <<text, voiceVars, kind, temporal, searchVars>>

VoiceAct ==
  /\ ClickStart \/ ClickStop \/ Heard
  /\ UNCHANGED <<panelVars, kind, temporal, searchVars>>

QueryAct ==
  \/ \E translate \in BOOLEAN : Submit(translate)
  \/ \E v \in DOMAIN Folder : ScrollSearch(v)
  \/ \E c \in history : LoadSearchContext(c)
  \/ \E t \in Written \cup {NoText} : Write(t)
  \/ \E k \in {"text", "image"} : ChooseKind(k)
  \/ ChooseModel

Act ==
  /\ acts < MaxActs
  /\ acts' = acts + 1
  /\ PanelAct \/ VoiceAct \/ QueryAct

\* The answers to questions for names.
Names ==
  /\ \E q \in pending : NamesArrive(q) \/ NamesMissing(q) \/ NamesFail(q)
  /\ UNCHANGED <<text, voiceVars, kind, temporal, searchVars, acts>>

Apart == UNCHANGED <<panelVars, kind, temporal, searchVars, acts>>

Voice == (Browser /\ Apart) \/ (Silence /\ Apart)

Searching == \E i \in DOMAIN searches : Translated(i) \/ Fails(i) \/ Answered(i)

Next == Act \/ Names \/ Voice \/ Searching

\* The silence timer fires; nothing else need ever happen.
Spec == Init /\ [][Next]_vars /\ WF_vars(Silence /\ Apart)
------------------------------------------------------------------------------
(***************************************************************************)
(* Properties.                                                             *)
(***************************************************************************)
\* A text as it is searched: as it is, or translated.
Wordings(t) == {t} \cup {Translation[u] : u \in {t} \ {NoText}}

\* Whatever is typed, spoken, selected, excluded, reset or restored while a
\* search is translated and answered, and whichever search is answered first,
\* an entry of the history tells the filters that were on display when the
\* user submitted it, with the query, translated or not, and the type that the
\* form and the model chosen then make of that query.
HistoryTellsTheSearch ==
  \A c \in history :
    /\ c.filters = looked[c.search].filters
    /\ c.query \in Wordings(looked[c.search].text)
    /\ c.type = QueryType(looked[c.search].kind, c.query, looked[c.search].temporal)
==============================================================================
