----------------------------- MODULE SearchPage ------------------------------
(***************************************************************************)
(* The search page in use: the submit handler and performScrollSearch of   *)
(* searchHandler.js, the query history (queryHistory.js) kept in           *)
(* sessionStorage, the loading overlay shared by every request, and the    *)
(* result pane.                                                            *)
(*                                                                         *)
(* A handler is atomic up to its next await.  Nothing numbers or cancels   *)
(* requests, and Enter in the query box submits under the overlay, so      *)
(* several searches can be in flight and be answered in any order.         *)
(*                                                                         *)
(* Bounds: MaxSearches requests are issued in all; the history holds       *)
(* HistoryCap entries (20 in the code).                                    *)
(***************************************************************************)
EXTENDS ResultPane, Sequences, SequencesExt

CONSTANTS MaxSearches, HistoryCap

ASSUME SearchAssumption == MaxSearches \in Nat /\ HistoryCap \in Nat \ {0}

Searches == 1 .. MaxSearches

VARIABLES
  stage,     \* stage[i]: where the handler of the i-th request stands
  issued,    \* number of requests issued
  history,   \* queryHistory.js history: contexts, newest first
  stored,    \* sessionStorage 'searchHistory'
  dropdown,  \* the contexts the dropdown lists
  overlay,   \* the loading overlay is displayed
  log        \* history variable: every context answered, oldest first

searchVars == <<stage, issued, history, stored, dropdown, overlay, log>>
vars == <<paneVars, searchVars>>

\* A search context: the request and the results it was answered with.
Contexts == [search : Searches, results : Results]

InFlight == {i \in Searches : stage[i] \in {"translating", "fetching", "submitting"}}
------------------------------------------------------------------------------
Init ==
  /\ PaneInit
  /\ stage = [i \in Searches |-> "idle"]
  /\ issued = 0
  /\ history = <<>> /\ stored = <<>> /\ dropdown = <<>> /\ log = <<>>
  /\ overlay = FALSE

\* The next request enters stage s, under the overlay.
Issue(s) ==
  /\ issued < MaxSearches
  /\ issued' = issued + 1
  /\ stage' = [stage EXCEPT ![issued + 1] = s]
  /\ overlay' = TRUE

\* The submit handler up to its first await: the translation of a text query
\* with auto-translate on, or the search itself.
SubmitForm == Issue("translating") \/ Issue("fetching")

\* Variant with a plausible slip; nothing but a mutation run uses it.
RefuseFormUnderOverlay ==
  /\ overlay' = TRUE
  /\ UNCHANGED <<stage, issued>>

\* A form the handler refuses (no route for the model, no image): the overlay
\* is shown, then hidden on the way out, whoever else wanted it.
RefuseForm ==
  /\ overlay' = FALSE
  /\ UNCHANGED <<stage, issued>>

\* The news button of a thumbnail on screen: performScrollSearch.
ScrollSearch == screen.shown.items # {} /\ Issue("fetching")

\* The DRES submit button of the other tab uses the same overlay.
SubmitToDres == Issue("submitting")

Start ==
  /\ SubmitForm \/ RefuseForm \/ ScrollSearch \/ SubmitToDres
  /\ UNCHANGED <<paneVars, history, stored, dropdown, log>>

Leaves(i, s) == stage' = [stage EXCEPT ![i] = s]

\* The translation arrives and the search is sent.
Translated(i) ==
  /\ stage[i] = "translating"
  /\ Leaves(i, "fetching")
  /\ UNCHANGED <<paneVars, issued, history, stored, dropdown, overlay, log>>

\* Variant with a plausible slip; nothing but a mutation run uses it.
GiveUpUnderOverlay(i) ==
  /\ i \in InFlight
  /\ Leaves(i, "done")
  /\ UNCHANGED <<paneVars, issued, history, stored, dropdown, overlay, log>>

\* Translation or search fails, or the answer is malformed: alert, and the
\* finally clause hides the overlay.  So does a DRES submission, failed or not.
GiveUp(i) ==
  /\ i \in InFlight
  /\ Leaves(i, "done")
  /\ overlay' = FALSE
  /\ UNCHANGED <<paneVars, issued, history, stored, dropdown, log>>

AtMost(n) == IF n < HistoryCap THEN n ELSE HistoryCap

\* Variant with a plausible slip; nothing but a mutation run uses it.
RememberLast(c) == SubSeq(Append(history, c), 1, AtMost(Len(history) + 1))

\* window.updateQueryHistory: newest first, cut at the cap.
Remember(c) == SubSeq(<<c>> \o history, 1, AtMost(Len(history) + 1))

\* An answer: remembered, stored, listed, drawn, in one uninterrupted run.
Answered(i, r) ==
  /\ stage[i] = "fetching"
  /\ Leaves(i, "done")
  /\ history' = Remember([search |-> i, results |-> r])
  /\ stored' = history'
  /\ dropdown' = history'
  /\ log' = Append(log, [search |-> i, results |-> r])
  /\ Render(r)
  /\ overlay' = FALSE
  /\ UNCHANGED issued

\* Variant with a plausible slip; nothing but a mutation run uses it.
StorageFullListed(i, r) ==
  /\ stage[i] = "fetching"
  /\ Leaves(i, "done")
  /\ history' = Remember([search |-> i, results |-> r])
  /\ dropdown' = history'
  /\ log' = Append(log, [search |-> i, results |-> r])
  /\ overlay' = FALSE
  /\ UNCHANGED <<paneVars, issued, stored>>

\* sessionStorage is full: setItem throws after `history` was replaced and
\* before the dropdown and the pane are updated; the catch clause alerts.
StorageFull(i, r) ==
  /\ stage[i] = "fetching"
  /\ Leaves(i, "done")
  /\ history' = Remember([search |-> i, results |-> r])
  /\ log' = Append(log, [search |-> i, results |-> r])
  /\ overlay' = FALSE
  /\ UNCHANGED <<paneVars, issued, stored, dropdown>>

\* The previous-query link draws the newest entry of `history`.
LoadPrevious ==
  /\ history # <<>>
  /\ Render(history[1].results)
  /\ UNCHANGED searchVars

\* Choosing the k-th option draws the k-th entry of `history`, which is the
\* one the option names only if the dropdown is up to date.
LoadFromDropdown(k) ==
  /\ k \in DOMAIN dropdown /\ k \in DOMAIN history
  /\ Render(history[k].results)
  /\ UNCHANGED searchVars

\* The clear button has no type, so it also submits the form it is in.
ClearHistory ==
  /\ history' = <<>> /\ stored' = <<>> /\ dropdown' = <<>> /\ log' = <<>>
  /\ SubmitForm \/ RefuseForm
  /\ UNCHANGED paneVars

\* Enter in the filter panel calls form.submit(), which no listener sees: the
\* browser leaves the page for the answer to POST '/', an error since the hub
\* serves it for GET only, and requests in flight are lost.  The page as the user
\* loads it again has what sessionStorage kept.
Reload ==
  /\ PageLoad
  /\ stage' = [i \in Searches |-> IF i \in InFlight THEN "done" ELSE stage[i]]
  /\ history' = stored
  /\ dropdown' = stored
  /\ log' = Reverse(stored)
  /\ overlay' = FALSE
  /\ UNCHANGED <<issued, stored>>

Finish(i) == Translated(i) \/ GiveUp(i) \/ \E r \in Results : Answered(i, r) \/ StorageFull(i, r)

Next ==
  \/ Start
  \/ \E i \in Searches : Finish(i)
  \/ LoadPrevious
  \/ \E k \in 1 .. HistoryCap : LoadFromDropdown(k)
  \/ ClearHistory
  \/ Reload
  \/ UserEvent /\ UNCHANGED searchVars

\* Every request is answered or fails: the hub gives up after REQUEST_TIMEOUT,
\* and the browser reports a dead connection.  The user promises nothing.
Fairness == \A i \in Searches : WF_vars(Finish(i))

Spec == Init /\ [][Next]_vars /\ Fairness
------------------------------------------------------------------------------
(***************************************************************************)
(* Properties.                                                             *)
(***************************************************************************)
SearchTypeOK ==
  /\ stage \in [Searches -> {"idle", "translating", "fetching", "submitting", "done"}]
  /\ issued \in 0 .. MaxSearches
  /\ history \in Seq(Contexts) /\ stored \in Seq(Contexts)
  /\ dropdown \in Seq(Contexts) /\ log \in Seq(Contexts)
  /\ overlay \in BOOLEAN
  /\ Len(history) <= HistoryCap /\ Len(stored) <= HistoryCap

\* The overlay never outlives the requests: if it is displayed, something is
\* in flight that will hide it (every exit path of the three handlers does).
OverlayMeansPending == overlay => InFlight # {}

\* The overlay is always lifted again.
OverlayLifts == overlay ~> ~overlay

\* A reload restores exactly the entries the dropdown showed, also when an
\* earlier write to sessionStorage failed.
StoredIsListed == stored = dropdown

\* The history lists the answers of the session, newest first, each once, and
\* only the oldest are cut: whatever the order in which overlapping searches
\* were answered, a full storage included.  An entry is made by one answer of one
\* request that is over.
HistoryIsRecentAnswers ==
  /\ SearchTypeOK
  /\ history = SubSeq(Reverse(log), 1, AtMost(Len(log)))
  /\ \A c \in Range(history) \cup Range(stored) : stage[c.search] = "done"
  /\ IsInjective([k \in DOMAIN history |-> history[k].search])
==============================================================================
