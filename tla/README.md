# A TLA+ model of the SIU_Pumpking video retrieval system

SIU_Pumpking answers "find this moment" queries over a corpus of news videos.
A browser page sends a text, image or multi-scene query to a hub; the hub
forwards it to a model service that encodes it and searches a vector
collection; the answer is drawn as a grid of thumbnails or a table of scenes;
and the frame the user settles on is submitted to a DRES evaluation server.

This directory models the parts whose correctness depends on the order of
events or on the arithmetic of boundaries, checks them with TLC on small
instances, and proves theorems about them with TLAPS for every value of the
constants.  Paths below are relative to the repository.  `PROJECT.json` maps
every definition to the lines it models.

1. Inventory · 2. Modules · 3. Runs and bounds · 4. Fairness · 5. Proofs ·
6. Disagreements and observations · 7. Not modelled · 8. State of the plan

## 1. Inventory

### Processes and how they talk

```
 page (static/js, one event loop per tab)
   |  fetch, no client timeout, several requests in flight at once
 hub  (handlers/hub_handler.py, 5 workers, async httpx, REQUEST_TIMEOUT = 10 s)
   |            |                 |                |
 model service  util service   rerank service   submission service
 (SIGLIP v2 /   (translation,  (colour sort)    (5 workers, each with its own
 METACLIP /      neighbours,                     login; blocking requests,
 METACLIP v2,    names)                          no timeout)
 1 worker)                                           |
   |                                             DRES server
 Qdrant (the vector collection; survives the service)

 nginx (images and videos to the page): one master that forks, tells and reaps
 its workers; each worker an event loop over epoll, timers and posted events
```

The page is event driven: a handler runs to its next `await` without
interruption, then any other handler may run.  Nothing numbers, cancels or
times out the page's requests.  The model service runs its searches one by one
on its event loop, but `setup_database_handler` is a plain function and runs in
a thread beside them.

### Components

| Component | State it keeps | Operations | Hard behaviour | Correct when |
|---|---|---|---|---|
| **Result pane** `pagination.js`, `paginationTemporal.js`, `sliderControls.js`, `searchHandler.js` `renderResults`, `temporalHandler.js` | two paginators (list, page, page size), class `table-view`, the shared buttons, page-info text and key events, `window.currentVideos` | draw an answer, click, arrow key, slider, page load | the first temporal search puts a second set of handlers on the shared buttons for good; the hidden paginator goes on moving | pages stay inside their lists; the pane holds a page of its own view; the controls say so |
| **Search page** `searchHandler.js`, `queryHistory.js`, `loadingOverlay.js`, `translate.js` | requests in flight, the history array, `sessionStorage`, the dropdown, the overlay | submit, news button, answer, failure, choose or clear an earlier search, reload | answers in any order, one overlay for all, a full `sessionStorage`, a reload with requests in flight | the overlay lifts; the history lists the newest answers once each; a reload restores what was listed |
| **DRES submission** `submitHandler.js`, `hub_handler.py`, `submission_handler.py` | id fields of the form; a cached session per worker; the request a worker is blocked in; the calls that wait for it | fetch ids, log in, list, submit, time out | sessions expire unseen; the hub gives up while the worker goes on; a silent server blocks a worker and all that waits for it | a click is recorded at most once; success is shown of recorded answers only; the two ids belong together and were good when they came; a click is served as soon as the server answers |
| **Frame modal** `thumbnailView.js` | `window.framesList`, current index, frame on display, preview strip, key handler | open, neighbours arrive, navigate, pick a preview, close, submit | globals are overwritten after an `await`, whoever's modal is open | the frame on display is the one submitted; the strip settles on the list |
| **Vector collection** `qdrant_database.py` `addDatabase`, `scroll_video`, `_prepare_data`, `_get_frames`; `metadata_util.py` | the collection in Qdrant; `frame_names` in each process | build anew, scroll a video's window | builds overlap, fail and die half-way; upserts are applied later; two numberings of the keyframes | an id always names the keyframe it was given to; a finished build is complete; a window returns its frames |
| **Temporal search** `search_temporal`, `merge_scores`, the three model handlers | the rows found so far | first scene, next scene, closing pass | one hit may follow several rows; filters, windows and limits change from scene to scene | rows share no keyframe; scores are sums; the best pair comes first |
| **Query form** `filterPanel.js`, `searchHandler.js` `loadSearchContext`, `get_name_videos.py` | excluded frames and their list, names in the dropdown, checked batches, typed filters, the contexts remembered | add, remove, reset, fetch names, submit, restore | answers for earlier batches arrive last; a remove button holds an index; the form is edited while a search is translated and answered | the list shows what is excluded; the dropdown follows the batches; the history tells what was on display |
| **Query input** `voiceRecognition.js`, `searchImageHandler.js`, `pasteHandler.js` | recording flag, recogniser, recorder and timer, image preview and its data | record, stop, drop, paste, close | the microphone is awaited before the flag is set; timers and file readers end late | a recorder that runs has its button; a recording that was heard ends |
| **Image server, master** `ngx_process_cycle.c`, `ngx_process.c` | the table of processes, the flags of its loop, the delay of a termination | signals: reload, reopen, upgrade and its rollback, quit, terminate; reaping and respawning | signals merge and arrive between passages; a death is announced twice; forks fail; a new binary runs beside the old | the table knows the children; a reload tells every old worker; the master leaves no worker behind; TERM ends it |
| **Image server, worker** `ngx_event*.c`, `ngx_connection.c`, `ngx_http_request.c` | connection slots, free list, reusable queue, posted events, timers | accept, read, parse, write, keep alive, linger, close, quit | edge-triggered events, slots reused inside one batch, pipelined requests, a client that stops reading | no event is lost; a busy connection is touched in its own turn only; a graceful exit ends and leaves nothing open |
| **Video modal** `videoView.js` | playing time | open, choose frame, close | seconds to frames and back | the frame on screen is the frame submitted |
| **Hub** `hub_handler.py` | none | forward, add paths, pass errors on | one timeout for all calls | every call ends |
| **Model services** | encoder, database client | text, image, temporal and scroll search, setup | a single worker behind a 10 s timeout | see the collection and the temporal search |
| **Util service** `util_handler.py`, `get_k_frames.py`, `get_name_videos.py` | none | translate, neighbours, names, vector | one failed sentence fails the text; windows at the ends of a video | neighbours are the k before and after, in order |
| **Rerank service** `rerank_handler.py` | none | sort by dominant colour, rotate | - | a permutation that starts at the top score |
| **Offline pipeline** `src/`, `engine/speech_to_text`, `engine/scene_classifier` | files | split, extract, compress, index | re-run by hand | one feature row per keyframe |
| **Language models, chat, superseded and vendored code** | - | - | - | not part of the running system, or third-party |

The hazards these behaviours give rise to, each at its line with the
properties that watch it, are the list `hazards` of `PROJECT.json`.

## 2. Modules

```
Pager ── ResultPane ── SearchPage ── SearchPageProofs      AnswerBox
                                                             ^ refines
                                                           DresSession ── DresSessionProofs

FrameIds ──┬── VectorIndex ── VectorIndexProofs            FrameModal ── FrameModalProofs
           └── TemporalSearch ── TemporalSearchProofs
FilterPanel ──┬── QueryPanel ── QueryPanelProofs
VoiceInput  ──┘
MasterCycle ── MasterCycleProofs           WorkerLoop ── WorkerLoopProofs
```

Each `MC…` module gives a specification small constants and nothing else;
`MCVectorIndex` also asserts of its corpus what the theorems ask for.

**Pager** - one paginator as a record `[id, size, page, perPage]` and the pure
operators of both files: `TotalPages` (with their different treatment of an
empty list), `Window` (the slice a page shows), `Flipped`, `Resized` (the clamp
after a change of page size), `ControlsOf`.  What distinguishes the two
paginators is in ResultPane.

**ResultPane** - the two paginators in one container.  `screen.shown` is what
the container holds, `screen.controls` the page-info text and the disabled
buttons; `tableView` is the class `table-view`; `armed` that
`initTemporalPagination`'s handlers sit on the buttons.  An action is one
browser event and runs every listener registered for it, in order: `ClickButton`
runs the grid's listener and, once armed, the table's `onclick`; `ArrowKey` both
key handlers with their different guards; `MoveSlider` both setters.
`Render` is `renderResults` with its three outcomes.

**SearchPage** - the page in use, over ResultPane.  `stage[i]` is where the
handler of the i-th request stands between its awaits (translating, fetching,
submitting to DRES, done).  `Answered` is the whole tail of the handler:
history, `sessionStorage`, dropdown, pane, overlay; `StorageFull` is the same
tail when `setItem` throws in the middle.  `Reload` is Enter in the filter panel
(`form.submit()`), `ClearHistory` the untyped button that also submits.  `log`
is a history variable.

**AnswerBox** - the abstract specification of submitting: each click recorded at
most once, "success" only of a recorded answer; "failure" promises nothing.

**DresSession** - page, hub, submission workers and server.  `cached[w]` is
`self.session_id` of a worker, `doing[w]` the call it serves and the request of
`requests` it is blocked in: a login, a list of evaluations or a submission.
A call of the hub is a connection that one of the processes accepts (`worker[x]`)
and takes up when it is free (`Serve`); the two calls of an id fetch share a
connection, since the hub's `AsyncClient` keeps it alive, and so a worker.
`AnswerCached` hands the cached session out without question, `LoginEnds`,
`ListEnds`, `PostReturns` and `PostFails` are the ends of the blocking requests,
each in whatever state page and hub are by then; `HubTimeout` and `FetchFails` the
hub giving up, which leaves the call with its worker.  `Fill` has the two ways of
filling the id fields.  `Expire`, `Switch` and `ServerTakes` are the external
server.

**FrameModal** - `list`, `index` and `shown` are the globals `framesList`,
`currentFrameIndex` and the displayed frame.  `Show` is `showModal` up to its
`await` (run several times per click, see `CallsPerClick`), `Answered` the rest
of it in whatever state the page is in by then.  Previews find their frame by
`Path`, so that a strip of one record may lead into the list of another.

**FrameIds** - the two numberings of keyframes.  The id of frame n of v,
`Id(order, v, n)`, is the number of keyframes `Earlier` in an order of videos, which
is what a counter that starts at 0 and goes up by one gives it; `Start`, `End`, `Hits` and
`GetFrames` are `_get_frames` with its `bisect_left` and `bisect_right` over
all keys but the last.

**VectorIndex** - `setup_database` as the steps of its thread (`Look`, `Drop`,
`Create`, `Insert` per folder, `Raise`, `Index` three times, `Warm`), Qdrant's
`queue` of acknowledged upserts (`Apply`), `Crash` of the process, and
`scroll_video` as one step, from the filter panel or from a thumbnail's shot.

**TemporalSearch** - `Ask` (the page's choice of the temporal route),
`FirstScene`, `NextScene` and `Answer`.  `Ranked` is Qdrant's answer: the best
`limit` of the frames searched, ties in any order.  `Matches`, `Kept` and
`Merged` are the passes of `merge_scores`: a hit joins the best row it may
follow, of the matches that continue one keyframe the first in sorted order
stays.  `Merged` and `Ranked` are sets of lists rather than a chosen list, so
that the proofs need no existence argument.

**FilterPanel** - the batches, the questions for video names under way, the
dropdown, the excluded frames and the rows that list them.  `FetchVideoNames`
reads the batches when it asks; `NamesArrive` replaces the options whatever they
were, and `NamesMissing` is an answer without data, which empties them first.  `rows` and `excluded` are two variables because the code has two: the
array and what `updateExcludedList` last drew of it.  `SetFilters` is the part of
`loadSearchContext` that touches the panel.  `filler` is a history variable.

**VoiceInput** - the button's handler up to its `await` (`ClickStart`) and from
there (`Granted`, `Refused`), the recogniser, which may end by itself and reports
late, and the silence timer.  A second click while the microphone is awaited
(`crossed`), the recorder it leaves running behind `mediaRecorder` (`left`) and
recorders that stop by themselves (`MicrophoneLost`) are in the model.

**QueryPanel** - both of them with the query box, the query type, the choice of a
temporal model and the submit handler: `Submit` reads the form, `Translated` overwrites the query box,
`Answered` remembers the context, `LoadSearchContext` restores it.  `looked[i]`
is a history variable: the form on display when search i was submitted.

**MasterCycle** - the master blocks signals except in `sigsuspend`, so one passage
of its loop is one step, `Wake`: the handlers of all pending signals (`Handled`;
on Linux they all run before `sigsuspend` returns), `Reaped`
(`ngx_reap_children`), then `Acted`, the loop's body in the code's order with its
`continue`s.  Each stage maps the state it finds to the set of states it may
leave, since forks may fail.  The workers are modelled as their master sees them;
a death is announced by SIGIO of the channel and then by SIGCHLD, and each wakes
the master.  The `past` of `m` is a history variable for the exceptions below.

**WorkerLoop** - one worker's event loop.  `Wait` is `epoll_wait`, which reports
the edges in any order; `HandleEvent` runs one event's handlers, `Accept` one
passage of the accept loop with `ngx_drain_connections`; timers, posted events and
the master's flags follow.  A handler runs to its end in one step; clients and
kernel act in between.  `Written`, `ReadOn`, `Parsed` and the others are the
handlers as functions of the state, named for what becomes of the connection.

Operators introduced by "Variant with a plausible slip" are wrong on purpose:
each replaces the definition after it to show that some property notices.

## 3. Runs and bounds

| Run | States | Shows |
|---|---|---|
| `search_page` | 55 k | pages stay in range, the container holds its view's page, the controls tell the truth of it; overlay, history and storage stay right under overlapping searches, failures, a full storage and reloads; the overlay lifts |
| `dres_session` | 235 k | the submission implements AnswerBox, ids come in pairs, a session is good when it gets into the form, and every click is served and told if the server's requests end |
| `frame_modal` | 3.7 k | displayed is current, the strip settles, the displayed frame is submitted |
| `index_build` | 99 k | ids name the right keyframe whatever overlaps, fails or dies; a build nobody overlapped is complete when it answers; every setup ends |
| `index_scroll` | 16 k | windows are covered, show one video and nothing excluded, when both numberings agree |
| `temporal_search` | 70 k | rows share no keyframe, scores add up, the best pair is first |
| `query_panel` | 3.2 M | the list shows what is excluded, the dropdown follows the batches, a recorder that runs has its button, the history tells the search, a heard recording ends |
| `nginx_master` | 424 k | the table knows the children, nobody is orphaned, a reload tells every old worker, no more workers than configured are meant to stay, TERM ends the master |
| `nginx_worker` | 896 k | slots, queue and posted events agree, whoever waits is watched by a timer, no edge is lost, busy connections are touched in their own turn, QUIT ends the worker |
| `modal_opened_record`, `index_listing`, `nginx_orphans` | stop at the violation | section 6 |

The type invariants are conjuncts of `HistoryIsRecentAnswers` and `PagesInRange`
(page), `PairFromOneFetch`, `StripShowsList`, `PointsAreGenuine`,
`ScoresAddUp`, `DropdownFollowsBatches` and `RecorderHasItsButton` (form),
`ChildrenAreKnown` and `PoolConsistent` (nginx).

**Why the bounds are enough.**
*search_page*: lists of several lengths with page sizes 1 and 2 give zero, one and
more pages, full and short last pages, and a size that grows under a late page;
three requests against a history of two entries, so that two overlap and a third
overflows.  The theorems hold for any lists, sizes and numbers of requests.
*dres_session*: two workers, so that one can be blocked and another serve, and
sessions can differ; two fetches, the least at which they race; two logins, so
that a session can be replaced after expiring.  One click: it competes with the
fetches and the logins of its worker, which is what delays it, and a click that
follows a failed one is a click of its own, since nothing in the code ties the two
together.  (A second click makes 2.4 million states, too many for the liveness
check.)  The theorems hold for any number of all of them.
*frame_modal*: three calls of `showModal` over a record with neighbours on both
sides and one with a single neighbour, two frames of one video whose lists
overlap: an answer of the modal before, of the
modal open, and a second answer for one click.  The user runs out of calls, so
this model may stop (`CHECK_DEADLOCK FALSE`); the page itself does not.
*index_build*: two setups, two folders, one crash.  *index_scroll*: three
videos; v1 has keyframes 0, 30, 49 and 60 at 25 frames per second, so windows
begin and end on, between and past keyframes, and 49 lies in an incomplete
second.  The window theorems hold for every window.
*temporal_search*: keyframes at 0, 900 and 1400 of one video are in reach in two
steps and not in one; every assignment of the similarities -1, 1 and 2 to them
gives ties, order reversals and a negative score; k of 1, 2 and 4 cuts and does
not cut.
*query_panel*: five acts of the user leave room for a search, an edit, a second
search and a restore of the first while the other is under way; three questions
for names (the page's own and two more), so that two overlap an answer; two clicks
that wait for the microphone.  Two batches, each with a video of its own.  The text
written has one sentence and its translation several, so that with a temporal model
the translation decides the type.  Where
acts and questions run out the model may stop; the page does not.
*nginx_master*: two workers, and two of the operator's six signals in either
order and at any moment, the same one twice included; one fault (a death, a fork
or a configuration that fails).  The table has five slots: two generations and a
new binary fill it, so that a spawn also meets a full table (in the code it has
1024).  Delays above one second act alike and are one
value.  `nginx_orphans` gives the four signals of its scenario.
*nginx_worker*: three clients on two slots, so that the third meets a full table
or reuses a slot in the batch that freed it; three pieces, so that a request comes
in two and is followed by a pipelined one; one response waits for its reader, and
one client closes its end.

## 4. Fairness

* `SearchPage`: weak fairness of `Finish(i)`: a request in flight is answered or
  fails.  The hub's `REQUEST_TIMEOUT` ends what it forwards and the browser
  reports a dead connection.  Nothing is assumed of the user.
* `DresSession`: strong fairness of `Serve(w)`: the event loop of a worker that is
  free again and again takes up a call that waits for it, although operators' logins
  may get in between.  Nothing is assumed of the server or of the hub's timeout:
  that every blocking request ends is the hypothesis of `ServedIfServerAnswers`,
  because the code has no timeout for it, and without it a silent server blocks
  every worker for good.
* `VectorIndex` (`FairSpec`): the setup thread runs and Qdrant applies what it
  acknowledged (weak fairness).  `Index` has strong fairness: in the code it
  waits for the operations acknowledged before it, whereas in the model it waits
  for an empty queue, which another setup may keep refilling.
* `MasterCycle`: weak fairness of `Wake` (a pending signal ends `sigsuspend`), of
  the interval timer, and of the kernel announcing a death.  Workers need do
  nothing: `TerminateEnds` holds because in the end they are killed.
* `WorkerLoop`: weak fairness of the worker's own steps and strong fairness of
  `Expire(k)`.  Timers are checked only at one point of each passage, so that a
  timer that is set again and again is due infinitely often without being due
  continuously; clients can set it anew only a bounded number of times, each time
  by sending something.  Clients need do nothing.
* `QueryPanel`: weak fairness of the silence timer.  Neither the user, nor the
  browser's recogniser, nor any server need do anything.
* The other specifications state no fairness and claim no liveness.

## 5. Proofs

All proofs are checked by `tlapm` down to the last leaf.  Apart from the four
theorems about setup and scroll that name a hypothesis, none assumes more than the
ASSUMEs of the module it is about, which say what kind of thing each constant is,
and which TLC evaluates in every run.  Every safety and action property that a
passing run checks is the subject of a theorem.

| Theorem | Says | Rests on |
|---|---|---|
| `EachItemOnOnePage` | the pages of a list partition it, for every size and page size | bounds of integer division |
| `PaneTypes`, `PanePagesInRange`, `PaneShowsCurrentPage`, `PaneControls`, `PaneNoEmptyPage` | the pane's properties in `search_page`; no page of a list with results is empty, which is only proved | `PaneInv` |
| `OverlayTells` | the overlay is up only while a request is in flight | `OverlayInv` |
| `ReloadKeepsTheList` | storage and dropdown agree | itself |
| `HistoryIsTrue` | the history is the latest answers, newest first, each once, of requests that are over | `HistoryInv`, `OverlayInv`, `Recent`, `EntriesInv` |
| `PageKeepsPane` | the three properties of the pane hold of the page in use, whatever searches, earlier searches and reloads put into it | `PageUsesPane`, `HistoryInv`: the history holds contexts whose results are results |
| `DresImplementsAnswerBox` | at most one recording per click, success only of recorded answers | `Inv` of DresSessionProofs, `Progress` |
| `IdsComeInPairs` | session and evaluation id come from one fetch | `Inv` |
| `SessionsAreChecked` | a session is valid when a fetch puts it into the form, unless its worker logged in again between its two answers | `Inv`, `Unasked` |
| `ModalShowsCurrent`, `ModalSubmitsDisplayed` | the frame submitted is the frame on display | `CurrentInv` |
| `ModalStripSettles` | once nothing is being fetched, the strip shows the list the arrows go through, or is hidden | itself, with `CurrentInv` |
| `CollectionIsGenuine` | an id always names the keyframe it was given to; the collection and every setup keep their types | itself |
| `WindowIsCovered`, `WindowSpillsOnce` | `_get_frames` returns every keyframe of a window and at most one more | what `bisect` returns at both ends |
| `SuccessIsTold` | given `BuiltOnce`: a setup that none overlapped is complete when it answers, whatever failed or died before | `AloneInv` |
| `ScrollStays`, `ExclusionsHold`, `ScrollIsWhole` | given `ListedAsBuilt`: a scroll stays in its video, shows nothing excluded, and loses nothing of its window | the ids are one to one (`Precedes`), the window theorems |
| `TemporalTypes`, `MomentsStayDistinct`, `RowsAddUp` | rows have one keyframe for each scene, share none, and their scores are sums, for any number of scenes | `Inv` |
| `BestPairWins` | in a search of two scenes with room for every keyframe the best pair is first | `BestInv` |
| `RecordersHaveAButton` | the next click stops the named recorder if it runs; a recorder is left behind only once two clicks waited for the microphone at once | `VoiceInv` |
| `ListStaysTrue` | the list of excluded frames shows them, each once | `ExclusionsInv`; removing from and appending to an injective sequence |
| `HistoryIsTold` | the history tells filters, query and type as displayed at submission | `ExclusionsInv`, `SearchesInv`, `HistoryInv` |
| `DropdownIsRight` | as long as its options are the answer to the latest question the dropdown offers the names of the checked batches; what is selected is offered; an older answer that lands last is not covered | `NamesInv`, `TypedInv`, and the three before |
| `ChildrenKnown` | every process not yet waited for is in its slot of the table | `MasterInv` |
| `MasterLeavesLast`, `OldWorkersLeave`, `WorkersAreBounded` | no orphans, no worker of an old configuration for good, no more workers than configured (with the exceptions in the properties) | `MasterInv` |
| `WorkerInvariant`, `PoolStaysConsistent`, `NothingStaysOpen`, `NoEventIsLost`, `BusyStaysKept` | slots, queues, posted events, timers and edges of a worker agree; a busy connection is touched in its own turn | `WorkerInv` of WorkerLoopProofs |

The inductive invariants, and why the properties alone are not inductive:

* `PaneInv` is the conjunction of four properties.  "The container holds its
  view's page" is not inductive by itself: that a hidden paginator draws nothing
  into the other view follows from the guards, but that the controls then still
  belong to the view needs `ControlsTellTheView` and the page ranges.
* `OverlayInv` adds that requests not yet issued are idle, so that issuing one
  really adds a request in flight.
* `Recent` speaks of the history entry by entry, which is what adding one in front
  preserves; the property's equation with the reversed log follows from it.
  `EntriesInv` needs the stored copy as well, since a reload puts it in place of
  the history, and that a request which is over is never in flight again.
* The `Inv` of DresSessionProofs says who serves whom (`Serving`: a call is served
  by one worker, the one of its connection, and a worker that serves none is idle or
  logs in for nobody) and whose session a fetch carries (`FetchInv`: it has one once
  it asks for the evaluation, given out by its worker, so never later than what the
  worker holds now unless that is none).  From the latter the list is asked with the
  session handed out or with a later one.  `Pair` needs it too: a fetch without a
  session would fill one field only.
* `Progress` ties `recorded` and `told` to the step a worker is blocked in: nothing
  is recorded before the server takes it, and an accepted answer is recorded once.
  Without it a step "the server takes the answer" could count twice.
* `VoiceInv` adds that two clicks wait, or a recorder runs while one waits, only once
  clicks have crossed: that is how a grant comes to replace a recorder that runs.
* `CurrentInv` speaks of every state with a list, open or not: arrows act while
  a handler is left on the document after closing.
* The temporal `Inv` adds that no more scenes are searched than there are, so
  that `NextScene`'s rows have the length `TypeOK` asks for.  `MomentsAreDistinct`
  needs both passes: `Kept` leaves one hit per keyframe continued, and a hit
  joins one row.
* `SearchesInv` says of every search, remembered or not, that what it carries tells
  what was on display, and that only a text that is there is being translated:
  without the latter a translation of nothing would become its query.  That the
  filters read are the filters displayed is `ListShowsExclusions`, so the theorem
  about the history rests on the one about the list.
* `BestInv` follows a search of two scenes.  After the first, every keyframe that
  passes is a row, best first (`FirstRows`: a limit that does not cut makes Qdrant's
  answer a surjection, by counting).  In the second, a pair of keyframes in reach of
  each other is found - `_get_frames` loses none of a window - and need not be kept:
  its hit joins the least row that it may follow, which is at least as good, and of
  that row's hits the least is kept, which is at least as good again (`PairIsKept`).
  It stops at two scenes: for a third the rows found so far are no longer all pairs.
* `AloneInv` says of a setup that is alone what the collection will hold when the
  queue has been applied: the folders up to where it is.  An upsert replaces points
  of its ids, so that applying one leaves `Stored` as it is only because ids are one
  to one; and that the queue is empty at the end comes from creating the payload
  indexes, not from the upserts.
* The ids are proved one to one by counting: what is numbered before a keyframe is a
  proper subset of what is numbered before a later one.  `ScrollIsWhole` also needs
  that a scroll which k did not cut has everything that passes (`LowestK`): of what
  is missing the least id would have been among the k lowest.  The first half of the
  property, at most one frame outside the window, is `WindowSpillsOnce`.
* `BuiltOnce` - each video's features are in one folder - and `ListedAsBuilt` - the
  directories are listed in that order - are hypotheses about the data and the file
  system.  The run `index_listing` shows a scroll without the second.  That a shot is
  looked up by a keyframe in it, so that no shot begins after the last keyframe of its
  video, is in `IndexAssumption`; without it `_get_frames` would exclude a frame that
  does not belong to the shot.
* `NamesInv` says of the questions under way that the latest asks for the batches
  checked now: the handler changes them and asks in one turn.  Restoring a search
  types into the panel again, so `TypedInv` and the invariant on what searches carry
  are needed for the panel's types.
* `MasterInv` is stated of a state record and followed through the stages of one
  passage, so that each stage has one lemma for each part.  `Agrees`: a process is
  there exactly as long as its entry is used and not marked exited, one marked exiting
  was told to quit, and there is no process outside the table.  `Settled`: between
  passages no worker is marked as just spawned and those of an old configuration are
  marked exiting.
  `AllReaped`: without a failed fork every death noticed was dealt with.  `NoUpgrade`:
  a new binary needs USR2.  `Bounded` counts the entries that are to stay; it needs
  the two before it, since a respawn takes the place of a death it has seen.
  `Staffed`: a master that is not live has no workers.
* `WorkerInv` says what holds between two handlers.  `InOrder`, of each slot: it is in
  the free list exactly when it is closed, in the queue of reusable connections
  exactly when it has no request, and when open it has a timer or waits in the posted
  queue with something to read.  `Known`: what a client sent is still an edge, in the
  rest of the batch, or in `ready` - the last for those whose turn will come.
  `BatchOK`: a slot has one event in the batch, and none when it is posted.  `Staged`:
  what has been worked off where the worker stands.  The properties speak of the top
  of the loop only; within a batch they are false, and this is what they become.  A
  handler changes one slot, so that each lemma is about that slot, and the rest
  follows from `Same`.

**Only model-checked.**  `OverlayLifts`, `ServedIfServerAnswers`, `SetupEnds`,
`HeardRecordingEnds`, `TerminateEnds` and `QuitEnds`: liveness under fairness is
out of the prover's reach.  Nothing else that a passing run checks is left to TLC
alone.  What is modelled directly and not derived: that a counter over the sorted
folders gives the number of earlier keyframes (`Id`) would be an induction over the
data.

## 6. Disagreements and observations

Three are runs that TLC ends with the shortest behaviour showing them; the quoted
comments are in `findings`.

* `modal_opened_record` - close the modal of A, open B: A's late answer replaces
  B's frame and would be submitted.  The frame submitted is still the one on
  display (`ModalSubmitsDisplayed`).
* `index_listing` - `addDatabase` numbers in sorted order, `_prepare_data` in the
  order the file system lists directories: where they differ, a scroll of one
  video shows another.
* `nginx_orphans` - HUP during an upgrade starts workers again but leaves `live` as
  it was; if the old workers were already gone, QUIT before the next death ends
  the master at once and leaves the workers just started behind.

Met while modelling and left in the models as the code has it:

*Results.*  An answer without results empties the container but not the
paginators, so the next key brings the earlier page back; moving the slider in one
view leaves the other view's page size as it was; after a temporal search the
table's thumbnails open frames of an earlier grid search, since only the grid sets
`window.currentVideos`; the dropdown of searches lists older entries than the
history after a failed write; a second answer for one click moves the modal back
to the opened frame; an answer after closing refills the list and takes the arrow
keys.

*Submission.*  A worker's expired session is handed out until someone logs that
worker in again: the list that follows is refused, and the page's ids stay as they
were.  A fetch whose worker is logged in again between its two calls fills in the
earlier session, which may have ended.  A silent server blocks the worker in any
of its three requests, the logins at startup included.  `submission_service.py` passes
uvicorn the application object together with a number of workers, which uvicorn
refuses above one (it wants an import string): several processes need uvicorn's
command line.  The theorems hold for one worker as for many.

*Leaving the page.*  Enter in the filter panel submits the form to `/`, which the hub
serves for GET only: the browser shows an error page, and the form is back after a
reload.

*Index and search.*  Overlapping setups may each announce "ready to use" over a
half-built collection; the ends of a shot travel as minutes and seconds, rounded
down, so keyframes of its last second are lost; a window past the last keyframe
returns the last one, so a keyframe can follow itself as the next scene; only the
first scene's filters hide excluded frames; rows with a score of zero or less are
never continued; for three and more scenes joining greedily may lose the best row;
`merge_scores` says "<1000" and tests `<= 1000`; the page counts sentences by `.`,
`?` and `!`, the service by `.`, so "Who? Where." goes to the temporal route and
fails there on `item[-2]`.

*Query form.*  Choosing an earlier search sets `window.excludedFrames`, which
nothing reads, under the comment "Set excluded frames": the exclusions stay those
of the panel, and so does the list.  Of several video names only the first is
selected again (they are joined by `", "` and split at `","`).  Choosing a query
type this way checks the radio button without showing its section.  The answer to
an older question for names may fill the dropdown last, also one that was just
reset, and drops the selection.  A translation overwrites what was typed or spoken
meanwhile.  A second click while the microphone is awaited can leave a recorder
running that no click stops, though the comment says "Stop everything when the
button is clicked again" (`left` in the model); a microphone that goes away leaves the
button on, and the next click only turns it off; a result reported after stopping sets the silence timer
anew, which may end the next recording; a refused microphone leaves the recogniser
running.

With a temporal model chosen, an empty text and an image search have no route and end
in an alert, though the comment before says that an empty query goes to the scroll
endpoint.  Choosing an earlier temporal search leaves the query type alone: with
"image" chosen, sending it again ends in that alert.

*nginx.*  TERM does not end a master whose reload could not fork a single worker:
`live` is set, and without a child no SIGCHLD makes `ngx_reap_children` look again
(the exception in `TerminateEnds`).  The bit that tells a stale event from a fresh
one (`ngx_epoll_module.c`, "instance") is the same again when one slot is reused
twice in a batch; nothing is lost by it, but the event is not dropped.

## 7. Abstractions, and what is not modelled

* Results are lists with an identity, a kind and a length; markup, images and the
  thumbnail-size slider are left out.  A temporal answer whose every cell is null
  is left out, since the service builds no such row.
* A DRES submission in flight during a reload is in SearchPage, not in
  DresSession.  An answer of the server that is no recorded answer counts as
  refused, whatever its status: the page words a 200 without a good status
  differently and shows it as an error too.
* Qdrant answers exactly and in order; HNSW's approximation is left out.  A
  feature file has one row per keyframe; with fewer, ids shift as they do for
  another listing order.  Vectors, payload fields and, in `scroll_video`, the
  speech filter are left out.  `deleteDatabase` and `getCount` are called by no
  route.
* Similarities are small integers; only their order and their sums matter.
* In the query form the s2t text and the two times are one value, restored
  together; k and the check boxes are read and restored the same way and are left
  out, and of the model only whether it is a temporal one is kept.  Image previews are left out: whichever reader ends last is the image,
  closing the preview does not cancel a reader, a dragged thumbnail sends the URL
  box's image when that box holds another URL, and no comment promises otherwise.
* Pressing Enter in the filter panel submits the form and leaves the page: that is
  `Reload` of SearchPage: requests in flight are lost, and the form comes back when
  the user returns to the page.
* The nginx models follow the repository's `nginx.conf`: static files over plain
  HTTP/1, `multi_accept`, no accept mutex, daemon mode.  No caches, upstreams, TLS,
  HTTP/2, request bodies or subrequests.  Parsing, filters and file access are the
  outcomes they may have.  A worker that initialises is not told from one that
  serves, messages reach it in one step, and the descriptor of a dead worker's
  channel after a respawn that failed is not modelled.
* The video modal converts the playing time to a frame once, when it is chosen.
  The neighbour search, QDRANT.search's grouping and the colour rerank are pure
  functions of one request.  They have no state and no order of events that a test
  would miss.
* Neural encoders, the translator, the offline scripts, the experiments with
  language models and superseded files are not modelled; the components of
  `PROJECT.json` say why, one by one.
* Most of the repository's lines are third-party: nginx with all its modules,
  detectors, shot boundary networks, browser libraries.  Of these only the part of
  nginx that runs here is modelled - its process management and its event loop -
  because that is where the order of events matters; its upstreams, HTTP/2, TLS,
  resolver, mail and streaming modules are not part of this configuration.

## 8. State of the plan

Done, in the order of importance: what the user sees (result pane, search page),
what is submitted (DRES session, frame modal), what is found (collection, temporal
search), what is asked (filter panel, voice, query form), and what serves the
images (nginx master and worker).  Abstract specifications: `AnswerBox` for the
submission, which DresSession is shown to implement by TLC and by proof.

What could follow: an abstract pool of connections that `WorkerLoop` implements; a
bound for the rows that a greedy merge may lose in three scenes; and, for the
liveness properties, the safety facts their arguments rest on (what stays enabled,
what decreases), stated and proved as invariants.
