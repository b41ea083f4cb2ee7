----------------------------- MODULE ResultPane ------------------------------
(***************************************************************************)
(* The result pane of the search page: renderResults of searchHandler.js,  *)
(* the grid paginator (pagination.js), the table paginator                 *)
(* (paginationTemporal.js) and the "results per page" slider               *)
(* (sliderControls.js).  The two paginators share one container, one pair  *)
(* of buttons, one page-info text and the document's keydown event; which  *)
(* of them is meant is told only by the container's class 'table-view'.    *)
(*                                                                         *)
(* Handlers run to completion in the browser's event loop, so each user    *)
(* event is one action that runs every listener registered for it, in      *)
(* order of registration.                                                  *)
(***************************************************************************)
EXTENDS Pager

CONSTANTS
  Results,      \* result lists a search can answer: [id, kind, size]
  PageSizes,    \* values the "results per page" slider can take
  InitialSize,  \* its value when the page loads (50)
  NoList        \* identity of the empty list the paginators start with

ASSUME ResultsAssumption ==
  /\ \A r \in Results :
       /\ r.kind \in {"normal", "temporal", "empty"}
       /\ r.size \in Nat
       /\ r.size = 0 <=> r.kind = "empty"
       /\ r.id # NoList
  /\ PageSizes \subseteq Nat \ {0}
  /\ InitialSize \in PageSizes

VARIABLES
  tableView,     \* the container has class 'table-view'
  grid,          \* pager of pagination.js
  table,         \* pager of paginationTemporal.js
  armed,         \* the table's click and key handlers have been attached
  screen,        \* what the container shows, and the page controls
  slider,        \* value of the "results per page" slider
  currentVideos  \* window.currentVideos: the list thumbnail clicks index into

paneVars ==
  <<tableView, grid, table, armed, screen, slider, currentVideos>>

Directions == {"prev", "next"}
Nothing == [id |-> NoList, items |-> {}]
Items(pg) == [id |-> pg.id, items |-> Window(pg)]

\* The pager of the view the container is in.
Visible == IF tableView THEN table ELSE grid
------------------------------------------------------------------------------
(***************************************************************************)
(* Drawing a page.  `inTable` is the container's class at that moment, s   *)
(* the screen before.                                                      *)
(***************************************************************************)

\* Variants with a plausible slip each; nothing but the mutation runs uses them.
DrawTableAnywhere(inTable, pg, s) ==
  [shown |-> Items(pg), controls |-> ControlsOf(pg)]
DrawTableRowsOnly(inTable, pg, s) ==
  [s EXCEPT !.shown = IF inTable THEN Items(pg) ELSE s.shown]

\* displayPage: refills the container unless it holds the table.
DrawGrid(inTable, pg, s) ==
  IF inTable THEN s ELSE [shown |-> Items(pg), controls |-> ControlsOf(pg)]

\* displayTemporalPage: shows and hides the rows it keeps, in the container
\* or not, and always writes the controls.
DrawTable(inTable, pg, s) ==
  [shown |-> IF inTable THEN Items(pg) ELSE s.shown, controls |-> ControlsOf(pg)]

RedrawGrid(old, new, s) == IF new = old THEN s ELSE DrawGrid(tableView, new, s)
RedrawTable(old, new, s) == IF new = old THEN s ELSE DrawTable(tableView, new, s)
------------------------------------------------------------------------------
InitialPager == [id |-> NoList, size |-> 0, page |-> 1, perPage |-> InitialSize]

\* An empty container, "1/1", and both buttons enabled (templates/index.html).
InitialScreen ==
  [shown |-> Nothing,
   controls |-> [page |-> 1, pages |-> 1, prevOff |-> FALSE, nextOff |-> FALSE]]

PaneInit ==
  /\ tableView = FALSE
  /\ grid = InitialPager
  /\ table = InitialPager
  /\ armed = FALSE
  /\ screen = InitialScreen
  /\ slider = InitialSize
  /\ currentVideos = NoList

RenderGrid(r) ==
  /\ r.kind = "normal"
  /\ tableView' = FALSE
  /\ currentVideos' = r.id
  /\ grid' = Opened(grid, r.id, r.size)
  /\ screen' = DrawGrid(FALSE, grid', screen)
  /\ UNCHANGED <<table, armed>>

\* displayTemporalResults does not touch window.currentVideos.
RenderTable(r) ==
  /\ r.kind = "temporal"
  /\ tableView' = TRUE
  /\ table' = Opened(table, r.id, r.size)
  /\ armed' = TRUE
  /\ screen' = DrawTable(TRUE, table', screen)
  /\ UNCHANGED <<grid, currentVideos>>

\* No results: the container is emptied, the paginators keep what they had.
RenderNone(r) ==
  /\ r.kind = "empty"
  /\ tableView' = FALSE
  /\ screen' = [screen EXCEPT !.shown = Nothing]
  /\ UNCHANGED <<grid, table, armed, currentVideos>>

Render(r) ==
  /\ RenderGrid(r) \/ RenderTable(r) \/ RenderNone(r)
  /\ UNCHANGED slider

Enabled(dir) ==
  IF dir = "prev" THEN ~screen.controls.prevOff ELSE ~screen.controls.nextOff

\* A click on a button: the grid's listener runs, then the table's onclick
\* once it has been set, whatever the view.
ClickButton(dir) ==
  /\ Enabled(dir)
  /\ grid' = Flipped(grid, dir)
  /\ table' = IF armed THEN Flipped(table, dir) ELSE table
  /\ screen' = RedrawTable(table, table', RedrawGrid(grid, grid', screen))
  /\ UNCHANGED <<tableView, armed, slider, currentVideos>>

\* pagination.js handleKeyDown: leaves the keys to the table in table view.
GridKey(dir) == IF tableView THEN grid ELSE Flipped(grid, dir)

\* paginationTemporal.js handleKeyDown, once registered: only in table view.
TableKey(dir) == IF armed /\ tableView THEN Flipped(table, dir) ELSE table

\* An arrow key outside any input, no modal open: both keydown handlers run.
ArrowKey(dir) ==
  /\ grid' = GridKey(dir)
  /\ table' = TableKey(dir)
  /\ screen' = RedrawTable(table, table', RedrawGrid(grid, grid', screen))
  /\ UNCHANGED <<tableView, armed, slider, currentVideos>>

\* setResultsPerPage and setTemporalResultsPerPage, each behind its view guard.
ResizeGrid(size) ==
  /\ ~tableView
  /\ grid' = Resized(grid, size)
  /\ screen' = DrawGrid(tableView, grid', screen)
  /\ UNCHANGED table

ResizeTable(size) ==
  /\ tableView
  /\ table' = Resized(table, size)
  /\ screen' = DrawTable(tableView, table', screen)
  /\ UNCHANGED grid

\* updateResultsPerPage calls both setters.
MoveSlider(size) ==
  /\ slider' = size
  /\ ResizeGrid(size) \/ ResizeTable(size)
  /\ UNCHANGED <<tableView, armed, currentVideos>>

\* The page is loaded again: every module-local variable starts over.
PageLoad ==
  /\ tableView' = FALSE
  /\ grid' = InitialPager
  /\ table' = InitialPager
  /\ armed' = FALSE
  /\ screen' = InitialScreen
  /\ slider' = InitialSize
  /\ currentVideos' = NoList

UserEvent ==
  \/ \E dir \in Directions : ClickButton(dir)
  \/ \E dir \in Directions : ArrowKey(dir)
  \/ \E size \in PageSizes : MoveSlider(size)

PaneNext == UserEvent \/ PageLoad \/ \E r \in Results : Render(r)

PaneSpec == PaneInit /\ [][PaneNext]_paneVars
------------------------------------------------------------------------------
(***************************************************************************)
(* Properties.                                                             *)
(***************************************************************************)
ListIds == {r.id : r \in Results} \cup {NoList}
PagerType == [id : ListIds, size : Nat, page : Nat \ {0}, perPage : PageSizes]
ControlsType ==
  [page : Nat, pages : Nat, prevOff : BOOLEAN, nextOff : BOOLEAN]

\* Types of the pane's state.
TypeOK ==
  /\ tableView \in BOOLEAN /\ armed \in BOOLEAN
  /\ grid \in PagerType /\ table \in PagerType
  /\ screen \in [shown : [id : ListIds, items : SUBSET Nat], controls : ControlsType]
  /\ slider \in PageSizes
  /\ currentVideos \in ListIds

BothInRange ==
  /\ grid.page <= TotalPages(grid.size, grid.perPage)
  /\ table.page <= TotalPages(table.size, table.perPage)

\* Neither paginator, on screen or not, ever points past the pages of its own
\* list: not after the page size grew under it (setResultsPerPage clamps), not
\* after clicks that moved it while the other one was on screen.
PagesInRange == TypeOK /\ BothInRange

\* Whatever hidden moves the other paginator made, the container holds nothing
\* or exactly the current page of the view it is in: a grid page never lands in
\* a temporal table (the guard of displayPage), nor the converse.
ShownIsCurrentPage ==
  screen.shown \in {Nothing, Items(Visible)}

\* Until the first temporal search of the session, and in table view, the
\* page-info text and the disabled buttons tell the truth about the view.
ControlsTellTheView ==
  (screen.shown # Nothing /\ (tableView \/ ~armed)) =>
      screen.controls = ControlsOf(Visible)

\* The current page of a list with results is never an empty one: flipping,
\* resizing and rendering in any order leave either pager an item to show.
NoEmptyPage ==
  /\ grid.size > 0 => Window(grid) # {}
  /\ table.size > 0 => Window(table) # {}
==============================================================================
