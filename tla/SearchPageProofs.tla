--------------------------- MODULE SearchPageProofs --------------------------
(***************************************************************************)
(* Proofs about the result pane, for every set of result lists, every list *)
(* length and every page size, and about the search page that shares it,   *)
(* for any number of searches and any length of the history.               *)
(***************************************************************************)
EXTENDS SearchPage, TLAPS, SequenceTheorems

(***************************************************************************)
(* What the arithmetic of the paginators guarantees, for every list length *)
(* and every page size.                                                    *)
(***************************************************************************)

\* Integer division, bounded from both sides.
LEMMA DivBounds ==
  ASSUME NEW n \in Nat, NEW d \in Nat \ {0}
  PROVE  n \div d \in Nat /\ d * (n \div d) <= n /\ n < d * (n \div d) + d
  OBVIOUS

\* Math.ceil(total / perPage) pages are enough for the list, and one fewer
\* would not be.
LEMMA PageCountBounds ==
  ASSUME NEW total \in Nat, NEW perPage \in Nat \ {0}
  PROVE  /\ PageCount(total, perPage) \in Nat
         /\ total <= PageCount(total, perPage) * perPage
         /\ total > 0 => (PageCount(total, perPage) - 1) * perPage < total
         /\ total > 0 => PageCount(total, perPage) > 0
  <1> DEFINE n == total + perPage - 1
             q == n \div perPage
  <1>1. n \in Nat
    OBVIOUS
  <1>2. q \in Nat /\ perPage * q <= n /\ n < perPage * q + perPage
    BY <1>1, DivBounds
  <1>3. PageCount(total, perPage) = q
    BY DEF PageCount
  <1> HIDE DEF q
  <1>4. total <= q * perPage
    BY <1>2
  <1>5. (q - 1) * perPage < total
    BY <1>2
  <1>6. total > 0 => q > 0
    BY <1>2, <1>4
  <1> QED
    BY <1>2, <1>3, <1>4, <1>5, <1>6

\* There is always a page to show, and for a list with items it is a real one.
LEMMA TotalPagesBounds ==
  ASSUME NEW total \in Nat, NEW perPage \in Nat \ {0}
  PROVE  /\ TotalPages(total, perPage) \in Nat \ {0}
         /\ PageCount(total, perPage) \in Nat
         /\ PageCount(total, perPage) <= TotalPages(total, perPage)
         /\ total > 0 => TotalPages(total, perPage) = PageCount(total, perPage)
  <1>1. PageCount(total, perPage) \in Nat
    BY PageCountBounds
  <1>2. total > 0 => PageCount(total, perPage) > 0
    BY PageCountBounds
  <1> QED
    BY <1>1, <1>2 DEF TotalPages

\* The first position of a page in range is a position of the list.
LEMMA FirstOfPage ==
  ASSUME NEW size \in Nat, NEW perPage \in Nat \ {0}, NEW page \in Nat \ {0},
         size > 0, page <= TotalPages(size, perPage)
  PROVE  /\ (page - 1) * perPage + 1 \in 1 .. size
         /\ (page - 1) * perPage + 1 <= page * perPage
         /\ (page - 1) * perPage \in Nat
  <1> DEFINE count == PageCount(size, perPage)
  <1>1. count \in Nat \ {0} /\ (count - 1) * perPage < size /\ page <= count
    <2>1. count \in Nat /\ count > 0 /\ (count - 1) * perPage < size
      BY PageCountBounds
    <2> QED
      BY <2>1, TotalPagesBounds
  <1> HIDE DEF count
  <1>2. (page - 1) * perPage <= (count - 1) * perPage
    BY <1>1
  <1>3. (page - 1) * perPage \in Nat
    OBVIOUS
  <1>4. (page - 1) * perPage + perPage = page * perPage
    OBVIOUS
  <1> QED
    BY <1>1, <1>2, <1>3, <1>4

\* The pages of a list cut it into pieces: every item is on some page the
\* paginator can reach, and on no other, whatever the page size.
THEOREM EachItemOnOnePage ==
  ASSUME NEW size \in Nat, NEW perPage \in Nat \ {0}, NEW i \in 1 .. size
  PROVE  \E p \in 1 .. PageCount(size, perPage) :
           \A q \in Nat \ {0} :
              i \in Window([size |-> size, page |-> q, perPage |-> perPage]) <=> q = p
  <1> DEFINE p == PageCount(i, perPage)
  <1>1. /\ p \in Nat \ {0}
        /\ (p - 1) * perPage < i
        /\ i <= p * perPage
    BY PageCountBounds
  <1> HIDE DEF p
  <1>2. p <= PageCount(size, perPage)
    <2>1. PageCount(size, perPage) \in Nat /\ size <= PageCount(size, perPage) * perPage
      BY PageCountBounds
    <2>2. SUFFICES ASSUME PageCount(size, perPage) <= p - 1 PROVE FALSE
      BY <1>1, <2>1
    <2>3. PageCount(size, perPage) * perPage <= (p - 1) * perPage
      BY <1>1, <2>1, <2>2
    <2> QED
      BY <1>1, <2>1, <2>3
  <1>3. ASSUME NEW q \in Nat \ {0}
        PROVE  i \in Window([size |-> size, page |-> q, perPage |-> perPage]) <=> q = p
    <2>1. i \in Window([size |-> size, page |-> q, perPage |-> perPage])
             <=> (q - 1) * perPage < i /\ i <= q * perPage
      BY DEF Window
    <2>2. ASSUME q < p PROVE q * perPage <= (p - 1) * perPage
      BY <1>1, <2>2
    <2>3. ASSUME q > p PROVE p * perPage <= (q - 1) * perPage
      BY <1>1, <2>3
    <2> QED
      BY <1>1, <2>1, <2>2, <2>3
  <1> QED
    BY <1>1, <1>2, <1>3
------------------------------------------------------------------------------
(***************************************************************************)
(* Pagers: records of the shape the two paginators keep.                   *)
(***************************************************************************)
Pagers(Ids, Sizes) == [id : Ids, size : Nat, page : Nat \ {0}, perPage : Sizes]

InRange(pg) == pg.page <= TotalPages(pg.size, pg.perPage)

\* Opening a list, flipping a page and changing the page size keep a pager a
\* pager, and its page within the pages of its list.
LEMMA PagerSteps ==
  ASSUME NEW Ids, NEW Sizes, Sizes \subseteq Nat \ {0},
         NEW pg \in Pagers(Ids, Sizes), InRange(pg)
  PROVE  /\ \A id \in Ids, size \in Nat :
              Opened(pg, id, size) \in Pagers(Ids, Sizes) /\ InRange(Opened(pg, id, size))
         /\ \A dir \in {"prev", "next"} :
              Flipped(pg, dir) \in Pagers(Ids, Sizes) /\ InRange(Flipped(pg, dir))
         /\ \A size \in Sizes :
              Resized(pg, size) \in Pagers(Ids, Sizes) /\ InRange(Resized(pg, size))
  <1>0. /\ pg.id \in Ids /\ pg.size \in Nat /\ pg.page \in Nat \ {0}
        /\ pg.perPage \in Sizes /\ pg.perPage \in Nat \ {0}
    BY DEF Pagers
  <1>1. ASSUME NEW id \in Ids, NEW size \in Nat
        PROVE  Opened(pg, id, size) \in Pagers(Ids, Sizes) /\ InRange(Opened(pg, id, size))
    <2>1. TotalPages(size, pg.perPage) \in Nat \ {0}
      BY <1>0, TotalPagesBounds
    <2>2. Opened(pg, id, size) \in Pagers(Ids, Sizes)
      BY <1>0 DEF Opened, Pagers
    <2> QED
      BY <2>1, <2>2 DEF Opened, InRange
  <1>2. ASSUME NEW dir \in {"prev", "next"}
        PROVE  Flipped(pg, dir) \in Pagers(Ids, Sizes) /\ InRange(Flipped(pg, dir))
    <2>1. /\ TotalPages(pg.size, pg.perPage) \in Nat \ {0}
          /\ PageCount(pg.size, pg.perPage) \in Nat
          /\ PageCount(pg.size, pg.perPage) <= TotalPages(pg.size, pg.perPage)
      BY <1>0, TotalPagesBounds
    <2>2. CASE ~CanFlip(pg, dir)
      BY <2>2 DEF Flipped
    <2>3. CASE CanFlip(pg, dir) /\ dir = "prev"
      <3>1. Flipped(pg, dir) = [pg EXCEPT !.page = pg.page - 1] /\ pg.page > 1
        BY <2>3 DEF Flipped, CanFlip, CanGoBack
      <3> QED
        BY <1>0, <2>1, <3>1 DEF Pagers, InRange
    <2>4. CASE CanFlip(pg, dir) /\ dir = "next"
      <3>1. /\ Flipped(pg, dir) = [pg EXCEPT !.page = pg.page + 1]
            /\ pg.page < PageCount(pg.size, pg.perPage)
        BY <2>4 DEF Flipped, CanFlip, CanGoForward
      <3> QED
        BY <1>0, <2>1, <3>1 DEF Pagers, InRange
    <2> QED
      BY <2>2, <2>3, <2>4
  <1>3. ASSUME NEW size \in Sizes
        PROVE  Resized(pg, size) \in Pagers(Ids, Sizes) /\ InRange(Resized(pg, size))
    <2>1. TotalPages(pg.size, size) \in Nat \ {0}
      BY <1>0, TotalPagesBounds
    <2> DEFINE last == TotalPages(pg.size, size)
               page == IF pg.page > last THEN last ELSE pg.page
    <2>2. page \in Nat \ {0} /\ page <= last
      BY <1>0, <2>1
    <2>3. Resized(pg, size) =
            [id |-> pg.id, size |-> pg.size, perPage |-> size, page |-> page]
      BY DEF Resized
    <2> QED
      BY <1>0, <2>2, <2>3 DEF Pagers, InRange
  <1> QED
    BY <1>1, <1>2, <1>3

\* The page in range of a list with items shows at least one of them.
LEMMA PageNotEmpty ==
  ASSUME NEW Ids, NEW Sizes, Sizes \subseteq Nat \ {0},
         NEW pg \in Pagers(Ids, Sizes), InRange(pg), pg.size > 0
  PROVE  Window(pg) # {}
  <1> DEFINE first == (pg.page - 1) * pg.perPage + 1
  <1>1. pg.size \in Nat /\ pg.page \in Nat \ {0} /\ pg.perPage \in Nat \ {0}
    BY DEF Pagers
  <1>2. /\ first \in 1 .. pg.size /\ first <= pg.page * pg.perPage
        /\ (pg.page - 1) * pg.perPage \in Nat
    BY <1>1, FirstOfPage DEF InRange
  <1>3. first \in Window(pg)
    BY <1>2 DEF Window
  <1> QED
    BY <1>3

\* What a pager writes in the page controls.
LEMMA PagerScreen ==
  ASSUME NEW Ids, NEW Sizes, Sizes \subseteq Nat \ {0}, NEW pg \in Pagers(Ids, Sizes)
  PROVE  /\ Window(pg) \subseteq Nat
         /\ ControlsOf(pg) \in
              [page : Nat, pages : Nat, prevOff : BOOLEAN, nextOff : BOOLEAN]
  <1>0. pg.size \in Nat /\ pg.page \in Nat \ {0} /\ pg.perPage \in Nat \ {0}
    BY DEF Pagers
  <1>1. TotalPages(pg.size, pg.perPage) \in Nat \ {0}
    BY <1>0, TotalPagesBounds
  <1> QED
    BY <1>0, <1>1 DEF Window, ControlsOf
------------------------------------------------------------------------------
(***************************************************************************)
(* The pane.                                                               *)
(***************************************************************************)

\* Inductive: the two pagers are in range, and the screen is what the pager of
\* the view drew last.
PaneInv == TypeOK /\ BothInRange /\ ShownIsCurrentPage /\ ControlsTellTheView

LEMMA PageSizesPositive == PageSizes \subseteq Nat \ {0} /\ InitialSize \in PageSizes
  BY ResultsAssumption

\* TypeOK and BothInRange in the vocabulary of the pager lemmas.
LEMMA InvPagers ==
  ASSUME TypeOK, BothInRange
  PROVE  /\ grid \in Pagers(ListIds, PageSizes) /\ InRange(grid)
         /\ table \in Pagers(ListIds, PageSizes) /\ InRange(table)
  BY DEF TypeOK, BothInRange, PagerType, Pagers, InRange

\* A page drawn by a pager is a screen.
ScreenType ==
  [shown : [id : ListIds, items : SUBSET Nat], controls : ControlsType]

LEMMA DrawType ==
  ASSUME NEW pg \in Pagers(ListIds, PageSizes), NEW s \in ScreenType, NEW v \in BOOLEAN
  PROVE  DrawGrid(v, pg, s) \in ScreenType /\ DrawTable(v, pg, s) \in ScreenType
  <1>1. Items(pg) \in [id : ListIds, items : SUBSET Nat]
    BY PageSizesPositive, PagerScreen DEF Items, Pagers
  <1>2. ControlsOf(pg) \in ControlsType
    BY PageSizesPositive, PagerScreen DEF ControlsType
  <1>3. s.shown \in [id : ListIds, items : SUBSET Nat] /\ s.controls \in ControlsType
    BY DEF ScreenType
  <1>4. DrawGrid(v, pg, s) \in ScreenType
    BY <1>1, <1>2 DEF DrawGrid, ScreenType
  <1>5. DrawTable(v, pg, s) \in ScreenType
    BY <1>1, <1>2, <1>3 DEF DrawTable, ScreenType
  <1> QED
    BY <1>4, <1>5

\* The pane starts empty and in range.
LEMMA PaneInitInv == PaneInit => PaneInv
  <1> SUFFICES ASSUME PaneInit PROVE PaneInv
    OBVIOUS
  <1> USE DEF PaneInit, InitialPager, InitialScreen
  <1>1. grid \in PagerType /\ table = grid
    BY PageSizesPositive DEF PagerType, ListIds
  <1>2. TotalPages(grid.size, grid.perPage) \in Nat \ {0}
    BY PageSizesPositive, TotalPagesBounds
  <1>3. screen \in ScreenType
    BY DEF ScreenType, ControlsType, Nothing, ListIds
  <1>4. TypeOK
    BY <1>1, <1>3, PageSizesPositive DEF TypeOK, ScreenType, ListIds
  <1>5. BothInRange
    BY <1>1, <1>2 DEF BothInRange
  <1>6. ShownIsCurrentPage /\ ControlsTellTheView
    BY DEF ShownIsCurrentPage, ControlsTellTheView
  <1> QED
    BY <1>4, <1>5, <1>6 DEF PaneInv

\* The step of the pagers, common to every action: whichever of the pager
\* operations an action applies, both pagers stay pagers in range.
PagersStep ==
  /\ grid' \in Pagers(ListIds, PageSizes) /\ InRange(grid)'
  /\ table' \in Pagers(ListIds, PageSizes) /\ InRange(table)'

LEMMA StepFacts ==
  ASSUME PaneInv, tableView' \in BOOLEAN, armed' \in BOOLEAN, PagersStep,
         screen' \in ScreenType, slider' \in PageSizes,
         currentVideos' \in ListIds
  PROVE  TypeOK' /\ BothInRange'
  BY DEF TypeOK, BothInRange, PagersStep, Pagers, PagerType, InRange, ScreenType

\* A redraw of the grid and then of the table leaves a screen that agrees with
\* the pager of the view: what ClickButton and ArrowKey have in common.
LEMMA RedrawKeepsScreen ==
  ASSUME PaneInv, PagersStep,
         UNCHANGED <<tableView, armed>>,
         tableView \/ armed \/ table' = table,
         screen' = RedrawTable(table, table', RedrawGrid(grid, grid', screen))
  PROVE  /\ screen' \in ScreenType
         /\ ShownIsCurrentPage'
         /\ ControlsTellTheView'
  <1> DEFINE mid == RedrawGrid(grid, grid', screen)
  <1>0. screen \in ScreenType /\ tableView \in BOOLEAN /\ armed \in BOOLEAN
    BY DEF PaneInv, TypeOK, ScreenType
  <1>1. mid \in ScreenType
    BY <1>0, DrawType DEF RedrawGrid, PagersStep
  <1>2. screen' \in ScreenType
    BY <1>0, <1>1, DrawType DEF RedrawTable, PagersStep
  <1>3. CASE tableView
    <2>1. mid = screen
      BY <1>3 DEF RedrawGrid, DrawGrid
    <2>2. tableView' /\ Visible = table /\ Visible' = table'
      BY <1>3 DEF Visible
    <2>3. CASE table' = table
      <3>1. screen' = screen
        BY <2>1, <2>3 DEF RedrawTable
      <3>2. ShownIsCurrentPage /\ ControlsTellTheView
        BY DEF PaneInv
      <3>3. ShownIsCurrentPage' /\ ControlsTellTheView'
        BY <1>3, <2>2, <2>3, <3>1, <3>2 DEF ShownIsCurrentPage, ControlsTellTheView
      <3> QED
        BY <1>2, <3>3
    <2>4. CASE table' # table
      <3>1. screen' = [shown |-> Items(table'), controls |-> ControlsOf(table')]
        BY <1>3, <2>4 DEF RedrawTable, DrawTable
      <3>2. ShownIsCurrentPage' /\ ControlsTellTheView'
        BY <2>2, <3>1 DEF ShownIsCurrentPage, ControlsTellTheView
      <3> QED
        BY <1>2, <3>2
    <2> QED
      BY <2>3, <2>4
  <1>4. CASE ~tableView
    <2>1. mid.shown \in {Nothing, Items(grid')}
      BY <1>4 DEF RedrawGrid, DrawGrid, PaneInv, ShownIsCurrentPage, Visible
    <2>2. screen'.shown = mid.shown
      BY <1>4 DEF RedrawTable, DrawTable
    <2>3. ShownIsCurrentPage'
      BY <1>4, <2>1, <2>2 DEF ShownIsCurrentPage, Visible
    <2>4. ASSUME ~armed, screen'.shown # Nothing
          PROVE  screen'.controls = ControlsOf(grid')
      <3>1. screen' = mid
        BY <1>4, <2>4 DEF RedrawTable
      <3>2. CASE grid' = grid
        BY <1>4, <2>4, <3>1, <3>2 DEF RedrawGrid, PaneInv, ControlsTellTheView, Visible
      <3>3. CASE grid' # grid
        BY <1>4, <3>1, <3>3 DEF RedrawGrid, DrawGrid
      <3> QED
        BY <3>2, <3>3
    <2> QED
      BY <1>2, <1>4, <2>3, <2>4 DEF ControlsTellTheView, Visible
  <1> QED
    BY <1>0, <1>3, <1>4
------------------------------------------------------------------------------
(***************************************************************************)
(* One step per action.                                                    *)
(***************************************************************************)
\* After the pager of the view has drawn its page, the screen agrees with it.
LEMMA JustDrawn ==
  ASSUME screen' = [shown |-> Items(Visible'), controls |-> ControlsOf(Visible')]
  PROVE  ShownIsCurrentPage' /\ ControlsTellTheView'
  BY DEF ShownIsCurrentPage, ControlsTellTheView

LEMMA RenderInv ==
  ASSUME PaneInv, NEW r \in Results, Render(r)
  PROVE  PaneInv'
  <1> USE DEF Render
  <1>0. /\ grid \in Pagers(ListIds, PageSizes) /\ InRange(grid)
        /\ table \in Pagers(ListIds, PageSizes) /\ InRange(table)
        /\ screen \in ScreenType /\ slider \in PageSizes
        /\ tableView \in BOOLEAN /\ armed \in BOOLEAN /\ currentVideos \in ListIds
    BY InvPagers DEF PaneInv, TypeOK, ScreenType
  <1>1. r.id \in ListIds /\ r.size \in Nat
    BY ResultsAssumption DEF ListIds
  <1>2. CASE RenderGrid(r)
    <2>1. PagersStep
      BY <1>0, <1>1, <1>2, PagerSteps, PageSizesPositive DEF RenderGrid, PagersStep, InRange
    <2>2. screen' = [shown |-> Items(grid'), controls |-> ControlsOf(grid')]
      BY <1>2 DEF RenderGrid, DrawGrid
    <2>3. screen' \in ScreenType
      BY <1>0, <1>2, <2>1, DrawType DEF RenderGrid, PagersStep
    <2>4. TypeOK' /\ BothInRange'
      BY <1>0, <1>1, <1>2, <2>1, <2>3, StepFacts DEF RenderGrid
    <2>5. Visible' = grid'
      BY <1>2 DEF RenderGrid, Visible
    <2>6. ShownIsCurrentPage' /\ ControlsTellTheView'
      BY <2>2, <2>5, JustDrawn
    <2> QED
      BY <2>4, <2>6 DEF PaneInv
  <1>3. CASE RenderTable(r)
    <2>1. PagersStep
      BY <1>0, <1>1, <1>3, PagerSteps, PageSizesPositive DEF RenderTable, PagersStep, InRange
    <2>2. screen' = [shown |-> Items(table'), controls |-> ControlsOf(table')]
      BY <1>3 DEF RenderTable, DrawTable
    <2>3. screen' \in ScreenType
      BY <1>0, <1>3, <2>1, DrawType DEF RenderTable, PagersStep
    <2>4. TypeOK' /\ BothInRange'
      BY <1>0, <1>1, <1>3, <2>1, <2>3, StepFacts DEF RenderTable
    <2>5. Visible' = table'
      BY <1>3 DEF RenderTable, Visible
    <2>6. ShownIsCurrentPage' /\ ControlsTellTheView'
      BY <2>2, <2>5, JustDrawn
    <2> QED
      BY <2>4, <2>6 DEF PaneInv
  <1>4. CASE RenderNone(r)
    <2>1. PagersStep
      BY <1>0, <1>4 DEF RenderNone, PagersStep, InRange
    <2>2. screen'.shown = Nothing /\ screen' \in ScreenType
      BY <1>0, <1>4 DEF RenderNone, ScreenType, Nothing, ListIds
    <2>3. TypeOK' /\ BothInRange'
      BY <1>0, <1>1, <1>4, <2>1, <2>2, StepFacts DEF RenderNone
    <2> QED
      BY <2>2, <2>3 DEF PaneInv, ShownIsCurrentPage, ControlsTellTheView
  <1> QED
    BY <1>2, <1>3, <1>4

\* Clicks and keys: the pagers flip or stay, then the screen is redrawn.
LEMMA FlipInv ==
  ASSUME PaneInv, NEW dir \in Directions, ClickButton(dir) \/ ArrowKey(dir)
  PROVE  PaneInv'
  <1>0. /\ grid \in Pagers(ListIds, PageSizes) /\ InRange(grid)
        /\ table \in Pagers(ListIds, PageSizes) /\ InRange(table)
        /\ slider \in PageSizes /\ tableView \in BOOLEAN /\ armed \in BOOLEAN
        /\ currentVideos \in ListIds
    BY InvPagers DEF PaneInv, TypeOK
  <1>1. /\ grid' \in {grid, Flipped(grid, dir)}
        /\ table' \in {table, Flipped(table, dir)}
        /\ tableView \/ armed \/ table' = table
        /\ screen' = RedrawTable(table, table', RedrawGrid(grid, grid', screen))
        /\ UNCHANGED <<tableView, armed, slider, currentVideos>>
    BY DEF ClickButton, ArrowKey, GridKey, TableKey
  <1>2. PagersStep
    <2>1. Flipped(grid, dir) \in Pagers(ListIds, PageSizes) /\ InRange(Flipped(grid, dir))
      BY <1>0, PagerSteps, PageSizesPositive DEF Directions
    <2>2. Flipped(table, dir) \in Pagers(ListIds, PageSizes) /\ InRange(Flipped(table, dir))
      BY <1>0, PagerSteps, PageSizesPositive DEF Directions
    <2>3. grid' \in Pagers(ListIds, PageSizes) /\ InRange(grid')
      BY <1>0, <1>1, <2>1
    <2>4. table' \in Pagers(ListIds, PageSizes) /\ InRange(table')
      BY <1>0, <1>1, <2>2
    <2> QED
      BY <2>3, <2>4 DEF PagersStep, InRange
  <1>3. screen' \in ScreenType /\ ShownIsCurrentPage' /\ ControlsTellTheView'
    BY <1>1, <1>2, RedrawKeepsScreen
  <1>4. TypeOK' /\ BothInRange'
    BY <1>0, <1>1, <1>2, <1>3, StepFacts
  <1> QED
    BY <1>3, <1>4 DEF PaneInv

LEMMA MoveSliderInv ==
  ASSUME PaneInv, NEW size \in PageSizes, MoveSlider(size)
  PROVE  PaneInv'
  <1> USE DEF MoveSlider
  <1>0. /\ grid \in Pagers(ListIds, PageSizes) /\ InRange(grid)
        /\ table \in Pagers(ListIds, PageSizes) /\ InRange(table)
        /\ screen \in ScreenType /\ tableView \in BOOLEAN /\ armed \in BOOLEAN
        /\ currentVideos \in ListIds
    BY InvPagers DEF PaneInv, TypeOK, ScreenType
  <1>1. CASE ResizeGrid(size)
    <2>1. PagersStep
      BY <1>0, <1>1, PagerSteps, PageSizesPositive DEF ResizeGrid, PagersStep, InRange
    <2>2. screen' = [shown |-> Items(grid'), controls |-> ControlsOf(grid')]
      BY <1>1 DEF ResizeGrid, DrawGrid
    <2>3. screen' \in ScreenType
      BY <1>0, <1>1, <2>1, DrawType DEF ResizeGrid, PagersStep
    <2>4. TypeOK' /\ BothInRange'
      BY <1>0, <2>1, <2>3, StepFacts
    <2>5. Visible' = grid'
      BY <1>1 DEF ResizeGrid, Visible
    <2>6. ShownIsCurrentPage' /\ ControlsTellTheView'
      BY <2>2, <2>5, JustDrawn
    <2> QED
      BY <2>4, <2>6 DEF PaneInv
  <1>2. CASE ResizeTable(size)
    <2>1. PagersStep
      BY <1>0, <1>2, PagerSteps, PageSizesPositive DEF ResizeTable, PagersStep, InRange
    <2>2. screen' = [shown |-> Items(table'), controls |-> ControlsOf(table')]
      BY <1>2 DEF ResizeTable, DrawTable
    <2>3. screen' \in ScreenType
      BY <1>0, <1>2, <2>1, DrawType DEF ResizeTable, PagersStep
    <2>4. TypeOK' /\ BothInRange'
      BY <1>0, <2>1, <2>3, StepFacts
    <2>5. Visible' = table'
      BY <1>2 DEF ResizeTable, Visible
    <2>6. ShownIsCurrentPage' /\ ControlsTellTheView'
      BY <2>2, <2>5, JustDrawn
    <2> QED
      BY <2>4, <2>6 DEF PaneInv
  <1> QED
    BY <1>1, <1>2

\* A page load is the initial state again.
LEMMA PageLoadInv ==
  ASSUME PageLoad
  PROVE  PaneInv'
  <1> USE DEF PageLoad, InitialPager, InitialScreen
  <1>1. grid' \in PagerType /\ table' = grid'
    BY PageSizesPositive DEF PagerType, ListIds
  <1>2. TotalPages(grid'.size, grid'.perPage) \in Nat \ {0}
    BY PageSizesPositive, TotalPagesBounds
  <1>3. screen' \in ScreenType
    BY DEF ScreenType, ControlsType, Nothing, ListIds
  <1>4. TypeOK'
    BY <1>1, <1>3, PageSizesPositive DEF TypeOK, ScreenType, ListIds
  <1>5. BothInRange'
    BY <1>1, <1>2 DEF BothInRange
  <1>6. ShownIsCurrentPage' /\ ControlsTellTheView'
    BY DEF ShownIsCurrentPage, ControlsTellTheView
  <1> QED
    BY <1>4, <1>5, <1>6 DEF PaneInv

LEMMA StutterInv ==
  ASSUME PaneInv, UNCHANGED paneVars
  PROVE  PaneInv'
  BY DEF PaneInv, paneVars, TypeOK, BothInRange, ShownIsCurrentPage,
     ControlsTellTheView, Visible

LEMMA PaneStepInv == PaneInv /\ [PaneNext]_paneVars => PaneInv'
  BY RenderInv, FlipInv, MoveSliderInv, PageLoadInv, StutterInv DEF PaneNext, UserEvent

LEMMA PaneInvariance == PaneSpec => []PaneInv
  BY PaneInitInv, PaneStepInv, PTL DEF PaneSpec
------------------------------------------------------------------------------
\* Whatever is searched, clicked, pressed and resized, in any order, the pane's
\* state keeps its types (pagination.js, paginationTemporal.js).
THEOREM PaneTypes == PaneSpec => []TypeOK
  BY PaneInvariance, PTL DEF PaneInv

\* No paginator ever points past the last page of its list.
THEOREM PanePagesInRange == PaneSpec => []PagesInRange
  BY PaneInvariance, PTL DEF PaneInv, PagesInRange

\* The container never mixes the two views: it is empty or shows exactly the
\* current page of the view it is in.
THEOREM PaneShowsCurrentPage == PaneSpec => []ShownIsCurrentPage
  BY PaneInvariance, PTL DEF PaneInv

\* Before any temporal search, and in table view, the page controls are right.
THEOREM PaneControls == PaneSpec => []ControlsTellTheView
  BY PaneInvariance, PTL DEF PaneInv

\* No list with results is ever paged to an empty page.
THEOREM PaneNoEmptyPage == PaneSpec => []NoEmptyPage
  <1>1. PaneInv => NoEmptyPage
    <2> SUFFICES ASSUME PaneInv PROVE NoEmptyPage
      OBVIOUS
    <2>1. /\ grid \in Pagers(ListIds, PageSizes) /\ InRange(grid)
          /\ table \in Pagers(ListIds, PageSizes) /\ InRange(table)
      BY InvPagers DEF PaneInv
    <2> QED
      BY <2>1, PageNotEmpty, PageSizesPositive DEF NoEmptyPage
  <1> QED
    BY <1>1, PaneInvariance, PTL

-----------------------------------------------------------------------------
(***************************************************************************)
(* The search page.                                                        *)
(***************************************************************************)

\* The types that the invariants below need.
StagesType ==
  /\ stage \in [Searches -> {"idle", "translating", "fetching", "submitting", "done"}]
  /\ issued \in 0 .. MaxSearches

\* Requests not issued yet are idle.
IdleAhead == \A i \in Searches : i > issued => stage[i] = "idle"

OverlayInv == StagesType /\ IdleAhead /\ OverlayMeansPending

LEMMA IssueInv ==
  ASSUME OverlayInv, NEW s \in {"translating", "fetching", "submitting"}, Issue(s)
  PROVE  OverlayInv'
<1>1. issued + 1 \in Searches /\ issued' = issued + 1
  BY SearchAssumption DEF OverlayInv, StagesType, Issue, Searches
<1>2. stage' = [stage EXCEPT ![issued + 1] = s]
  BY DEF Issue
<1>3. StagesType'
  BY <1>1, <1>2 DEF OverlayInv, StagesType, Issue, Searches
<1>4. IdleAhead'
  BY <1>1, <1>2 DEF OverlayInv, StagesType, IdleAhead, Searches
<1>5. issued + 1 \in InFlight'
  BY <1>1, <1>2 DEF OverlayInv, StagesType, InFlight
<1> QED BY <1>3, <1>4, <1>5 DEF OverlayInv, OverlayMeansPending

\* A step that lowers the overlay and issues nothing.
LEMMA LowerInv ==
  ASSUME OverlayInv, UNCHANGED issued, overlay' = FALSE,
         \/ UNCHANGED stage
         \/ \E i \in Searches : stage[i] # "idle" /\ Leaves(i, "done")
         \/ stage' = [i \in Searches |-> IF i \in InFlight THEN "done" ELSE stage[i]]
  PROVE  OverlayInv'
<1>1. CASE UNCHANGED stage
  BY <1>1 DEF OverlayInv, StagesType, IdleAhead, OverlayMeansPending
<1>2. ASSUME NEW i \in Searches, stage[i] # "idle", Leaves(i, "done")
      PROVE  OverlayInv'
  BY <1>2 DEF OverlayInv, StagesType, IdleAhead, OverlayMeansPending, Leaves, Searches
<1>3. CASE stage' = [i \in Searches |-> IF i \in InFlight THEN "done" ELSE stage[i]]
  BY <1>3 DEF OverlayInv, StagesType, IdleAhead, OverlayMeansPending, InFlight, Searches
<1> QED BY <1>1, <1>2, <1>3

LEMMA SubmitOrRefuseInv ==
  ASSUME OverlayInv, SubmitForm \/ RefuseForm
  PROVE  OverlayInv'
<1>1. CASE SubmitForm
  BY <1>1, IssueInv DEF SubmitForm
<1>2. CASE RefuseForm
  BY <1>2, LowerInv DEF RefuseForm
<1> QED BY <1>1, <1>2

LEMMA StepOverlayInv == OverlayInv /\ [Next]_vars => OverlayInv'
<1> SUFFICES ASSUME OverlayInv, [Next]_vars PROVE OverlayInv'
  OBVIOUS
<1>1. CASE Start
  BY <1>1, SubmitOrRefuseInv, IssueInv DEF Start, ScrollSearch, SubmitToDres
<1>2. ASSUME NEW i \in Searches, Finish(i)
      PROVE  OverlayInv'
  <2>1. CASE Translated(i)
    <3>1. stage[i] = "translating" /\ stage' = [stage EXCEPT ![i] = "fetching"]
      BY <2>1 DEF Translated, Leaves
    <3>2. i \in InFlight'
      BY <3>1 DEF OverlayInv, StagesType, InFlight
    <3>3. StagesType' /\ IdleAhead'
      BY <2>1, <3>1 DEF Translated, OverlayInv, StagesType, IdleAhead, Searches
    <3> QED BY <3>2, <3>3 DEF OverlayInv, OverlayMeansPending
  <2>2. CASE GiveUp(i)
    BY <2>2, LowerInv DEF GiveUp, InFlight
  <2>3. ASSUME NEW r \in Results, Answered(i, r) \/ StorageFull(i, r)
        PROVE  OverlayInv'
    BY <2>3, LowerInv DEF Answered, StorageFull
  <2> QED BY <1>2, <2>1, <2>2, <2>3 DEF Finish
<1>3. CASE UNCHANGED searchVars
  BY <1>3 DEF searchVars, OverlayInv, StagesType, IdleAhead, OverlayMeansPending, InFlight
<1>4. CASE ClearHistory
  BY <1>4, SubmitOrRefuseInv DEF ClearHistory
<1>5. CASE Reload
  BY <1>5, LowerInv DEF Reload
<1> QED
  BY <1>1, <1>2, <1>3, <1>4, <1>5 DEF Next, vars, LoadPrevious, LoadFromDropdown

\* The loading overlay is never left behind: whenever it is displayed, some
\* request is in flight whose handler will hide it.
THEOREM OverlayTells == Spec => []OverlayMeansPending
<1>1. Init => OverlayInv
  BY SearchAssumption
  DEF Init, OverlayInv, StagesType, IdleAhead, OverlayMeansPending, Searches
<1>2. OverlayInv => OverlayMeansPending
  BY DEF OverlayInv
<1> QED BY <1>1, <1>2, StepOverlayInv, PTL DEF Spec
------------------------------------------------------------------------------
\* The dropdown and sessionStorage hold the same entries in every state, a
\* write that throws included, so a reload brings back what was listed.
THEOREM ReloadKeepsTheList == Spec => []StoredIsListed
<1>1. Init => StoredIsListed
  BY DEF Init, StoredIsListed
<1>2. ASSUME StoredIsListed, [Next]_vars
      PROVE  StoredIsListed'
  <2>1. CASE Start
    BY <1>2, <2>1 DEF StoredIsListed, Start
  <2>2. ASSUME NEW i \in Searches, Finish(i)
        PROVE  StoredIsListed'
    BY <1>2, <2>2 DEF StoredIsListed, Finish, Translated, GiveUp, Answered, StorageFull
  <2>3. CASE UNCHANGED searchVars
    BY <1>2, <2>3 DEF StoredIsListed, searchVars
  <2>4. CASE ClearHistory
    BY <2>4 DEF StoredIsListed, ClearHistory
  <2>5. CASE Reload
    BY <2>5 DEF StoredIsListed, Reload
  <2> QED
    BY <1>2, <2>1, <2>2, <2>3, <2>4, <2>5 DEF Next, vars, LoadPrevious, LoadFromDropdown
<1>3. StoredIsListed /\ [Next]_vars => StoredIsListed'
  BY <1>2
<1> QED BY <1>1, <1>3, PTL DEF Spec
------------------------------------------------------------------------------
\* The history and its stored copy are sequences of contexts, cut at the cap.
HistoryInv ==
  /\ history \in Seq(Contexts) /\ stored \in Seq(Contexts)
  /\ Len(history) <= HistoryCap /\ Len(stored) <= HistoryCap

LEMMA RememberInSeq ==
  ASSUME HistoryInv, NEW c \in Contexts
  PROVE  Remember(c) \in Seq(Contexts) /\ Len(Remember(c)) <= HistoryCap
<1> DEFINE h == <<c>> \o history
           n == AtMost(Len(history) + 1)
<1>1. h \in Seq(Contexts) /\ Len(h) = Len(history) + 1
  BY DEF HistoryInv
<1>2. n \in 1 .. Len(h) /\ n <= HistoryCap
  BY <1>1, SearchAssumption DEF AtMost, HistoryInv
<1>3. SubSeq(h, 1, n) \in Seq(Contexts) /\ Len(SubSeq(h, 1, n)) = n
  <2> HIDE DEF h, n
  <2> QED BY <1>1, <1>2
<1> QED BY <1>2, <1>3 DEF Remember

LEMMA StepHistoryInv == HistoryInv /\ [Next]_vars => HistoryInv'
<1> SUFFICES ASSUME HistoryInv, [Next]_vars PROVE HistoryInv'
  OBVIOUS
<1>1. CASE Start
  BY <1>1 DEF HistoryInv, Start
<1>2. ASSUME NEW i \in Searches, Finish(i)
      PROVE  HistoryInv'
  <2>1. CASE Translated(i) \/ GiveUp(i)
    BY <2>1 DEF HistoryInv, Translated, GiveUp
  <2>2. ASSUME NEW r \in Results, Answered(i, r) \/ StorageFull(i, r)
        PROVE  HistoryInv'
    <3> DEFINE c == [search |-> i, results |-> r]
    <3>1. c \in Contexts
      BY DEF Contexts
    <3>2. history' = Remember(c) /\ stored' \in {stored, history'}
      BY <2>2 DEF Answered, StorageFull
    <3> HIDE DEF c
    <3> QED BY <3>1, <3>2, RememberInSeq DEF HistoryInv
  <2> QED BY <1>2, <2>1, <2>2 DEF Finish
<1>3. CASE UNCHANGED searchVars
  BY <1>3 DEF HistoryInv, searchVars
<1>4. CASE ClearHistory
  BY <1>4, SearchAssumption DEF HistoryInv, ClearHistory
<1>5. CASE Reload
  BY <1>5 DEF HistoryInv, Reload
<1> QED
  BY <1>1, <1>2, <1>3, <1>4, <1>5 DEF Next, vars, LoadPrevious, LoadFromDropdown

\* Only an answer, an entry of the history or a reload redraws the pane.
LEMMA StepRefinesPane == HistoryInv /\ [Next]_vars => [PaneNext]_paneVars
<1> SUFFICES ASSUME HistoryInv, [Next]_vars PROVE [PaneNext]_paneVars
  OBVIOUS
<1>1. CASE Start \/ ClearHistory
  BY <1>1 DEF Start, ClearHistory
<1>2. ASSUME NEW i \in Searches, Finish(i)
      PROVE  [PaneNext]_paneVars
  BY <1>2 DEF Finish, Translated, GiveUp, Answered, StorageFull, PaneNext
<1>3. ASSUME NEW k \in DOMAIN history, Render(history[k].results)
      PROVE  PaneNext
  <2>1. history[k] \in Contexts
    BY DEF HistoryInv
  <2>2. history[k].results \in Results
    BY <2>1 DEF Contexts
  <2> QED BY <1>3, <2>2 DEF PaneNext
<1>4. CASE LoadPrevious
  <2>1. 1 \in DOMAIN history
    BY <1>4 DEF LoadPrevious, HistoryInv
  <2> QED BY <1>3, <1>4, <2>1 DEF LoadPrevious
<1>5. ASSUME NEW k \in 1 .. HistoryCap, LoadFromDropdown(k)
      PROVE  PaneNext
  BY <1>3, <1>5 DEF LoadFromDropdown
<1>6. CASE Reload
  BY <1>6 DEF Reload, PaneNext
<1>7. CASE UserEvent
  BY <1>7 DEF PaneNext
<1>8. CASE UNCHANGED vars
  BY <1>8 DEF vars
<1> QED BY <1>1, <1>2, <1>4, <1>5, <1>6, <1>7, <1>8 DEF Next

\* Every list the page draws is one a search answered, drawn by the pane's own
\* operations.
LEMMA PageUsesPane == Spec => PaneSpec
<1>1. Init => PaneInit /\ HistoryInv
  BY SearchAssumption DEF Init, HistoryInv
<1> QED BY <1>1, StepHistoryInv, StepRefinesPane, PTL DEF Spec, PaneSpec

\* With searches answered in any order, entries of the history chosen again and
\* reloads, both paginators of the page in use stay in the range of their lists,
\* the container shows the current page of its view or nothing, and the controls
\* are right in table view and until the first temporal search.
THEOREM PageKeepsPane == Spec => [](PagesInRange /\ ShownIsCurrentPage /\ ControlsTellTheView)
BY PageUsesPane, PanePagesInRange, PaneShowsCurrentPage, PaneControls, PTL
------------------------------------------------------------------------------
(***************************************************************************)
(* What the history holds.                                                 *)
(***************************************************************************)

\* The history is the end of the log, newest first.
Recent ==
  /\ log \in Seq(Contexts)
  /\ Len(history) = AtMost(Len(log))
  /\ \A k \in 1 .. Len(history) : history[k] = log[Len(log) - k + 1]

\* Entries are of requests that are over, each of another one.
OnceDone(h) ==
  /\ \A k \in 1 .. Len(h) : stage[h[k].search] = "done"
  /\ \A j, k \in 1 .. Len(h) : h[j].search = h[k].search => j = k

EntriesInv == OnceDone(history) /\ OnceDone(stored)

LEMMA RememberIs ==
  ASSUME HistoryInv, NEW c \in Contexts
  PROVE  /\ Len(Remember(c)) = AtMost(Len(history) + 1)
         /\ \A k \in 1 .. Len(Remember(c)) :
              Remember(c)[k] = IF k = 1 THEN c ELSE history[k - 1]
<1> DEFINE h == <<c>> \o history
           n == AtMost(Len(history) + 1)
<1>1. /\ h \in Seq(Contexts) /\ Len(h) = Len(history) + 1
      /\ \A k \in 1 .. Len(h) : h[k] = IF k = 1 THEN c ELSE history[k - 1]
  BY DEF HistoryInv
<1>2. n \in 1 .. Len(h)
  BY <1>1, SearchAssumption DEF AtMost, HistoryInv
<1>3. Len(SubSeq(h, 1, n)) = n /\ \A k \in 1 .. n : SubSeq(h, 1, n)[k] = h[k]
  <2> HIDE DEF h, n
  <2> QED BY <1>1, <1>2
<1>4. 1 .. n \subseteq 1 .. Len(h)
  <2> HIDE DEF h, n
  <2> QED BY <1>1, <1>2
<1> HIDE DEF h, n
<1>5. Remember(c) = SubSeq(h, 1, n)
  BY DEF Remember, h, n
<1>6. Len(Remember(c)) = n
  BY <1>3, <1>5
<1>7. \A k \in 1 .. n : Remember(c)[k] = IF k = 1 THEN c ELSE history[k - 1]
  BY <1>1, <1>3, <1>4, <1>5
<1> QED
  BY <1>6, <1>7 DEF n

LEMMA RecentAfterAnswer ==
  ASSUME HistoryInv, Recent, NEW c \in Contexts,
         history' = Remember(c), log' = Append(log, c)
  PROVE  Recent'
<1>1. /\ log' \in Seq(Contexts) /\ Len(log') = Len(log) + 1 /\ log'[Len(log) + 1] = c
      /\ \A k \in 1 .. Len(log) : log'[k] = log[k]
  BY DEF Recent
<1>2. Len(log) \in Nat /\ HistoryCap \in Nat /\ HistoryCap > 0 /\ Len(history) = AtMost(Len(log))
  BY SearchAssumption DEF Recent
<1>3. Len(history') = AtMost(Len(history) + 1)
      /\ \A k \in 1 .. Len(history') : history'[k] = IF k = 1 THEN c ELSE history[k - 1]
  BY RememberIs
<1>4. AtMost(Len(history) + 1) = AtMost(Len(log) + 1)
  BY <1>2 DEF AtMost
<1>5. Len(history') = AtMost(Len(log'))
  BY <1>1, <1>3, <1>4
<1>6. ASSUME NEW k \in 1 .. Len(history')
      PROVE  history'[k] = log'[Len(log') - k + 1]
  <2>1. CASE k = 1
    BY <1>1, <1>2, <1>3, <2>1
  <2>2. CASE k # 1
    <3>1. k \in Nat /\ k > 1 /\ k <= AtMost(Len(log) + 1)
      BY <1>2, <1>3, <1>4, <2>2 DEF AtMost
    <3>2. k - 1 \in 1 .. Len(history)
      BY <1>2, <1>3, <3>1 DEF AtMost
    <3>3. history'[k] = log[Len(log) - (k - 1) + 1]
      BY <1>3, <2>2, <3>2 DEF Recent
    <3>4. Len(log) - (k - 1) + 1 \in 1 .. Len(log)
          /\ Len(log) - (k - 1) + 1 = (Len(log) + 1) - k + 1
      BY <1>2, <3>1, <3>2 DEF AtMost
    <3> QED
      BY <1>1, <3>3, <3>4
  <2> QED
    BY <2>1, <2>2
<1> QED
  BY <1>1, <1>5, <1>6 DEF Recent

\* After a reload the log is what was stored.
LEMMA RecentAfterReload ==
  ASSUME HistoryInv, history' = stored, log' = Reverse(stored)
  PROVE  Recent'
<1>1. stored \in Seq(Contexts) /\ Len(stored) \in Nat /\ Len(stored) <= HistoryCap
      /\ HistoryCap \in Nat
  BY SearchAssumption DEF HistoryInv
<1>2. log' = [i \in 1 .. Len(stored) |-> stored[Len(stored) - i + 1]]
  BY DEF Reverse
<1>3. \A i \in 1 .. Len(stored) : Len(stored) - i + 1 \in 1 .. Len(stored)
  BY <1>1
<1>4. log' \in Seq(Contexts) /\ Len(log') = Len(stored)
  <2>1. \A i \in 1 .. Len(stored) : stored[Len(stored) - i + 1] \in Contexts
    BY <1>1, <1>3
  <2> QED
    BY <1>1, <1>2, <2>1
<1>5. \A k \in 1 .. Len(stored) : stored[k] = log'[Len(stored) - k + 1]
  <2> SUFFICES ASSUME NEW k \in 1 .. Len(stored)
               PROVE  stored[k] = log'[Len(stored) - k + 1]
    OBVIOUS
  <2>1. Len(stored) - k + 1 \in 1 .. Len(stored)
        /\ Len(stored) - (Len(stored) - k + 1) + 1 = k
    BY <1>1
  <2> QED
    BY <1>2, <2>1
<1>6. AtMost(Len(stored)) = Len(stored)
  BY <1>1 DEF AtMost
<1> QED
  BY <1>4, <1>5, <1>6 DEF Recent

\* Every entry is of some request.
LEMMA SearchOf ==
  ASSUME NEW h \in Seq(Contexts)
  PROVE  \A k \in 1 .. Len(h) : h[k] \in Contexts /\ h[k].search \in Searches
<1>1. \A k \in 1 .. Len(h) : h[k] \in Contexts
  OBVIOUS
<1>2. \A c \in Contexts : c.search \in Searches
  BY DEF Contexts
<1> QED BY <1>1, <1>2

\* A request that is over stays over.
LEMMA DoneStays ==
  ASSUME OverlayInv, [Next]_vars, NEW i \in Searches, stage[i] = "done"
  PROVE  stage'[i] = "done"
<1>1. ASSUME NEW s \in {"translating", "fetching", "submitting"}, Issue(s)
      PROVE  stage'[i] = "done"
  <2>1. issued + 1 \in Searches /\ issued + 1 > issued
    BY <1>1, SearchAssumption DEF Issue, OverlayInv, StagesType, Searches
  <2>2. stage[issued + 1] = "idle"
    BY <2>1 DEF OverlayInv, IdleAhead
  <2> QED
    BY <1>1, <2>2 DEF Issue, OverlayInv, StagesType
<1>2. CASE SubmitForm \/ RefuseForm
  BY <1>1, <1>2 DEF SubmitForm, RefuseForm
<1>3. CASE Start
  BY <1>1, <1>2, <1>3 DEF Start, ScrollSearch, SubmitToDres
<1>4. ASSUME NEW j \in Searches, Finish(j)
      PROVE  stage'[i] = "done"
  <2>1. PICK s \in {"fetching", "done"} : stage' = [stage EXCEPT ![j] = s]
    BY <1>4 DEF Finish, Translated, GiveUp, Answered, StorageFull, Leaves
  <2>2. j # i \/ s = "done"
    BY <1>4, <2>1 DEF Finish, Translated, GiveUp, Answered, StorageFull, Leaves, InFlight
  <2> QED
    BY <2>1, <2>2 DEF OverlayInv, StagesType
<1>5. CASE Reload
  BY <1>5 DEF Reload, InFlight
<1>6. CASE ClearHistory
  BY <1>2, <1>6 DEF ClearHistory
<1>7. CASE UNCHANGED searchVars
  BY <1>7 DEF searchVars
<1> QED
  BY <1>3, <1>4, <1>5, <1>6, <1>7 DEF Next, vars, LoadPrevious, LoadFromDropdown

LEMMA StepEntries ==
  ASSUME HistoryInv, OverlayInv, EntriesInv, [Next]_vars
  PROVE  EntriesInv'
<1>1. ASSUME NEW h \in Seq(Contexts), OnceDone(h)
      PROVE  /\ \A k \in 1 .. Len(h) : stage'[h[k].search] = "done"
             /\ \A j, k \in 1 .. Len(h) : h[j].search = h[k].search => j = k
  <2>1. \A k \in 1 .. Len(h) : h[k].search \in Searches
    BY SearchOf
  <2> QED
    BY <1>1, <2>1, DoneStays DEF OnceDone
<1>2. ASSUME history' \in {history, stored}, stored' = stored
      PROVE  EntriesInv'
  <2>1. history \in Seq(Contexts) /\ stored \in Seq(Contexts)
        /\ OnceDone(history) /\ OnceDone(stored)
    BY DEF HistoryInv, EntriesInv
  <2>2. OnceDone(stored)'
    BY <1>1, <1>2, <2>1 DEF OnceDone
  <2>3. CASE history' = history
    <3>1. OnceDone(history)'
      BY <1>1, <2>1, <2>3 DEF OnceDone
    <3> QED
      BY <2>2, <3>1 DEF EntriesInv
  <2>4. CASE history' = stored
    <3>1. OnceDone(history)'
      BY <1>1, <2>1, <2>4 DEF OnceDone
    <3> QED
      BY <2>2, <3>1 DEF EntriesInv
  <2> QED
    BY <1>2, <2>3, <2>4
<1>3. CASE Start
  BY <1>2, <1>3 DEF Start
<1>4. ASSUME NEW i \in Searches, NEW r \in Results, Answered(i, r) \/ StorageFull(i, r)
      PROVE  EntriesInv'
  <2> DEFINE c == [search |-> i, results |-> r]
             h == Remember(c)
  <2>1. c \in Contexts /\ c.search = i
    BY DEF Contexts
  <2>2. /\ stage[i] = "fetching" /\ stage' = [stage EXCEPT ![i] = "done"]
        /\ history' = h /\ stored' \in {stored, history'}
    BY <1>4 DEF Answered, StorageFull, Leaves
  <2>3. /\ history \in Seq(Contexts) /\ stored \in Seq(Contexts)
        /\ OnceDone(history) /\ OnceDone(stored) /\ HistoryCap \in Nat
    BY SearchAssumption DEF HistoryInv, EntriesInv
  <2> HIDE DEF c
  <2>4. /\ Len(h) = AtMost(Len(history) + 1)
        /\ \A k \in 1 .. Len(h) : h[k] = IF k = 1 THEN c ELSE history[k - 1]
    BY <2>1, RememberIs
  <2> HIDE DEF h
  <2>5. \A k \in 1 .. Len(h) : k # 1 => k - 1 \in 1 .. Len(history)
    BY <2>3, <2>4 DEF AtMost
  <2>6. \A k \in 1 .. Len(h) : k # 1 =>
          stage[h[k].search] = "done" /\ h[k].search # i /\ h[k].search \in Searches
    <3>1. \A k \in 1 .. Len(history) : history[k].search \in Searches
      BY <2>3, SearchOf
    <3> QED
      BY <2>2, <2>3, <2>4, <2>5, <3>1 DEF OnceDone
  <2>7. \A k \in 1 .. Len(h) : stage'[h[k].search] = "done"
    <3>1. stage'[i] = "done"
      BY <2>2 DEF OverlayInv, StagesType
    <3> QED
      BY <2>1, <2>2, <2>4, <2>6, <3>1
  <2>8. ASSUME NEW j \in 1 .. Len(h), NEW k \in 1 .. Len(h), h[j].search = h[k].search
        PROVE  j = k
    <3>1. CASE j = 1 \/ k = 1
      BY <2>1, <2>4, <2>6, <2>8, <3>1
    <3>2. CASE j # 1 /\ k # 1
      <4>1. h[j] = history[j - 1] /\ h[k] = history[k - 1]
        BY <2>4, <3>2
      <4>2. j - 1 = k - 1
        BY <2>3, <2>5, <2>8, <3>2, <4>1 DEF OnceDone
      <4>3. j \in Int /\ k \in Int
        OBVIOUS
      <4> QED
        BY <4>2, <4>3
    <3> QED
      BY <3>1, <3>2
  <2>9. OnceDone(history)'
    BY <2>2, <2>7, <2>8 DEF OnceDone
  <2>10. CASE stored' = stored
    <3>1. OnceDone(stored)'
      BY <1>1, <2>3, <2>10 DEF OnceDone
    <3> QED
      BY <2>9, <3>1 DEF EntriesInv
  <2>11. CASE stored' = history'
    <3>1. OnceDone(stored)'
      BY <2>9, <2>11 DEF OnceDone
    <3> QED
      BY <2>9, <3>1 DEF EntriesInv
  <2> QED
    BY <2>2, <2>10, <2>11
<1>5. ASSUME NEW i \in Searches, Translated(i) \/ GiveUp(i)
      PROVE  EntriesInv'
  BY <1>2, <1>5 DEF Translated, GiveUp
<1>6. CASE UNCHANGED searchVars
  BY <1>2, <1>6 DEF searchVars
<1>7. CASE ClearHistory
  BY <1>7 DEF ClearHistory, EntriesInv, OnceDone
<1>8. CASE Reload
  BY <1>2, <1>8 DEF Reload
<1> QED
  BY <1>3, <1>4, <1>5, <1>6, <1>7, <1>8 DEF Next, Finish, vars, LoadPrevious, LoadFromDropdown

LEMMA StepRecent ==
  ASSUME HistoryInv, Recent, [Next]_vars
  PROVE  Recent'
<1>1. CASE UNCHANGED <<history, log>>
  BY <1>1 DEF Recent
<1>2. CASE Start \/ UNCHANGED searchVars
  BY <1>1, <1>2 DEF Start, searchVars
<1>3. ASSUME NEW i \in Searches, Finish(i)
      PROVE  Recent'
  <2>1. CASE Translated(i) \/ GiveUp(i)
    BY <1>1, <2>1 DEF Translated, GiveUp
  <2>2. ASSUME NEW r \in Results, Answered(i, r) \/ StorageFull(i, r)
        PROVE  Recent'
    <3> DEFINE c == [search |-> i, results |-> r]
    <3>1. c \in Contexts
      BY DEF Contexts
    <3>2. history' = Remember(c) /\ log' = Append(log, c)
      BY <2>2 DEF Answered, StorageFull
    <3> HIDE DEF c
    <3> QED
      BY <3>1, <3>2, RecentAfterAnswer
  <2> QED
    BY <1>3, <2>1, <2>2 DEF Finish
<1>4. CASE ClearHistory
  BY <1>4, SearchAssumption DEF ClearHistory, Recent, AtMost
<1>5. CASE Reload
  BY <1>5, RecentAfterReload DEF Reload
<1> QED
  BY <1>2, <1>3, <1>4, <1>5 DEF Next, vars, LoadPrevious, LoadFromDropdown
\* The overlay is a flag, and what the dropdown lists is what is stored.
FlagInv == overlay \in BOOLEAN

LEMMA StepFlag == FlagInv /\ [Next]_vars => FlagInv'
<1> SUFFICES ASSUME FlagInv, [Next]_vars PROVE FlagInv'
  OBVIOUS
<1>1. CASE SubmitForm \/ RefuseForm
  BY <1>1 DEF SubmitForm, RefuseForm, Issue, FlagInv
<1>2. CASE Start
  BY <1>1, <1>2 DEF Start, ScrollSearch, SubmitToDres, Issue, FlagInv
<1>3. ASSUME NEW i \in Searches, Finish(i)
      PROVE  FlagInv'
  BY <1>3 DEF Finish, Translated, GiveUp, Answered, StorageFull, FlagInv
<1>4. CASE ClearHistory
  BY <1>1, <1>4 DEF ClearHistory
<1>5. CASE Reload
  BY <1>5 DEF Reload, FlagInv
<1>6. CASE UNCHANGED searchVars
  BY <1>6 DEF searchVars, FlagInv
<1> QED
  BY <1>2, <1>3, <1>4, <1>5, <1>6 DEF Next, vars, LoadPrevious, LoadFromDropdown

\* The end of the log, newest first, is a prefix of its reverse.
LEMMA RecentIsPrefix ==
  ASSUME HistoryInv, Recent
  PROVE  history = SubSeq(Reverse(log), 1, AtMost(Len(log)))
<1> DEFINE n == AtMost(Len(log))
           r == [i \in 1 .. Len(log) |-> log[(Len(log) - i) + 1]]
<1>1. Len(log) \in Nat /\ log \in Seq(Contexts) /\ history \in Seq(Contexts)
      /\ Len(history) = n /\ n \in Nat /\ n <= Len(log)
  BY SearchAssumption DEF Recent, HistoryInv, AtMost
<1>2. \A i \in 1 .. Len(log) : log[(Len(log) - i) + 1] \in Contexts
  BY <1>1
<1>3. r \in Seq(Contexts) /\ Len(r) = Len(log)
  BY <1>1, <1>2
<1>4. \A k \in 1 .. n : k \in 1 .. Len(log) /\ r[k] = log[Len(log) - k + 1]
  BY <1>1
<1> HIDE DEF n
<1>5. \A k \in 1 .. n : history[k] = r[k]
  BY <1>1, <1>4 DEF Recent
<1>6. Reverse(log) = r
  BY DEF Reverse
<1> HIDE DEF r
<1>7. /\ SubSeq(r, 1, n) \in Seq(Contexts) /\ Len(SubSeq(r, 1, n)) = n
      /\ \A k \in 1 .. n : SubSeq(r, 1, n)[k] = r[k]
  BY <1>1, <1>3
<1>8. history = SubSeq(r, 1, n)
  BY <1>1, <1>5, <1>7, SeqEqual
<1> QED BY <1>6, <1>8 DEF n

LEMMA EntriesOver ==
  ASSUME HistoryInv, EntriesInv
  PROVE  /\ \A c \in Range(history) \cup Range(stored) : stage[c.search] = "done"
         /\ IsInjective([k \in DOMAIN history |-> history[k].search])
<1>1. DOMAIN history = 1 .. Len(history) /\ DOMAIN stored = 1 .. Len(stored)
  BY DEF HistoryInv
<1>2. \A c \in Range(history) \cup Range(stored) : stage[c.search] = "done"
  BY <1>1 DEF Range, EntriesInv, OnceDone
<1>3. IsInjective([k \in DOMAIN history |-> history[k].search])
  BY <1>1 DEF IsInjective, EntriesInv, OnceDone
<1> QED BY <1>2, <1>3

HistoryProofInv ==
  HistoryInv /\ OverlayInv /\ Recent /\ EntriesInv /\ FlagInv

\* The history lists the latest answers, newest first, each once, only the
\* oldest cut, in whatever order overlapping searches are answered and with a
\* storage that fills up; every entry is of a request that is over.
THEOREM HistoryIsTrue == Spec => []HistoryIsRecentAnswers
<1>1. Init => HistoryProofInv
  <2> SUFFICES ASSUME Init PROVE HistoryProofInv
    OBVIOUS
  <2>1. history = <<>> /\ stored = <<>> /\ log = <<>> /\ overlay = FALSE
    BY DEF Init
  <2>2. HistoryInv /\ Recent /\ EntriesInv /\ FlagInv
    <3>1. <<>> \in Seq(Contexts) /\ Len(<<>>) = 0 /\ 1 .. 0 = {}
      OBVIOUS
    <3>2. AtMost(0) = 0 /\ 0 <= HistoryCap
      BY SearchAssumption DEF AtMost
    <3>3. HistoryInv
      BY <2>1, <3>1, <3>2 DEF HistoryInv
    <3>4. Recent
      BY <2>1, <3>1, <3>2 DEF Recent
    <3>5. EntriesInv
      BY <2>1, <3>1 DEF EntriesInv, OnceDone
    <3> QED BY <2>1, <3>3, <3>4, <3>5 DEF FlagInv
  <2>3. OverlayInv
    BY SearchAssumption
    DEF Init, OverlayInv, StagesType, IdleAhead, OverlayMeansPending, Searches
  <2> QED BY <2>2, <2>3 DEF HistoryProofInv
<1>2. HistoryProofInv /\ [Next]_vars => HistoryProofInv'
  BY StepHistoryInv, StepOverlayInv, StepRecent, StepEntries, StepFlag DEF HistoryProofInv
<1>3. HistoryProofInv /\ StoredIsListed => HistoryIsRecentAnswers
  <2> SUFFICES ASSUME HistoryProofInv, StoredIsListed PROVE HistoryIsRecentAnswers
    OBVIOUS
  <2>1. SearchTypeOK
    BY DEF HistoryProofInv, HistoryInv, OverlayInv, StagesType, Recent, FlagInv,
           StoredIsListed, SearchTypeOK
  <2> QED
    BY <2>1, RecentIsPrefix, EntriesOver DEF HistoryProofInv, HistoryIsRecentAnswers
<1> QED BY <1>1, <1>2, <1>3, ReloadKeepsTheList, PTL DEF Spec
==============================================================================
