-------------------------------- MODULE Pager --------------------------------
(***************************************************************************)
(* The arithmetic of one paginator.  static/js/pagination.js (the grid of  *)
(* thumbnails) and static/js/paginationTemporal.js (the table of temporal  *)
(* rows) each keep a current page, a page size and a list, and move among  *)
(* them by the same rules; a pager record stands for the module-local      *)
(* variables of one of the two files.                                      *)
(*                                                                         *)
(* A list is abstracted to its identity and its length: the n-th item of   *)
(* the list called id is the pair <<id, n>>.                               *)
(***************************************************************************)
EXTENDS Integers

\* Math.ceil(total / perPage): the bound goToNextPage compares with.
PageCount(total, perPage) == (total + perPage - 1) \div perPage

\* Math.ceil(total / perPage) || 1: an empty list still has a page to show.
TotalPages(total, perPage) ==
  IF PageCount(total, perPage) = 0 THEN 1 ELSE PageCount(total, perPage)

\* The positions (from 1) that the slice of a page holds.
Window(pg) ==
  {i \in 1 .. pg.size : (pg.page - 1) * pg.perPage < i /\ i <= pg.page * pg.perPage}

\* A list with `size` items is opened at its first page.
Opened(pg, id, size) ==
  [id |-> id, size |-> size, page |-> 1, perPage |-> pg.perPage]

\* Variant with a plausible slip; nothing but a mutation run uses it.
ResizedUnclamped(pg, perPage) ==
  [id |-> pg.id, size |-> pg.size, perPage |-> perPage, page |-> pg.page]

\* One page back, when there is one.
CanGoBack(pg) == pg.page > 1

\* One page forward, when there is one.
CanGoForward(pg) == pg.page < PageCount(pg.size, pg.perPage)

CanFlip(pg, dir) == IF dir = "prev" THEN CanGoBack(pg) ELSE CanGoForward(pg)

Flipped(pg, dir) ==
  IF CanFlip(pg, dir)
    THEN [pg EXCEPT !.page = IF dir = "prev" THEN @ - 1 ELSE @ + 1]
    ELSE pg

\* The page size changes; a page beyond the new last one becomes the last one.
Resized(pg, perPage) ==
  LET last == TotalPages(pg.size, perPage)
  IN  [id |-> pg.id, size |-> pg.size, perPage |-> perPage,
       page |-> IF pg.page > last THEN last ELSE pg.page]

\* Page-info text and the disabled state of the two buttons, as a page writes them.
ControlsOf(pg) ==
  LET last == TotalPages(pg.size, pg.perPage)
  IN  [page |-> pg.page, pages |-> last,
       prevOff |-> pg.page = 1, nextOff |-> pg.page = last]
==============================================================================
