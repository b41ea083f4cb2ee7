---------------------------- MODULE MCSearchPage -----------------------------
(***************************************************************************)
(* Small instance of SearchPage: thumbnails of up to three pages, a table  *)
(* of up to two, an empty answer; more searches than the history holds.    *)
(***************************************************************************)
EXTENDS SearchPage

CONSTANTS g3, t2, e0

MCResults ==
  {[id |-> g3, kind |-> "normal",   size |-> 3],
   [id |-> t2, kind |-> "temporal", size |-> 2],
   [id |-> e0, kind |-> "empty",    size |-> 0]}
==============================================================================
