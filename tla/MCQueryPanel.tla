---------------------------- MODULE MCQueryPanel -----------------------------
(***************************************************************************)
(* Two batches: two videos of one folder and one of another; one frame to  *)
(* exclude beside another, one text to write, of several sentences once    *)
(* translated, and one to speak.                                           *)
(***************************************************************************)
EXTENDS QueryPanel

CONSTANTS
  v1, v2, l1, l2, minutes, shotTimes,
  silence, spoken, words, wordsTranslated, spokenTranslated

MCBatches == {0, 1}
MCVideos == (0 :> <<v1>>) @@ (1 :> <<v2>>)
MCFolder == (v1 :> l1) @@ (v2 :> l2)
MCFolderOrder == <<l1, l2>>
MCTypings == {minutes, shotTimes}
MCWritten == {words}
MCTexts == {words, wordsTranslated, spoken, spokenTranslated, silence}
MCStories == {wordsTranslated}
MCTranslation == [t \in {words, wordsTranslated} |-> wordsTranslated]
                 @@ [t \in {spoken, spokenTranslated} |-> spokenTranslated]
==============================================================================
