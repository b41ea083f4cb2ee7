------------------------------ MODULE AnswerBox ------------------------------
(***************************************************************************)
(* What submitting an answer promises, whatever happens between the        *)
(* submit button and the evaluation server: each press of the button is    *)
(* recorded at most once, and the page says "success" only of an answer    *)
(* that is recorded.  It may say "failure" of an answer that is recorded,  *)
(* or will be.                                                             *)
(***************************************************************************)
EXTENDS Integers

CONSTANT Clicks     \* presses of the submit button

VARIABLES
  pressed,   \* clicks made
  recorded,  \* recorded[c]: how often the server has recorded c's answer
  told       \* told[c]: what the page has said of c

boxVars == <<pressed, recorded, told>>

BoxInit ==
  /\ pressed = {}
  /\ recorded = [c \in Clicks |-> 0]
  /\ told = [c \in Clicks |-> "nothing"]

BoxPress(c) ==
  /\ c \notin pressed
  /\ pressed' = pressed \cup {c}
  /\ UNCHANGED <<recorded, told>>

BoxRecord(c) ==
  /\ c \in pressed /\ recorded[c] = 0
  /\ recorded' = [recorded EXCEPT ![c] = 1]
  /\ UNCHANGED <<pressed, told>>

BoxTell(c) ==
  /\ c \in pressed /\ told[c] = "nothing"
  /\ \/ recorded[c] = 1 /\ told' = [told EXCEPT ![c] = "success"]
     \/ told' = [told EXCEPT ![c] = "failure"]
  /\ UNCHANGED <<pressed, recorded>>

BoxNext == \E c \in Clicks : BoxPress(c) \/ BoxRecord(c) \/ BoxTell(c)

BoxSpec == BoxInit /\ [][BoxNext]_boxVars
==============================================================================
