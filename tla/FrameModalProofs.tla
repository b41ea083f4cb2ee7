--------------------------- MODULE FrameModalProofs --------------------------
(***************************************************************************)
(* Proofs about FrameModal, for any records, any numbers of neighbours and *)
(* any number of calls in flight.                                          *)
(***************************************************************************)
EXTENDS FrameModal, TLAPS

\* A list is empty, as it is only while the modal is closed, or its current
\* frame is the one on display.
CurrentInv ==
  /\ list \in Seq([of : Records, at : Int])
  /\ index \in Int
  /\ open => list # <<>>
  /\ list # <<>> => index \in 1 .. Len(list) /\ shown = list[index]

LEMMA AroundType ==
  ASSUME NEW r \in Records, NEW p \in Nat, NEW n \in Nat
  PROVE  /\ Around(r, p, n) \in Seq([of : Records, at : Int])
         /\ Len(Around(r, p, n)) = p + 1 + n
         /\ Around(r, p, n) # <<>>
         /\ Around(r, p, n)[p + 1] = Frame(r, 0)
<1>1. \A i \in 1 .. p + 1 + n : Frame(r, i - 1 - p) \in [of : Records, at : Int]
  BY DEF Frame
<1>2. p + 1 + n \in Nat /\ p + 1 \in 1 .. p + 1 + n
  OBVIOUS
<1>3. Around(r, p, n) \in Seq([of : Records, at : Int]) /\ Len(Around(r, p, n)) = p + 1 + n
  BY <1>1, <1>2 DEF Around
<1>4. Around(r, p, n) # <<>>
  BY <1>3
<1>5. Around(r, p, n)[p + 1] = Frame(r, (p + 1) - 1 - p)
  BY <1>2 DEF Around
<1> QED BY <1>3, <1>4, <1>5

\* Putting a list in place with its record current and on display.
LEMMA PutInv ==
  ASSUME NEW r \in Records, NEW p \in Nat, NEW n \in Nat,
         list' = Around(r, p, n), index' = p + 1, shown' = Frame(r, 0)
  PROVE  CurrentInv'
<1> DEFINE l == Around(r, p, n)
<1>1. /\ l \in Seq([of : Records, at : Int]) /\ Len(l) = p + 1 + n
      /\ l # <<>> /\ l[p + 1] = Frame(r, 0)
  BY AroundType
<1>2. list' = l
  OBVIOUS
<1> HIDE DEF l
<1>3. index' \in 1 .. Len(list') /\ shown' = list'[index']
  BY <1>1, <1>2
<1> QED BY <1>1, <1>2, <1>3 DEF CurrentInv

LEMMA StepRange ==
  ASSUME CurrentInv, list # <<>>, NEW d \in {-1, 1}
  PROVE  Step(d) \in 1 .. Len(list)
BY DEF CurrentInv, Step

LEMMA GoToInv ==
  ASSUME CurrentInv, list # <<>>, NEW i \in 1 .. Len(list), GoTo(i)
  PROVE  CurrentInv'
BY DEF CurrentInv, GoTo

LEMMA StepCurrentInv == CurrentInv /\ [Next]_vars => CurrentInv'
<1> SUFFICES ASSUME CurrentInv, [Next]_vars PROVE CurrentInv'
  OBVIOUS
<1>1. ASSUME NEW r \in Records, Show(r)
      PROVE  CurrentInv'
  <2>1. list' = Around(r, 0, 0) /\ index' = 0 + 1 /\ shown' = Frame(r, 0)
    BY <1>1 DEF Show
  <2> QED BY <2>1, PutInv
<1>2. ASSUME NEW r \in Records, Answered(r)
      PROVE  CurrentInv'
  <2>1. Before[r] \in Nat /\ After[r] \in Nat
    BY ModalAssumption
  <2> QED BY <1>2, <2>1, PutInv DEF Answered, PutNeighbours
<1>3. ASSUME NEW r \in Records, AnsweredWithoutLists(r)
      PROVE  CurrentInv'
  BY <1>3 DEF AnsweredWithoutLists, Settle, CurrentInv
<1>4. ASSUME NEW d \in {-1, 1}, Navigate(d)
      PROVE  CurrentInv'
  BY <1>4, StepRange, GoToInv DEF Navigate
<1>5. ASSUME NEW k \in DOMAIN strip, PickPreview(k)
      PROVE  CurrentInv'
  <2>1. PICK i \in DOMAIN list : GoTo(i)
    BY <1>5 DEF PickPreview
  <2>2. i \in 1 .. Len(list) /\ list # <<>>
    BY <2>1 DEF CurrentInv
  <2> QED BY <2>1, <2>2, GoToInv
<1>6. CASE Close \/ Submit
  <2>1. list' = <<>> /\ index' = 1 /\ open' = FALSE
    BY <1>6 DEF Close, Submit, Reset
  <2>2. <<>> \in Seq([of : Records, at : Int])
    OBVIOUS
  <2>3. list' \in Seq([of : Records, at : Int])
    BY <2>1, <2>2
  <2> QED BY <2>1, <2>3 DEF CurrentInv
<1>7. CASE UNCHANGED vars
  BY <1>7 DEF vars, CurrentInv
<1> QED BY <1>1, <1>2, <1>3, <1>4, <1>5, <1>6, <1>7 DEF Next

LEMMA CurrentInvHolds == Spec => []CurrentInv
<1>1. Init => CurrentInv
  BY DEF Init, CurrentInv
<1> QED BY <1>1, StepCurrentInv, PTL DEF Spec

\* While the modal is open the current frame of its list is the one on display,
\* whichever late answers, arrows and previews came in between.
THEOREM ModalShowsCurrent == Spec => []DisplayedIsCurrent
<1>1. CurrentInv => DisplayedIsCurrent
  BY DEF CurrentInv, DisplayedIsCurrent
<1> QED BY <1>1, CurrentInvHolds, PTL

\* The frame put into the submission form is the one on display.
THEOREM ModalSubmitsDisplayed == Spec => SubmitsDisplayed
<1>1. ASSUME CurrentInv, [Next]_vars
      PROVE  [filled' # filled => filled' = shown]_vars
  <2>1. CASE Submit
    BY <1>1, <2>1 DEF Submit, CurrentInv
  <2>2. CASE ~Submit
    BY <1>1, <2>2 DEF Next, vars, Show, Answered, AnsweredWithoutLists, Settle,
                      Navigate, PickPreview, GoTo, Close
  <2> QED BY <2>1, <2>2
<1> QED BY <1>1, CurrentInvHolds, PTL DEF Spec, SubmitsDisplayed
------------------------------------------------------------------------------
\* The strip only differs from the list while an answer is to come, or hidden.
LEMMA StepStrip == CurrentInv /\ StripShowsList /\ [Next]_vars => StripShowsList'
<1> SUFFICES ASSUME CurrentInv, StripShowsList, [Next]_vars PROVE StripShowsList'
  OBVIOUS
<1> USE DEF StripShowsList
<1>1. ASSUME NEW r \in Records, Show(r)
      PROVE  StripShowsList'
  <2>1. PICK n \in 1 .. CallsPerClick :
          calls + n <= MaxCalls /\ calls' = calls + n /\ pending' = [pending EXCEPT ![r] = @ + n]
    BY <1>1 DEF Show
  <2>2. pending[r] \in Nat /\ n \in Nat /\ n > 0 /\ calls \in 0 .. MaxCalls
    BY <2>1, ModalAssumption DEF ModalTypeOK
  <2>3. pending' \in [Records -> Nat] /\ pending'[r] # 0
    BY <2>1, <2>2 DEF ModalTypeOK
  <2>4. calls' \in 0 .. MaxCalls
    BY <2>1, <2>2, ModalAssumption
  <2>5. Frame(r, 0) \in Frames
    BY DEF Frame, Frames
  <2>6. ModalTypeOK'
    BY <1>1, <2>3, <2>4, <2>5 DEF Show, ModalTypeOK, stripVars
  <2> QED
    BY <2>3, <2>6
<1>2. ASSUME NEW r \in Records, Settle(r)
      PROVE  /\ pending' \in [Records -> Nat] /\ keys' \in BOOLEAN
             /\ UNCHANGED <<open, opened, calls, filled>>
  BY <1>2 DEF Settle, ModalTypeOK
<1>3. ASSUME NEW r \in Records, NEW p \in Nat, NEW n \in Nat, Settle(r), PutNeighbours(r, p, n)
      PROVE  StripShowsList'
  <2>1. Frame(r, 0) \in Frames /\ p + 1 \in Nat \ {0}
    BY DEF Frame, Frames
  <2>2. strip' = list' /\ lit' = index' /\ index' = p + 1 /\ shown' = Frame(r, 0) /\ stripOn' = TRUE
    BY <1>3 DEF PutNeighbours
  <2> QED
    BY <1>2, <1>3, <2>1, <2>2 DEF ModalTypeOK
<1>4. ASSUME NEW r \in Records, Answered(r)
      PROVE  StripShowsList'
  <2>1. Before[r] \in Nat /\ After[r] \in Nat
    BY ModalAssumption
  <2> QED
    BY <1>3, <1>4, <2>1 DEF Answered
<1>5. ASSUME NEW r \in Records, AnsweredWithoutLists(r)
      PROVE  StripShowsList'
  BY <1>2, <1>5 DEF AnsweredWithoutLists, ModalTypeOK
<1>6. ASSUME NEW i \in 1 .. Len(list), GoTo(i)
      PROVE  StripShowsList'
  <2>1. list[i] \in Frames /\ i \in Nat \ {0}
    <3>1. list \in Seq(Frames) /\ Len(list) \in Nat
      BY DEF CurrentInv, Frames
    <3> HIDE DEF StripShowsList
    <3>2. i \in Nat \ {0} /\ list[i] \in Frames
      BY <3>1
    <3> QED
      BY <3>2
  <2> QED
    BY <1>6, <2>1 DEF GoTo, ModalTypeOK, fetchVars
<1>7. ASSUME NEW d \in {-1, 1}, Navigate(d)
      PROVE  StripShowsList'
  BY <1>6, <1>7, StepRange DEF Navigate
<1>8. ASSUME NEW k \in DOMAIN strip, PickPreview(k)
      PROVE  StripShowsList'
  <2>1. PICK i \in DOMAIN list : GoTo(i)
    BY <1>8 DEF PickPreview
  <2>2. i \in 1 .. Len(list)
    BY <2>1 DEF CurrentInv
  <2> QED
    BY <1>6, <2>1, <2>2
<1>9. CASE Close
  <2>1. open' = FALSE /\ keys' = FALSE /\ index' = 1
        /\ UNCHANGED <<opened, shown, strip, lit, stripOn, pending, calls, filled>>
    BY <1>9 DEF Close, Reset, stripVars, fetchVars
  <2>2. 1 \in Nat \ {0}
    OBVIOUS
  <2>3. ModalTypeOK'
    BY <2>1, <2>2, Zenon DEF ModalTypeOK
  <2> QED
    BY <2>1, <2>3
<1>10. CASE Submit
  <2>1. list \in Seq(Frames) /\ index \in DOMAIN list
    BY <1>10 DEF Submit, CurrentInv, Frames
  <2>2. list[index] \in Frames
    BY <2>1
  <2>3. open' = FALSE /\ keys' = FALSE /\ index' = 1 /\ filled' = list[index]
        /\ UNCHANGED <<opened, shown, strip, lit, stripOn, pending, calls>>
    BY <1>10 DEF Submit, Reset, stripVars, fetchVars
  <2>4. 1 \in Nat \ {0}
    OBVIOUS
  <2>5. ModalTypeOK'
    BY <2>2, <2>3, <2>4, Zenon DEF ModalTypeOK
  <2> QED
    BY <2>3, <2>5
<1>11. CASE UNCHANGED vars
  BY <1>11 DEF vars, stripVars, fetchVars, ModalTypeOK
<1> QED
  BY <1>1, <1>4, <1>5, <1>7, <1>8, <1>9, <1>10, <1>11 DEF Next

\* For any records and any number of answers in flight: once they have come, the
\* strip of renderNeighborPreviews shows the frames the arrows go through, with the
\* current one highlighted, or is hidden.
THEOREM ModalStripSettles == Spec => []StripShowsList
<1>1. Init => StripShowsList
  <2> SUFFICES ASSUME Init PROVE StripShowsList
    OBVIOUS
  <2>1. 0 \in 0 .. MaxCalls /\ 1 \in Nat \ {0}
    BY ModalAssumption
  <2>2. pending \in [Records -> Nat]
    BY DEF Init
  <2> QED
    BY <2>1, <2>2 DEF Init, StripShowsList, ModalTypeOK
<1> QED BY <1>1, StepStrip, CurrentInvHolds, PTL DEF Spec
==============================================================================
