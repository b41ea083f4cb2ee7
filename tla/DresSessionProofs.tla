-------------------------- MODULE DresSessionProofs --------------------------
(***************************************************************************)
(* Proofs about DresSession, for any number of workers, clicks, fetches    *)
(* and logins.                                                             *)
(***************************************************************************)
EXTENDS DresSession, TLAPS

Steps == {"idle", "login", "list", "post", "accepted", "refused"}

ServerTypes ==
  /\ logins \in 0 .. MaxSession /\ valid \subseteq 1 .. logins
  /\ active \in Evaluations \cup {Nobody}
  /\ cached \in [Workers -> 0 .. logins]

WorkTypes ==
  /\ recorded \in [Clicks -> Nat]
  /\ doing \in [Workers -> [call : Calls \cup {Nobody}, step : Steps]]
  /\ sent \in [Calls -> {"no", "waiting", "served", "over"}]
  /\ worker \in [Calls -> Workers \cup {Nobody}]
  /\ told \in [Clicks -> {"nothing", "success", "failure"}]

\* The types of the id fields, the fetches and the forms once n sessions are out.
FullPages(n) == [session : 1 .. n, evaluation : Evaluations,
                 sessionFrom : Fetches, evaluationFrom : Fetches]
FetchTypes(n) ==
  fetch \in [Fetches -> [stage : {"idle", "session", "evaluation", "over"}, session : 0 .. n]]
FormTypes(n) ==
  form \in [Clicks -> [session : 0 .. n, evaluation : Evaluations \cup {Nobody}]]

PageTypes == page \in {Blank} \cup FullPages(logins) /\ FetchTypes(logins) /\ FormTypes(logins)

\* What w serves is a submission, a login nobody waits for, or a call of a fetch
\* whose connection it has.
Posting(w) ==
  /\ doing[w].step \in {"post", "accepted", "refused"}
  /\ doing[w].call \in Clicks /\ sent[doing[w].call] = "served"
LoggingIn(w) == doing[w].step = "login" /\ doing[w].call = Nobody
Fetching(w) ==
  /\ doing[w].step \in {"login", "list"}
  /\ doing[w].call \in Fetches /\ sent[doing[w].call] = "served"
  /\ worker[doing[w].call] = w

Serving ==
  /\ \A w \in Workers : doing[w] = Idle \/ Posting(w) \/ LoggingIn(w) \/ Fetching(w)
  /\ \A v, w \in Workers : doing[v].call = doing[w].call /\ doing[w].call # Nobody => v = w

\* A fetch that asks for the evaluation got its session from the worker it asks
\* now, whose own session is that one, a later one, or none.
FetchInv ==
  \A f \in Fetches : fetch[f].stage = "evaluation" =>
    /\ fetch[f].session # NoSession /\ worker[f] \in Workers
    /\ cached[worker[f]] = NoSession \/ fetch[f].session <= cached[worker[f]]

Pair == page.sessionFrom = page.evaluationFrom

Inv == ServerTypes /\ WorkTypes /\ PageTypes /\ Serving /\ FetchInv /\ Pair

LEMMA Distinct ==
  /\ NoSession = 0 /\ MaxSession \in Nat /\ InitFetch \in Fetches
  /\ Nobody \notin Workers /\ Nobody \notin Evaluations /\ Nobody \notin Fetches
  /\ Nobody \notin Clicks
  /\ \A c \in Clicks, f \in Fetches : c # f
BY DresAssumption DEF NoSession

LEMMA CallSets == Clicks \subseteq Calls /\ Fetches \subseteq Calls
BY DEF Calls

\* Sessions only grow in number.
LEMMA LoginTypes ==
  ASSUME ServerTypes, NEW w \in Workers, LoginResult(w), active' = active
  PROVE  ServerTypes' /\ logins' \in Nat /\ logins <= logins' /\ logins \in Nat
<1>0. logins \in Nat /\ MaxSession \in Nat /\ NoSession = 0
  BY Distinct DEF ServerTypes
<1>1. CASE /\ logins < MaxSession /\ logins' = logins + 1
           /\ valid' = valid \cup {logins + 1}
           /\ \E s \in {NoSession, logins + 1} : cached' = [cached EXCEPT ![w] = s]
  <2>1. logins' \in 0 .. MaxSession /\ logins' \in Nat /\ logins <= logins'
    BY <1>0, <1>1
  <2>2. valid' \subseteq 1 .. logins'
    BY <1>0, <1>1 DEF ServerTypes
  <2>3. PICK s \in {NoSession, logins + 1} : cached' = [cached EXCEPT ![w] = s]
    BY <1>1
  <2>4. s \in 0 .. logins' /\ 0 .. logins \subseteq 0 .. logins'
    BY <1>0, <1>1
  <2>5. cached' \in [Workers -> 0 .. logins']
    BY <2>3, <2>4 DEF ServerTypes
  <2> QED BY <1>0, <2>1, <2>2, <2>5 DEF ServerTypes
<1>2. CASE cached' = [cached EXCEPT ![w] = NoSession] /\ UNCHANGED <<logins, valid>>
  BY <1>0, <1>2 DEF ServerTypes
<1> QED BY <1>1, <1>2 DEF LoginResult

\* More logins leave what is typed as it was.
LEMMA LaterTypes ==
  ASSUME PageTypes, logins \in Nat, logins' \in Nat, logins <= logins'
  PROVE  /\ page \in {Blank} \cup FullPages(logins')
         /\ FetchTypes(logins') /\ FormTypes(logins')
<1>1. 1 .. logins \subseteq 1 .. logins' /\ 0 .. logins \subseteq 0 .. logins'
  OBVIOUS
<1>2. page \in {Blank} \cup FullPages(logins')
  BY <1>1 DEF PageTypes, FullPages
<1>3. FetchTypes(logins')
  BY <1>1 DEF PageTypes, FetchTypes
<1>4. FormTypes(logins')
  BY <1>1 DEF PageTypes, FormTypes
<1> QED BY <1>2, <1>3, <1>4

\* Filling the fields leaves them blank or both full, from one fetch.
LEMMA FillTypes ==
  ASSUME NEW n \in Nat, page \in {Blank} \cup FullPages(n), Pair,
         NEW f \in Fetches, fetch[f].session \in 1 .. n, NEW e \in Evaluations
  PROVE  /\ Fill(f, e) \in FullPages(n)
         /\ Fill(f, e).sessionFrom = Fill(f, e).evaluationFrom
         /\ Fill(f, e).sessionFrom # page.sessionFrom =>
              Fill(f, e).session = fetch[f].session /\ Fill(f, e).sessionFrom = f
<1> DEFINE fresh == [session |-> fetch[f].session, evaluation |-> e,
                     sessionFrom |-> f, evaluationFrom |-> f]
<1>1. fresh \in FullPages(n) /\ fresh.sessionFrom = fresh.evaluationFrom
      /\ fresh.session = fetch[f].session /\ fresh.sessionFrom = f
  BY DEF FullPages
<1>2. CASE f # InitFetch \/ page = Blank
  <2>1. Fill(f, e) = fresh
    BY <1>2 DEF Fill, Blank
  <2> QED BY <1>1, <2>1
<1>3. CASE f = InitFetch /\ page \in FullPages(n)
  <2>1. page.session # NoSession /\ page.evaluation # Nobody
    BY <1>3, Distinct DEF FullPages
  <2>2. page = [session |-> page.session, sessionFrom |-> page.sessionFrom,
                evaluation |-> page.evaluation, evaluationFrom |-> page.evaluationFrom]
    BY <1>3 DEF FullPages
  <2>3. Fill(f, e) = page
    BY <1>3, <2>1, <2>2 DEF Fill
  <2> QED BY <1>3, <2>3 DEF Pair
<1> QED BY <1>2, <1>3
------------------------------------------------------------------------------
(***************************************************************************)
(* What the answers do to the fetches and the id fields.                   *)
(***************************************************************************)
LEMMA SessionAnswered ==
  ASSUME Inv, NEW w \in Workers, NEW f \in Fetches, worker[f] = w,
         AnswerSession(f, cached'[w]), ServerTypes',
         logins \in Nat, logins' \in Nat, logins <= logins',
         \A v \in Workers \ {w} : cached'[v] = cached[v],
         cached'[w] = cached[w] \/ cached'[w] = NoSession \/ cached'[w] > logins,
         form' = form
  PROVE  PageTypes' /\ FetchInv' /\ Pair' /\ page' = page
<1> DEFINE goesOn == cached'[w] # NoSession /\ fetch[f].stage = "session"
           r == IF goesOn THEN [stage |-> "evaluation", session |-> cached'[w]]
                ELSE [stage |-> "over", session |-> NoSession]
<1>1. /\ fetch' = [fetch EXCEPT ![f] = r]
      /\ worker' = [worker EXCEPT ![f] = IF goesOn THEN worker[f] ELSE Nobody]
      /\ page' = page
  BY DEF AnswerSession
<1>2. cached'[w] \in 0 .. logins'
  BY DEF ServerTypes
<1>3. r \in [stage : {"idle", "session", "evaluation", "over"}, session : 0 .. logins']
  BY <1>2, Distinct
<1>4. /\ page \in {Blank} \cup FullPages(logins')
      /\ FetchTypes(logins') /\ FormTypes(logins')
  BY LaterTypes DEF Inv
<1>5. PageTypes'
  <2>1. fetch' \in [Fetches -> [stage : {"idle", "session", "evaluation", "over"},
                                session : 0 .. logins']]
    <3> HIDE DEF r
    <3> QED BY <1>1, <1>3, <1>4 DEF FetchTypes
  <2> QED BY <1>1, <1>4, <2>1 DEF PageTypes, FetchTypes, FormTypes, FullPages
<1>6. ASSUME NEW g \in Fetches, fetch'[g].stage = "evaluation"
      PROVE  /\ fetch'[g].session # NoSession /\ worker'[g] \in Workers
             /\ cached'[worker'[g]] = NoSession \/ fetch'[g].session <= cached'[worker'[g]]
  <2>1. CASE g = f
    <3>1. fetch'[f] = r /\ fetch'[f].stage = "evaluation"
      BY <1>1, <1>6, <2>1 DEF Inv, PageTypes, FetchTypes
    <3>2. goesOn
      BY <3>1
    <3>3. fetch'[f].session = cached'[w] /\ worker'[f] = w
      BY <1>1, <3>1, <3>2, CallSets DEF Inv, WorkTypes
    <3>4. cached'[w] <= cached'[w]
      BY <1>2
    <3> QED BY <2>1, <3>2, <3>3, <3>4
  <2>2. CASE g # f
    <3>1. fetch'[g] = fetch[g] /\ worker'[g] = worker[g]
      BY <1>1, <2>2, CallSets DEF Inv, PageTypes, FetchTypes, WorkTypes
    <3>2. /\ fetch[g].session # NoSession /\ worker[g] \in Workers
          /\ cached[worker[g]] = NoSession \/ fetch[g].session <= cached[worker[g]]
      BY <1>6, <3>1 DEF Inv, FetchInv
    <3>3. fetch[g].session \in 0 .. logins
      BY DEF Inv, PageTypes, FetchTypes
    <3>4. cached'[worker[g]] \in 0 .. logins'
      BY <3>2 DEF ServerTypes
    <3>5. cached'[worker[g]] = NoSession \/ fetch[g].session <= cached'[worker[g]]
      BY <3>2, <3>3, <3>4
    <3> QED BY <3>1, <3>2, <3>5
  <2> QED BY <2>1, <2>2
<1>7. FetchInv'
  BY <1>6 DEF FetchInv
<1> QED BY <1>1, <1>5, <1>7 DEF Inv, Pair

\* An evaluation answer fills both fields from its own fetch, if at all.
LEMMA EvaluationAnswered ==
  ASSUME Inv, NEW w \in Workers, NEW f \in Fetches, worker[f] = w,
         NEW e \in Evaluations \cup {Nobody}, AnswerEvaluation(f, e),
         ServerTypes', logins \in Nat, logins' \in Nat, logins <= logins',
         \A v \in Workers \ {w} : cached'[v] = cached[v],
         cached'[w] = cached[w] \/ cached'[w] = NoSession \/ cached'[w] > logins,
         form' = form
  PROVE  /\ PageTypes' /\ FetchInv' /\ Pair'
         /\ \A g \in Fetches : page.sessionFrom # g /\ page'.sessionFrom = g =>
              /\ g = f /\ e # Nobody /\ page'.session = fetch[f].session
              /\ fetch[f].session # NoSession /\ fetch[f].session \in 0 .. logins
              /\ cached[w] = NoSession \/ fetch[f].session <= cached[w]
<1> DEFINE r == [stage |-> "over", session |-> NoSession]
<1>1. /\ fetch' = [fetch EXCEPT ![f] = r]
      /\ worker' = [worker EXCEPT ![f] = Nobody]
      /\ page' = IF e # Nobody /\ fetch[f].stage = "evaluation" THEN Fill(f, e) ELSE page
  BY DEF AnswerEvaluation, Closes
<1>2. /\ page \in {Blank} \cup FullPages(logins')
      /\ FetchTypes(logins') /\ FormTypes(logins')
  BY LaterTypes DEF Inv
<1>3. fetch[f].stage = "evaluation" =>
        /\ fetch[f].session # NoSession /\ fetch[f].session \in 0 .. logins
        /\ cached[w] = NoSession \/ fetch[f].session <= cached[w]
  BY DEF Inv, FetchInv, PageTypes, FetchTypes
<1>4. fetch[f].stage = "evaluation" => fetch[f].session \in 1 .. logins'
  BY <1>3, Distinct
<1>5. page' \in {Blank} \cup FullPages(logins') /\ Pair'
  <2>1. CASE e # Nobody /\ fetch[f].stage = "evaluation"
    BY <1>1, <1>2, <1>4, <2>1, FillTypes DEF Inv, Pair
  <2>2. CASE page' = page
    BY <1>2, <2>2 DEF Inv, Pair
  <2> QED BY <1>1, <2>1, <2>2
<1>6. \A g \in Fetches : page.sessionFrom # g /\ page'.sessionFrom = g =>
        /\ g = f /\ e # Nobody /\ page'.session = fetch[f].session
        /\ fetch[f].session # NoSession /\ fetch[f].session \in 0 .. logins
        /\ cached[w] = NoSession \/ fetch[f].session <= cached[w]
  <2>1. CASE e # Nobody /\ fetch[f].stage = "evaluation"
    <3>1. page'.sessionFrom # page.sessionFrom =>
            page'.session = fetch[f].session /\ page'.sessionFrom = f
      BY <1>1, <1>2, <1>4, <2>1, FillTypes DEF Inv
    <3> QED BY <1>3, <2>1, <3>1
  <2>2. CASE page' = page
    BY <2>2
  <2> QED BY <1>1, <2>1, <2>2
<1>7. PageTypes'
  <2>1. r \in [stage : {"idle", "session", "evaluation", "over"}, session : 0 .. logins']
    BY Distinct
  <2>2. fetch' \in [Fetches -> [stage : {"idle", "session", "evaluation", "over"},
                                session : 0 .. logins']]
    <3> HIDE DEF r
    <3> QED BY <1>1, <1>2, <2>1 DEF FetchTypes
  <2> QED BY <1>2, <1>5, <2>2 DEF PageTypes, FetchTypes, FormTypes, FullPages, Blank
<1>8. FetchInv'
  <2> SUFFICES ASSUME NEW g \in Fetches, fetch'[g].stage = "evaluation"
               PROVE  /\ fetch'[g].session # NoSession /\ worker'[g] \in Workers
                      /\ \/ cached'[worker'[g]] = NoSession
                         \/ fetch'[g].session <= cached'[worker'[g]]
    BY DEF FetchInv
  <2>1. g # f
    BY <1>1 DEF Inv, PageTypes, FetchTypes
  <2>2. fetch'[g] = fetch[g] /\ worker'[g] = worker[g]
    BY <1>1, <2>1, CallSets DEF Inv, PageTypes, FetchTypes, WorkTypes
  <2>3. /\ fetch[g].session # NoSession /\ worker[g] \in Workers
        /\ cached[worker[g]] = NoSession \/ fetch[g].session <= cached[worker[g]]
    BY <2>2 DEF Inv, FetchInv
  <2>4. fetch[g].session \in 0 .. logins
    BY DEF Inv, PageTypes, FetchTypes
  <2>5. cached'[worker[g]] \in 0 .. logins'
    BY <2>3 DEF ServerTypes
  <2>6. cached'[worker[g]] = NoSession \/ fetch[g].session <= cached'[worker[g]]
    BY <2>3, <2>4, <2>5
  <2> QED BY <2>2, <2>3, <2>6
<1> QED BY <1>5, <1>6, <1>7, <1>8------------------------------------------------------------------------------
(***************************************************************************)
(* Who serves what.                                                        *)
(***************************************************************************)

\* A worker that takes a call up, or goes from a login to the list, or whose
\* request the server has judged.
LEMMA EntersServing ==
  ASSUME Inv, NEW w \in Workers, NEW x \in Calls, NEW step \in Steps,
         Takes(w, x), Enters(w, x, step),
         \/ x \in Clicks /\ step = "post"
         \/ x \in Fetches /\ step \in {"login", "list"}
  PROVE  Inv'
<1>1. /\ doing[w] = Idle /\ sent[x] = "waiting" /\ worker[x] = w
      /\ doing' = [doing EXCEPT ![w] = [call |-> x, step |-> step]]
      /\ sent' = [sent EXCEPT ![x] = "served"]
      /\ UNCHANGED <<logins, valid, active, recorded, cached, worker, page, fetch, form, told>>
  BY DEF Takes, Enters, dresVars, pageVars
<1>2. WorkTypes'
  BY <1>1 DEF Inv, WorkTypes
<1>3. doing'[w] = [call |-> x, step |-> step] /\ sent'[x] = "served"
      /\ \A v \in Workers \ {w} : doing'[v] = doing[v]
      /\ \A y \in Calls : sent[y] = "served" => sent'[y] = "served"
  BY <1>1 DEF Inv, WorkTypes
<1>4. \A v \in Workers : doing[v].call # x
  BY <1>1, Distinct DEF Inv, Serving, Posting, LoggingIn, Fetching, Idle, Calls
<1>5. \A v \in Workers : (doing[v] = Idle \/ Posting(v) \/ LoggingIn(v) \/ Fetching(v))'
  <2> SUFFICES ASSUME NEW v \in Workers
               PROVE  (doing[v] = Idle \/ Posting(v) \/ LoggingIn(v) \/ Fetching(v))'
    OBVIOUS
  <2>1. CASE v = w
    BY <1>1, <1>3, <2>1 DEF Posting, Fetching
  <2>2. CASE v # w
    <3>1. doing'[v] = doing[v] /\ worker' = worker
      BY <1>1, <1>3, <2>2
    <3>2. doing[v] = Idle \/ Posting(v) \/ LoggingIn(v) \/ Fetching(v)
      BY DEF Inv, Serving
    <3> QED BY <1>3, <3>1, <3>2, CallSets DEF Posting, LoggingIn, Fetching
  <2> QED BY <2>1, <2>2
<1>6. \A u, v \in Workers :
        doing'[u].call = doing'[v].call /\ doing'[v].call # Nobody => u = v
  BY <1>3, <1>4 DEF Inv, Serving
<1>7. Serving'
  BY <1>5, <1>6 DEF Serving
<1> QED
  BY <1>1, <1>2, <1>7 DEF Inv, ServerTypes, PageTypes, FullPages, FetchTypes, FormTypes, FetchInv, Pair

\* The worker is idle again and its call, if it had one, is no longer served.
LEMMA DoneServing ==
  ASSUME Inv, NEW w \in Workers, WorkTypes',
         doing' = [doing EXCEPT ![w] = Idle],
         \A y \in Calls : y # doing[w].call =>
           sent'[y] = sent[y] /\ worker'[y] = worker[y]
  PROVE  Serving'
<1>1. doing'[w] = Idle /\ \A v \in Workers \ {w} : doing'[v] = doing[v]
  BY DEF Inv, WorkTypes
<1>2. ASSUME NEW v \in Workers, v # w
      PROVE  (doing[v] = Idle \/ Posting(v) \/ LoggingIn(v) \/ Fetching(v))'
  <2>1. doing[v] = Idle \/ Posting(v) \/ LoggingIn(v) \/ Fetching(v)
    BY DEF Inv, Serving
  <2>2. doing'[v] = doing[v]
    BY <1>1, <1>2
  <2>3. doing[v].call # Nobody => doing[v].call # doing[w].call
    BY <1>2 DEF Inv, Serving
  <2>4. Posting(v) => Posting(v)'
    BY <2>2, <2>3, Distinct, CallSets DEF Posting
  <2>5. Fetching(v) => Fetching(v)'
    BY <2>2, <2>3, Distinct, CallSets DEF Fetching
  <2> QED BY <2>1, <2>2, <2>4, <2>5 DEF LoggingIn
<1>3. \A u, v \in Workers :
        doing'[u].call = doing'[v].call /\ doing'[v].call # Nobody => u = v
  BY <1>1 DEF Inv, Serving, Idle
<1> QED BY <1>1, <1>2, <1>3 DEF Serving

\* An answer to a call nobody serves leaves who serves what as it was.
LEMMA OthersServing ==
  ASSUME Inv, doing' = doing,
         \A y \in Calls : sent[y] = "served" => sent'[y] = sent[y] /\ worker'[y] = worker[y]
  PROVE  Serving'
<1>1. ASSUME NEW v \in Workers
      PROVE  (doing[v] = Idle \/ Posting(v) \/ LoggingIn(v) \/ Fetching(v))'
  <2>1. doing[v] = Idle \/ Posting(v) \/ LoggingIn(v) \/ Fetching(v)
    BY DEF Inv, Serving
  <2> QED BY <2>1, CallSets DEF Posting, LoggingIn, Fetching
<1> QED BY <1>1 DEF Inv, Serving

\* A worker goes on to another step of the same call.
LEMMA GoesOnServing ==
  ASSUME Inv, NEW w \in Workers, NEW step \in Steps,
         doing' = [doing EXCEPT ![w].step = step], UNCHANGED <<sent, worker>>,
         \/ Posting(w) /\ step \in {"accepted", "refused"}
         \/ Fetching(w) /\ step = "list"
  PROVE  Serving' /\ doing' \in [Workers -> [call : Calls \cup {Nobody}, step : Steps]]
<1>1. [doing[w] EXCEPT !.step = step] = [call |-> doing[w].call, step |-> step]
  BY DEF Inv, WorkTypes
<1>2. doing' = [doing EXCEPT ![w] = [call |-> doing[w].call, step |-> step]]
  BY <1>1
<1>3. doing' \in [Workers -> [call : Calls \cup {Nobody}, step : Steps]]
  BY <1>2 DEF Inv, WorkTypes
<1>4. /\ doing'[w] = [call |-> doing[w].call, step |-> step]
      /\ \A v \in Workers \ {w} : doing'[v] = doing[v]
  BY <1>2 DEF Inv, WorkTypes
<1>5. \A v \in Workers : (doing[v] = Idle \/ Posting(v) \/ LoggingIn(v) \/ Fetching(v))'
  <2> SUFFICES ASSUME NEW v \in Workers
               PROVE  (doing[v] = Idle \/ Posting(v) \/ LoggingIn(v) \/ Fetching(v))'
    OBVIOUS
  <2>1. CASE v = w
    BY <1>4, <2>1 DEF Posting, Fetching
  <2>2. CASE v # w
    BY <1>4, <2>2 DEF Inv, Serving, Posting, LoggingIn, Fetching
  <2> QED BY <2>1, <2>2
<1>6. \A u, v \in Workers :
        doing'[u].call = doing'[v].call /\ doing'[v].call # Nobody => u = v
  BY <1>4 DEF Inv, Serving
<1> QED BY <1>3, <1>5, <1>6 DEF Serving------------------------------------------------------------------------------
(***************************************************************************)
(* Every step keeps Inv, and fills the form with a session that was        *)
(* checked.                                                                *)
(***************************************************************************)
Checked ==
  \A f \in Fetches :
    page.sessionFrom # f /\ page'.sessionFrom = f =>
      page'.session \in valid \/ page'.session < cached[worker[f]]

\* What Login leaves: another worker's session, and none or a later one of w's.
LEMMA LoginSessions ==
  ASSUME ServerTypes, NEW w \in Workers, LoginResult(w)
  PROVE  /\ \A v \in Workers \ {w} : cached'[v] = cached[v]
         /\ cached'[w] = NoSession \/ cached'[w] > logins
<1>1. PICK t \in Nat : cached' = [cached EXCEPT ![w] = t] /\ (t = NoSession \/ t > logins)
  <2>1. logins \in Nat /\ NoSession \in Nat /\ logins + 1 \in Nat /\ logins + 1 > logins
    BY Distinct DEF ServerTypes
  <2> QED BY <2>1 DEF LoginResult
<1> QED BY <1>1 DEF ServerTypes

LEMMA AnswerSessionWork ==
  ASSUME WorkTypes, NEW f \in Fetches, NEW t, AnswerSession(f, t)
  PROVE  /\ sent' \in [Calls -> {"no", "waiting", "served", "over"}]
         /\ worker' \in [Calls -> Workers \cup {Nobody}]
         /\ \A y \in Calls \ {f} : sent'[y] = sent[y] /\ worker'[y] = worker[y]
         /\ sent'[f] # "no"
<1> DEFINE goesOn == t # NoSession /\ fetch[f].stage = "session"
           a == IF goesOn THEN "waiting" ELSE "over"
           b == IF goesOn THEN worker[f] ELSE Nobody
<1>1. sent' = [sent EXCEPT ![f] = a] /\ worker' = [worker EXCEPT ![f] = b]
  BY DEF AnswerSession
<1>2. f \in Calls /\ a \in {"waiting", "over"} /\ b \in Workers \cup {Nobody}
  BY CallSets DEF WorkTypes
<1> HIDE DEF a, b
<1> QED BY <1>1, <1>2 DEF WorkTypes

LEMMA ClosesWork ==
  ASSUME WorkTypes, NEW x \in Calls, Closes(x)
  PROVE  /\ sent' \in [Calls -> {"no", "waiting", "served", "over"}]
         /\ worker' \in [Calls -> Workers \cup {Nobody}]
         /\ \A y \in Calls \ {x} : sent'[y] = sent[y] /\ worker'[y] = worker[y]
         /\ sent'[x] = "over"
BY DEF Closes, WorkTypes

\* A worker becomes idle: the type of doing.
LEMMA IdleType ==
  ASSUME WorkTypes, NEW w \in Workers, doing' = [doing EXCEPT ![w] = Idle]
  PROVE  doing' \in [Workers -> [call : Calls \cup {Nobody}, step : Steps]]
BY DEF WorkTypes, Idle, Steps

LEMMA LoginStep ==
  ASSUME Inv, NEW w \in Workers, LoginEnds(w)
  PROVE  Inv' /\ Checked
<1> DEFINE f == doing[w].call
<1>1. /\ doing[w].step = "login" /\ LoginResult(w)
      /\ UNCHANGED <<active, recorded, form, told>>
  BY DEF LoginEnds
<1>2. ServerTypes' /\ logins' \in Nat /\ logins <= logins' /\ logins \in Nat
  BY <1>1, LoginTypes DEF Inv
<1>3. /\ \A v \in Workers \ {w} : cached'[v] = cached[v]
      /\ cached'[w] = NoSession \/ cached'[w] > logins
  BY <1>1, LoginSessions DEF Inv
<1>4. f # Nobody => Fetching(w) /\ f \in Fetches /\ f \in Calls /\ worker[f] = w
  BY <1>1, CallSets DEF Inv, Serving, Posting, LoggingIn, Fetching, Idle
<1>5. WorkTypes
  BY DEF Inv
<1>6. CASE UNCHANGED <<sent, worker, page, fetch>>
  <2>1. /\ page \in {Blank} \cup FullPages(logins')
        /\ FetchTypes(logins') /\ FormTypes(logins')
    BY <1>2, LaterTypes DEF Inv
  <2>2. PageTypes' /\ Pair' /\ Checked
    BY <1>1, <1>6, <2>1 DEF PageTypes, FullPages, FetchTypes, FormTypes, Inv, Pair, Checked
  <2>3. ASSUME NEW g \in Fetches, fetch[g].stage = "evaluation"
        PROVE  /\ fetch[g].session # NoSession /\ worker[g] \in Workers
               /\ \/ cached'[worker[g]] = NoSession
                  \/ fetch[g].session <= cached'[worker[g]]
    <3>1. /\ fetch[g].session # NoSession /\ worker[g] \in Workers
          /\ cached[worker[g]] = NoSession \/ fetch[g].session <= cached[worker[g]]
      BY <2>3 DEF Inv, FetchInv
    <3>2. fetch[g].session \in 0 .. logins
      BY DEF Inv, PageTypes, FetchTypes
    <3>3. cached'[worker[g]] \in 0 .. logins'
      BY <1>2, <3>1 DEF ServerTypes
    <3> QED BY <1>2, <1>3, <3>1, <3>2, <3>3
  <2>4. FetchInv'
    BY <1>6, <2>3 DEF FetchInv
  <2>5. WorkTypes' /\ Serving'
    <3>1. CASE f = Nobody /\ doing' = [doing EXCEPT ![w] = Idle]
      <4>1. WorkTypes'
        BY <1>1, <1>5, <1>6, <3>1, IdleType DEF WorkTypes
      <4> QED BY <1>6, <3>1, <4>1, DoneServing
    <3>2. CASE f # Nobody /\ doing' = [doing EXCEPT ![w].step = "list"]
      <4>1. "list" \in Steps
        BY DEF Steps
      <4>2. /\ Serving'
            /\ doing' \in [Workers -> [call : Calls \cup {Nobody}, step : Steps]]
        BY <1>4, <1>6, <3>2, <4>1, GoesOnServing
      <4> QED BY <1>1, <1>5, <1>6, <4>2 DEF WorkTypes
    <3>3. CASE f # Nobody /\ doing' = [doing EXCEPT ![w] = Idle]
      <4>1. WorkTypes'
        BY <1>1, <1>5, <1>6, <3>3, IdleType DEF WorkTypes
      <4> QED BY <1>6, <3>3, <4>1, DoneServing
    <3> QED BY <3>1, <3>2, <3>3 DEF LoginEnds
  <2> QED BY <1>2, <2>2, <2>4, <2>5 DEF Inv
<1>7. CASE /\ f # Nobody /\ AnswerSession(f, cached'[w])
           /\ doing' = [doing EXCEPT ![w] = Idle]
  <2>1. PageTypes' /\ FetchInv' /\ Pair' /\ page' = page
    BY <1>1, <1>2, <1>3, <1>4, <1>7, SessionAnswered
  <2>2. /\ sent' \in [Calls -> {"no", "waiting", "served", "over"}]
        /\ worker' \in [Calls -> Workers \cup {Nobody}]
        /\ \A y \in Calls \ {f} : sent'[y] = sent[y] /\ worker'[y] = worker[y]
    BY <1>4, <1>5, <1>7, AnswerSessionWork
  <2>3. WorkTypes'
    BY <1>1, <1>5, <1>7, <2>2, IdleType DEF WorkTypes
  <2>4. Serving'
    BY <1>7, <2>2, <2>3, DoneServing
  <2> QED BY <1>2, <2>1, <2>3, <2>4 DEF Inv, Checked
<1>8. CASE /\ f # Nobody /\ AnswerEvaluation(f, Nobody)
           /\ doing' = [doing EXCEPT ![w] = Idle]
  <2>1. /\ PageTypes' /\ FetchInv' /\ Pair'
        /\ \A g \in Fetches : ~(page.sessionFrom # g /\ page'.sessionFrom = g)
    BY <1>1, <1>2, <1>3, <1>4, <1>8, EvaluationAnswered
  <2>2. Closes(f)
    BY <1>8 DEF AnswerEvaluation
  <2>3. /\ sent' \in [Calls -> {"no", "waiting", "served", "over"}]
        /\ worker' \in [Calls -> Workers \cup {Nobody}]
        /\ \A y \in Calls \ {f} : sent'[y] = sent[y] /\ worker'[y] = worker[y]
    BY <1>4, <1>5, <1>8, <2>2, ClosesWork
  <2>4. WorkTypes'
    BY <1>1, <1>5, <1>8, <2>3, IdleType DEF WorkTypes
  <2>5. Serving'
    BY <1>8, <2>3, <2>4, DoneServing
  <2> QED BY <1>2, <2>1, <2>4, <2>5 DEF Inv, Checked
<1> QED BY <1>6, <1>7, <1>8 DEF LoginEnds

LEMMA ListStep ==
  ASSUME Inv, NEW w \in Workers, ListEnds(w)
  PROVE  Inv' /\ Checked
<1> DEFINE f == doing[w].call
<1>1. PICK e \in {Nobody} \cup (IF cached[w] \in valid THEN {active} ELSE {}) :
        AnswerEvaluation(f, e)
  BY DEF ListEnds
<1>2. /\ doing[w].step = "list" /\ doing' = [doing EXCEPT ![w] = Idle]
      /\ UNCHANGED <<logins, valid, active, recorded, cached, form, told>>
  BY DEF ListEnds, dresVars
<1>3. /\ e \in Evaluations \cup {Nobody}
      /\ e # Nobody => cached[w] \in valid
      /\ logins \in Nat /\ logins <= logins /\ ServerTypes'
  BY <1>1, <1>2, Distinct DEF Inv, ServerTypes
<1>4. f \in Fetches /\ f \in Calls /\ worker[f] = w
  BY <1>2, CallSets DEF Inv, Serving, Posting, LoggingIn, Fetching, Idle
<1>5. /\ PageTypes' /\ FetchInv' /\ Pair'
      /\ \A g \in Fetches : page.sessionFrom # g /\ page'.sessionFrom = g =>
           /\ g = f /\ e # Nobody /\ page'.session = fetch[f].session
           /\ fetch[f].session # NoSession /\ fetch[f].session \in 0 .. logins
           /\ cached[w] = NoSession \/ fetch[f].session <= cached[w]
  <2>1. /\ e \in Evaluations \cup {Nobody} /\ form' = form /\ ServerTypes'
        /\ logins \in Nat /\ logins' \in Nat /\ logins <= logins'
        /\ \A v \in Workers \ {w} : cached'[v] = cached[v]
        /\ cached'[w] = cached[w]
    BY <1>2, <1>3
  <2> HIDE DEF f
  <2> QED BY <1>1, <1>4, <2>1, EvaluationAnswered
<1>6. cached[w] \in valid => cached[w] # NoSession /\ cached[w] \in Nat
  BY Distinct DEF Inv, ServerTypes
<1>7. Checked
  BY <1>3, <1>4, <1>5, <1>6 DEF Checked
<1>8. Closes(f)
  BY <1>1 DEF AnswerEvaluation
<1>9. /\ sent' \in [Calls -> {"no", "waiting", "served", "over"}]
      /\ worker' \in [Calls -> Workers \cup {Nobody}]
      /\ \A y \in Calls \ {f} : sent'[y] = sent[y] /\ worker'[y] = worker[y]
  BY <1>4, <1>8, ClosesWork DEF Inv
<1>10. WorkTypes'
  BY <1>2, <1>9, IdleType DEF Inv, WorkTypes
<1>11. Serving'
  BY <1>2, <1>9, <1>10, DoneServing
<1> QED BY <1>3, <1>5, <1>7, <1>10, <1>11 DEF Inv

LEMMA CachedStep ==
  ASSUME Inv, NEW w \in Workers, NEW f \in Fetches, AnswerCached(w, f)
  PROVE  Inv' /\ Checked
<1>1. /\ doing[w] = Idle /\ sent[f] = "waiting" /\ worker[f] = w
      /\ AnswerSession(f, cached'[w]) /\ doing' = doing
      /\ UNCHANGED <<logins, valid, active, recorded, cached, form, told>>
  BY DEF AnswerCached, Takes, dresVars
<1>2. logins \in Nat /\ logins <= logins /\ ServerTypes'
  BY <1>1, Distinct DEF Inv, ServerTypes
<1>3. PageTypes' /\ FetchInv' /\ Pair' /\ page' = page
  BY <1>1, <1>2, SessionAnswered
<1>4. /\ sent' \in [Calls -> {"no", "waiting", "served", "over"}]
      /\ worker' \in [Calls -> Workers \cup {Nobody}]
      /\ \A y \in Calls \ {f} : sent'[y] = sent[y] /\ worker'[y] = worker[y]
  BY <1>1, AnswerSessionWork DEF Inv
<1>5. WorkTypes'
  BY <1>1, <1>4 DEF Inv, WorkTypes
<1>6. Serving'
  BY <1>1, <1>4, OthersServing
<1> QED BY <1>2, <1>3, <1>5, <1>6 DEF Inv, Checked

LEMMA SubmissionStep ==
  ASSUME Inv, NEW w \in Workers, PostReturns(w) \/ PostFails(w)
  PROVE  Inv' /\ Checked
<1> DEFINE c == doing[w].call
<1>1. /\ doing[w].step \in {"post", "accepted", "refused"}
      /\ \E r \in {"success", "failure"} : AnswerSubmission(w, c, r)
  BY DEF PostReturns, PostFails
<1>2. /\ doing' = [doing EXCEPT ![w] = Idle] /\ Closes(c)
      /\ UNCHANGED <<logins, valid, active, recorded, cached, page, fetch, form>>
      /\ \E r \in {"success", "failure"} :
           told' = [told EXCEPT ![c] = IF @ = "nothing" THEN r ELSE @]
  BY <1>1 DEF AnswerSubmission, dresVars
<1>3. c \in Clicks /\ c \in Calls
  BY <1>1, CallSets DEF Inv, Serving, Posting, LoggingIn, Fetching, Idle
<1>4. /\ sent' \in [Calls -> {"no", "waiting", "served", "over"}]
      /\ worker' \in [Calls -> Workers \cup {Nobody}]
      /\ \A y \in Calls \ {c} : sent'[y] = sent[y] /\ worker'[y] = worker[y]
  BY <1>2, <1>3, ClosesWork DEF Inv
<1>5. told' \in [Clicks -> {"nothing", "success", "failure"}]
  BY <1>2, <1>3 DEF Inv, WorkTypes
<1>6. WorkTypes'
  BY <1>2, <1>4, <1>5, IdleType DEF Inv, WorkTypes
<1>7. Serving'
  BY <1>2, <1>4, <1>6, DoneServing
<1>8. \A g \in Fetches : worker'[g] = worker[g]
  BY <1>3, <1>4, CallSets, Distinct
<1>9. FetchInv' /\ ServerTypes' /\ PageTypes' /\ Pair' /\ Checked
  BY <1>2, <1>8 DEF Inv, FetchInv, ServerTypes, PageTypes, FullPages, FetchTypes, FormTypes,
     Pair, Checked
<1> QED BY <1>6, <1>7, <1>9 DEF Inv
LEMMA SendStep ==
  ASSUME Inv, NEW x \in Calls, Send(x), sent[x] # "served",
         \A f \in Fetches : fetch'[f].stage = "evaluation" =>
           f # x /\ fetch'[f] = fetch[f],
         UNCHANGED <<recorded, cached, doing, told>>
  PROVE  WorkTypes' /\ Serving' /\ FetchInv'
<1>1. PICK w \in Workers :
        worker' = [worker EXCEPT ![x] = w] /\ sent' = [sent EXCEPT ![x] = "waiting"]
  BY DEF Send
<1>2. WorkTypes'
  BY <1>1 DEF Inv, WorkTypes
<1>3. \A y \in Calls \ {x} : sent'[y] = sent[y] /\ worker'[y] = worker[y]
  BY <1>1 DEF Inv, WorkTypes
<1>4. Serving'
  BY <1>3, OthersServing
<1>5. FetchInv'
  <2> SUFFICES ASSUME NEW f \in Fetches, fetch'[f].stage = "evaluation"
               PROVE  /\ fetch'[f].session # NoSession /\ worker'[f] \in Workers
                      /\ \/ cached'[worker'[f]] = NoSession
                         \/ fetch'[f].session <= cached'[worker'[f]]
    BY DEF FetchInv
  <2>1. fetch'[f] = fetch[f] /\ worker'[f] = worker[f] /\ cached' = cached
    BY <1>3, CallSets
  <2> QED BY <2>1 DEF Inv, FetchInv
<1> QED BY <1>2, <1>4, <1>5

\* A fetch the page has not asked for yet has no call under way.
Unasked == \A f \in Fetches : fetch[f].stage = "idle" => sent[f] = "no"

LEMMA StepUnasked == Inv /\ Unasked /\ [Next]_vars => Unasked'
<1> SUFFICES ASSUME Inv, Unasked, [Next]_vars PROVE Unasked'
  OBVIOUS
<1>0. /\ fetch \in [Fetches -> [stage : {"idle", "session", "evaluation", "over"},
                               session : 0 .. logins]]
      /\ sent \in [Calls -> {"no", "waiting", "served", "over"}] /\ WorkTypes
  BY DEF Inv, PageTypes, FetchTypes, WorkTypes
<1>1. ASSUME UNCHANGED <<sent, fetch>>
      PROVE  Unasked'
  BY <1>1 DEF Unasked
<1>2. ASSUME NEW x \in Calls, sent[x] # "no", NEW v, sent' = [sent EXCEPT ![x] = v],
             UNCHANGED fetch
      PROVE  Unasked'
  BY <1>0, <1>2, CallSets DEF Unasked
<1>3. ASSUME NEW f \in Fetches, fetch'[f].stage # "idle",
             \A g \in Fetches \ {f} : fetch'[g] = fetch[g] /\ sent'[g] = sent[g]
      PROVE  Unasked'
  BY <1>3 DEF Unasked
<1>4. ASSUME NEW f \in Fetches, NEW t, AnswerSession(f, t)
      PROVE  Unasked'
  <2> DEFINE r == IF t # NoSession /\ fetch[f].stage = "session"
                  THEN [stage |-> "evaluation", session |-> t]
                  ELSE [stage |-> "over", session |-> NoSession]
  <2>1. fetch' = [fetch EXCEPT ![f] = r] /\ r.stage # "idle"
    BY <1>4 DEF AnswerSession
  <2> HIDE DEF r
  <2>2. fetch'[f].stage # "idle" /\ \A g \in Fetches \ {f} : fetch'[g] = fetch[g]
    BY <1>0, <2>1
  <2>3. \A g \in Fetches \ {f} : sent'[g] = sent[g]
    BY <1>0, <1>4, AnswerSessionWork, CallSets
  <2> QED BY <1>3, <2>2, <2>3
<1>5. ASSUME NEW f \in Fetches, NEW e, AnswerEvaluation(f, e)
      PROVE  Unasked'
  <2>1. fetch' = [fetch EXCEPT ![f] = [stage |-> "over", session |-> NoSession]]
        /\ sent' = [sent EXCEPT ![f] = "over"]
    BY <1>5 DEF AnswerEvaluation, Closes
  <2> QED BY <1>0, <1>3, <2>1, CallSets
<1>6. ASSUME NEW w \in Workers, Serve(w)
      PROVE  Unasked'
  <2>1. ASSUME NEW x \in Calls, NEW step, Takes(w, x), Enters(w, x, step)
        PROVE  Unasked'
    BY <1>2, <2>1 DEF Takes, Enters, pageVars
  <2> QED
    BY <1>4, <1>6, <2>1, CallSets DEF Serve, StartPost, StartLogin, StartList, AnswerCached
<1>7. ASSUME NEW w \in Workers, LoginEnds(w) \/ ListEnds(w)
      PROVE  Unasked'
  <2>1. doing[w].call = Nobody \/ doing[w].call \in Fetches
    BY <1>7 DEF LoginEnds, ListEnds, Inv, Serving, Posting, LoggingIn, Fetching, Idle
  <2>2. CASE ListEnds(w)
    <3>1. \E e : AnswerEvaluation(doing[w].call, e)
      BY <2>2 DEF ListEnds
    <3>2. doing[w].call \in Fetches
      BY <2>2 DEF ListEnds, Inv, Serving, Posting, LoggingIn, Fetching, Idle
    <3> QED BY <1>5, <3>1, <3>2
  <2>3. CASE LoginEnds(w)
    <3>1. \/ UNCHANGED <<sent, fetch>>
          \/ doing[w].call # Nobody /\ AnswerSession(doing[w].call, cached'[w])
          \/ doing[w].call # Nobody /\ AnswerEvaluation(doing[w].call, Nobody)
      BY <2>3 DEF LoginEnds
    <3> QED BY <1>1, <1>4, <1>5, <2>1, <3>1
  <2> QED BY <1>7, <2>2, <2>3
<1>8. ASSUME NEW w \in Workers, PostReturns(w) \/ PostFails(w)
      PROVE  Unasked'
  <2>1. /\ sent' = [sent EXCEPT ![doing[w].call] = "over"] /\ UNCHANGED fetch
        /\ doing[w].step \in {"post", "accepted", "refused"}
    BY <1>8 DEF PostReturns, PostFails, AnswerSubmission, Closes
  <2>2. doing[w].call \in Calls /\ sent[doing[w].call] # "no"
    BY <2>1, CallSets DEF Inv, Serving, Posting, LoggingIn, Fetching, Idle
  <2> QED BY <1>2, <2>1, <2>2
<1>9. ASSUME NEW c \in Clicks, Click(c)
      PROVE  Unasked'
  <2>1. sent' = [sent EXCEPT ![c] = "waiting"] /\ UNCHANGED fetch
    BY <1>9 DEF Click, Send
  <2>2. \A f \in Fetches : sent'[f] = sent[f]
    BY <1>0, <2>1, CallSets, Distinct
  <2> QED BY <2>1, <2>2 DEF Unasked
<1>10. ASSUME NEW f \in Fetches, AskIds(f) \/ FetchFails(f)
       PROVE  Unasked'
  <2>1. PICK stage \in {"session", "over"} : fetch' = [fetch EXCEPT ![f].stage = stage]
    BY <1>10 DEF AskIds, FetchFails
  <2>2. fetch' = [fetch EXCEPT ![f] = [stage |-> stage, session |-> fetch[f].session]]
    <3>1. [fetch[f] EXCEPT !.stage = stage] = [stage |-> stage, session |-> fetch[f].session]
      BY <1>0
    <3> QED BY <2>1, <3>1
  <2>3. fetch'[f].stage # "idle" /\ \A g \in Fetches \ {f} : fetch'[g] = fetch[g]
    BY <1>0, <2>2
  <2>4. sent' = sent \/ sent' = [sent EXCEPT ![f] = "waiting"]
    BY <1>10 DEF AskIds, FetchFails, workVars, Send
  <2>5. \A g \in Fetches \ {f} : sent'[g] = sent[g]
    BY <1>0, <2>4, CallSets
  <2> QED BY <1>3, <2>3, <2>5
<1>11. CASE \/ Expire \/ Switch \/ UNCHANGED vars
            \/ \E w \in Workers : Relogin(w) \/ ServerTakes(w)
            \/ \E c \in Clicks : HubTimeout(c)
  BY <1>1, <1>11 DEF Expire, Switch, vars, workVars, pageVars, Relogin, ServerTakes, HubTimeout
<1> QED
  BY <1>6, <1>7, <1>8, <1>9, <1>10, <1>11 DEF Next, RequestEnds

LEMMA StepInv == Inv /\ Unasked /\ [Next]_vars => Inv' /\ Checked
<1> SUFFICES ASSUME Inv, Unasked, [Next]_vars PROVE Inv' /\ Checked
  OBVIOUS
<1> DEFINE Same == UNCHANGED <<cached, doing, sent, worker, page, fetch, form>>
<1>1. CASE UNCHANGED vars
  BY <1>1 DEF vars, dresVars, workVars, pageVars, Inv, ServerTypes, WorkTypes, PageTypes,
     FullPages, FetchTypes, FormTypes, Serving, Posting, LoggingIn, Fetching, FetchInv,
     Pair, Checked
<1>2. ASSUME Same, WorkTypes', ServerTypes', logins' = logins
      PROVE  Inv' /\ Checked
  <2>1. Serving' /\ FetchInv' /\ Pair' /\ Checked
    BY <1>2 DEF Inv, Serving, Posting, LoggingIn, Fetching, FetchInv, Pair, Checked
  <2>2. PageTypes'
    BY <1>2 DEF Inv, PageTypes, FullPages, FetchTypes, FormTypes
  <2> QED BY <1>2, <2>1, <2>2 DEF Inv
<1>3. CASE Expire \/ Switch
  <2>1. Same /\ UNCHANGED <<logins, recorded, told>>
    BY <1>3 DEF Expire, Switch, workVars, pageVars
  <2>2. ServerTypes'
    BY <1>3 DEF Expire, Switch, workVars, Inv, ServerTypes
  <2>3. WorkTypes'
    BY <2>1 DEF Inv, WorkTypes
  <2> QED BY <1>2, <2>1, <2>2, <2>3
<1>4. ASSUME NEW c \in Clicks, HubTimeout(c)
      PROVE  Inv' /\ Checked
  <2>1. Same /\ UNCHANGED <<logins, valid, active, recorded>>
        /\ told' = [told EXCEPT ![c] = "failure"]
    BY <1>4 DEF HubTimeout, dresVars, workVars
  <2>2. ServerTypes'
    BY <2>1 DEF Inv, ServerTypes
  <2>3. WorkTypes'
    BY <2>1 DEF Inv, WorkTypes
  <2> QED BY <1>2, <2>1, <2>2, <2>3
<1>5. ASSUME NEW w \in Workers, Serve(w)
      PROVE  Inv' /\ Checked
  <2>1. {"post", "login", "list"} \subseteq Steps
    BY DEF Steps
  <2>2. ASSUME NEW c \in Clicks, StartPost(w, c)
        PROVE  Inv' /\ Checked
    <3>1. Inv'
      BY <2>1, <2>2, CallSets, EntersServing DEF StartPost
    <3> QED BY <2>2, <3>1 DEF StartPost, Enters, pageVars, Checked
  <2>3. ASSUME NEW f \in Fetches, StartLogin(w, f) \/ StartList(w, f)
        PROVE  Inv' /\ Checked
    <3>1. PICK step \in {"login", "list"} : Takes(w, f) /\ Enters(w, f, step)
      BY <2>3 DEF StartLogin, StartList
    <3>2. Inv'
      BY <2>1, <3>1, CallSets, EntersServing
    <3> QED BY <3>1, <3>2 DEF Enters, pageVars, Checked
  <2> QED BY <1>5, <2>2, <2>3, CachedStep DEF Serve
<1>6. ASSUME NEW w \in Workers, Relogin(w)
      PROVE  Inv' /\ Checked
  <2> DEFINE login == [call |-> Nobody, step |-> "login"]
  <2>1. /\ doing[w] = Idle /\ doing' = [doing EXCEPT ![w] = login]
        /\ UNCHANGED <<logins, valid, active, recorded, cached, sent, worker, page, fetch,
                       form, told>>
    BY <1>6 DEF Relogin, dresVars, pageVars
  <2>2. login \in [call : Calls \cup {Nobody}, step : Steps] /\ login.call = Nobody
        /\ login.step = "login"
    BY DEF Steps
  <2> HIDE DEF login
  <2>3. WorkTypes'
    BY <2>1, <2>2 DEF Inv, WorkTypes
  <2>4. doing'[w] = login /\ \A v \in Workers \ {w} : doing'[v] = doing[v]
    BY <2>1 DEF Inv, WorkTypes
  <2>5. \A v \in Workers : (doing[v] = Idle \/ Posting(v) \/ LoggingIn(v) \/ Fetching(v))'
    BY <2>1, <2>2, <2>4 DEF Inv, Serving, Posting, LoggingIn, Fetching
  <2>6. \A u, v \in Workers :
          doing'[u].call = doing'[v].call /\ doing'[v].call # Nobody => u = v
    BY <2>2, <2>4 DEF Inv, Serving
  <2>7. Serving'
    BY <2>5, <2>6 DEF Serving
  <2> QED
    BY <2>1, <2>3, <2>7 DEF Inv, ServerTypes, PageTypes, FullPages, FetchTypes, FormTypes,
       FetchInv, Pair, Checked
<1>7. ASSUME NEW w \in Workers, ServerTakes(w)
      PROVE  Inv' /\ Checked
  <2>1. PICK step \in {"accepted", "refused"} : doing' = [doing EXCEPT ![w].step = step]
    BY <1>7 DEF ServerTakes
  <2>2. doing[w].step = "post" /\ step \in Steps
        /\ UNCHANGED <<logins, valid, active, cached, sent, worker, page, fetch, form, told>>
    BY <1>7 DEF ServerTakes, pageVars, Steps
  <2>3. Posting(w)
    BY <2>2 DEF Inv, Serving, Posting, LoggingIn, Fetching, Idle
  <2>4. Serving' /\ doing' \in [Workers -> [call : Calls \cup {Nobody}, step : Steps]]
    BY <2>1, <2>2, <2>3, GoesOnServing
  <2>5. recorded' \in [Clicks -> Nat]
    BY <1>7, <2>3 DEF ServerTakes, Posting, Inv, WorkTypes
  <2> QED
    BY <2>2, <2>4, <2>5 DEF Inv, WorkTypes, ServerTypes, PageTypes, FullPages, FetchTypes,
       FormTypes, FetchInv, Pair, Checked
<1>8. ASSUME NEW c \in Clicks, Click(c)
      PROVE  Inv' /\ Checked
  <2>1. /\ sent[c] # "served" /\ Send(c)
        /\ form' = [form EXCEPT ![c] = [session |-> page.session,
                                        evaluation |-> page.evaluation]]
        /\ UNCHANGED <<logins, valid, active, recorded, cached, doing, page, fetch, told>>
    BY <1>8 DEF Click, dresVars
  <2>2. WorkTypes' /\ Serving' /\ FetchInv'
    BY <2>1, SendStep, CallSets, Distinct
  <2>3. page.session \in 0 .. logins /\ page.evaluation \in Evaluations \cup {Nobody}
    BY Distinct DEF Inv, PageTypes, FullPages, Blank, ServerTypes
  <2>4. FormTypes(logins)'
    BY <2>1, <2>3 DEF Inv, PageTypes, FormTypes
  <2>5. PageTypes'
    BY <2>1, <2>4 DEF Inv, PageTypes, FullPages, FetchTypes
  <2> QED BY <2>1, <2>2, <2>5 DEF Inv, ServerTypes, Pair, Checked
<1>9. ASSUME NEW f \in Fetches, AskIds(f) \/ FetchFails(f)
      PROVE  Inv' /\ Checked
  <2>1. PICK stage \in {"session", "over"} : fetch' = [fetch EXCEPT ![f].stage = stage]
    BY <1>9 DEF AskIds, FetchFails
  <2>2. UNCHANGED <<logins, valid, active, recorded, cached, doing, page, form, told>>
    BY <1>9 DEF AskIds, FetchFails, dresVars, workVars
  <2>3. [fetch[f] EXCEPT !.stage = stage] = [stage |-> stage, session |-> fetch[f].session]
    BY DEF Inv, PageTypes, FetchTypes
  <2>4. fetch' = [fetch EXCEPT ![f] = [stage |-> stage, session |-> fetch[f].session]]
    BY <2>1, <2>3
  <2>5. FetchTypes(logins)'
    BY <2>2, <2>4 DEF Inv, PageTypes, FetchTypes
  <2>6. PageTypes'
    BY <2>2, <2>5 DEF Inv, PageTypes, FullPages, FormTypes
  <2>7. \A g \in Fetches : fetch'[g].stage = "evaluation" => g # f /\ fetch'[g] = fetch[g]
    BY <2>4 DEF Inv, PageTypes, FetchTypes
  <2>8. WorkTypes' /\ Serving' /\ FetchInv'
    <3>1. CASE AskIds(f)
      <4>1. sent[f] # "served" /\ Send(f)
        BY <3>1 DEF AskIds, Unasked
      <4> QED BY <2>2, <2>7, <4>1, SendStep, CallSets
    <3>2. CASE FetchFails(f)
      <4>1. UNCHANGED <<sent, worker>>
        BY <3>2 DEF FetchFails, workVars
      <4> QED
        BY <2>2, <2>7, <4>1 DEF Inv, WorkTypes, Serving, Posting, LoggingIn, Fetching, FetchInv
    <3> QED BY <1>9, <3>1, <3>2
  <2> QED BY <2>2, <2>6, <2>8 DEF Inv, ServerTypes, Pair, Checked
<1> QED
  BY <1>1, <1>3, <1>4, <1>5, <1>6, <1>7, <1>8, <1>9, LoginStep, ListStep, SubmissionStep
  DEF Next, RequestEnds
\* The page: types, and the ids in pairs.
LEMMA InvPair == Inv => PairFromOneFetch
<1> SUFFICES ASSUME Inv PROVE PairFromOneFetch
  OBVIOUS
<1>1. DresTypeOK
  BY DEF Inv, DresTypeOK, ServerTypes, WorkTypes, PageTypes, FullPages, FetchTypes, FormTypes,
     Steps
<1> QED BY <1>1 DEF PairFromOneFetch, Inv, Pair

LEMMA InitInv == Init => Inv /\ Unasked
<1> SUFFICES ASSUME Init PROVE Inv /\ Unasked
  OBVIOUS
<1>1. ServerTypes
  BY Distinct DEF Init, ServerTypes
<1>2. WorkTypes
  BY CallSets DEF Init, WorkTypes, Steps
<1>3. PageTypes
  BY Distinct DEF Init, PageTypes, FetchTypes, FormTypes, NoIds
<1>4. Serving
  <2>1. \A w \in Workers : doing[w].step = "login" /\ doing[w].call = Nobody
    BY DEF Init
  <2> QED BY <2>1 DEF Serving, LoggingIn
<1>5. FetchInv /\ Pair
  BY DEF Init, FetchInv, Pair, Blank
<1>6. Unasked
  BY CallSets DEF Init, Unasked
<1> QED BY <1>1, <1>2, <1>3, <1>4, <1>5, <1>6 DEF Inv

\* The session and the evaluation in the form come from one answer of the hub,
\* in whatever order the fetch on loading and the button's are answered.
THEOREM IdsComeInPairs == Spec => []PairFromOneFetch
BY InitInv, StepInv, StepUnasked, InvPair, PTL DEF Spec

\* A session that has ended does not reach the form, unless its worker has logged
\* in again meanwhile, although a cached session is handed out unquestioned.
THEOREM SessionsAreChecked == Spec => SessionCheckedByList
<1>1. Checked => [\A f \in Fetches :
                    page.sessionFrom # f /\ page'.sessionFrom = f =>
                      page'.session \in valid \/ page'.session < cached[worker[f]]]_vars
  BY DEF Checked
<1> QED
  BY <1>1, InitInv, StepInv, StepUnasked, PTL DEF Spec, SessionCheckedByList------------------------------------------------------------------------------
(***************************************************************************)
(* The submission path implements AnswerBox.                               *)
(***************************************************************************)

\* How far a submission has come, what is recorded of it and what was said.
Progress ==
  /\ \A c \in Clicks :
       /\ sent[c] = "no" => told[c] = "nothing"
       /\ sent[c] \in {"no", "waiting"} => recorded[c] = 0
  /\ \A w \in Workers :
       /\ doing[w].step = "post" => recorded[doing[w].call] = 0
       /\ doing[w].step = "accepted" => recorded[doing[w].call] = 1

Pressed == {c \in Clicks : sent[c] # "no"}

\* A step that leaves the clicks, what is recorded and what was said alone.
LEMMA QuietStep ==
  ASSUME Progress, UNCHANGED <<told, recorded>>,
         \A c \in Clicks : sent'[c] = sent[c],
         \A w \in Workers : \/ doing'[w] = doing[w]
                            \/ doing'[w].step \notin {"post", "accepted"}
  PROVE  Progress' /\ [Box!BoxNext]_(Box!boxVars)
<1>1. Progress'
  BY DEF Progress
<1>2. Pressed' = Pressed
  BY DEF Pressed
<1> QED BY <1>1, <1>2 DEF Box!boxVars, Pressed

\* A worker answers a submission and is idle again.
LEMMA AnswerStep ==
  ASSUME Inv, Progress, NEW w \in Workers, NEW r \in {"success", "failure"},
         doing[w].step \in {"post", "accepted", "refused"},
         r = "success" => doing[w].step = "accepted",
         AnswerSubmission(w, doing[w].call, r)
  PROVE  Progress' /\ [Box!BoxNext]_(Box!boxVars)
<1> DEFINE c == doing[w].call
<1>1. c \in Clicks /\ c \in Calls /\ sent[c] = "served"
  BY CallSets DEF Inv, Serving, Posting, LoggingIn, Fetching, Idle
<1>2. /\ doing' = [doing EXCEPT ![w] = Idle]
      /\ sent' = [sent EXCEPT ![c] = "over"]
      /\ told' = [told EXCEPT ![c] = IF told[c] = "nothing" THEN r ELSE told[c]]
      /\ recorded' = recorded
  BY DEF AnswerSubmission, Closes, dresVars
<1>3. r = "success" => recorded[c] = 1
  BY DEF Progress
<1> HIDE DEF c
<1>4. \A v \in Workers : doing'[v] = doing[v] \/ doing'[v].step = "idle"
  BY <1>2 DEF Inv, WorkTypes, Idle
<1>5. \A d \in Clicks \ {c} : sent'[d] = sent[d] /\ told'[d] = told[d]
  BY <1>1, <1>2, CallSets DEF Inv, WorkTypes
<1>6. sent'[c] = "over"
  BY <1>1, <1>2 DEF Inv, WorkTypes
<1>7. Progress'
  BY <1>2, <1>4, <1>5, <1>6 DEF Progress
<1>8. Pressed' = Pressed /\ c \in Pressed
  BY <1>1, <1>5, <1>6 DEF Pressed
<1>9. CASE told[c] = "nothing"
  <2>1. told' = [told EXCEPT ![c] = r]
    BY <1>2, <1>9
  <2>2. Box!BoxTell(c)
    BY <1>2, <1>3, <1>8, <1>9, <2>1 DEF Box!BoxTell, Pressed
  <2> QED BY <1>1, <1>7, <2>2 DEF Box!BoxNext
<1>10. CASE told[c] # "nothing"
  <2>1. told' = told
    BY <1>1, <1>2, <1>10 DEF Inv, WorkTypes
  <2> QED BY <1>2, <1>7, <1>8, <2>1 DEF Box!boxVars, Pressed
<1> QED BY <1>9, <1>10

LEMMA StepBox ==
  Inv /\ Progress /\ [Next]_vars => Progress' /\ [Box!BoxNext]_(Box!boxVars)
<1> SUFFICES ASSUME Inv, Progress, [Next]_vars
             PROVE  Progress' /\ [Box!BoxNext]_(Box!boxVars)
  OBVIOUS
<1>0. WorkTypes
  BY DEF Inv
<1>1. ASSUME UNCHANGED <<doing, sent, told, recorded>>
      PROVE  Progress' /\ [Box!BoxNext]_(Box!boxVars)
  BY <1>1, QuietStep
<1>2. ASSUME NEW c \in Clicks, Click(c)
      PROVE  Progress' /\ [Box!BoxNext]_(Box!boxVars)
  <2>1. /\ sent[c] = "no" /\ sent' = [sent EXCEPT ![c] = "waiting"]
        /\ UNCHANGED <<doing, told, recorded>>
    BY <1>2 DEF Click, Send, dresVars
  <2>2. sent'[c] = "waiting" /\ \A d \in Clicks \ {c} : sent'[d] = sent[d]
    BY <1>0, <2>1, CallSets DEF WorkTypes
  <2>3. Progress'
    BY <2>1, <2>2 DEF Progress
  <2>4. c \notin Pressed /\ Pressed' = Pressed \cup {c}
    BY <2>1, <2>2 DEF Pressed
  <2> QED BY <2>1, <2>3, <2>4 DEF Box!BoxNext, Box!BoxPress, Pressed
<1>3. ASSUME NEW c \in Clicks, HubTimeout(c)
      PROVE  Progress' /\ [Box!BoxNext]_(Box!boxVars)
  <2>1. /\ sent[c] # "no" /\ told[c] = "nothing"
        /\ told' = [told EXCEPT ![c] = "failure"]
        /\ UNCHANGED <<doing, sent, recorded>>
    BY <1>3 DEF HubTimeout, dresVars, workVars
  <2>2. Progress'
    BY <1>0, <2>1 DEF Progress, WorkTypes
  <2>3. c \in Pressed /\ Pressed' = Pressed
    BY <2>1 DEF Pressed
  <2> QED BY <2>1, <2>2, <2>3 DEF Box!BoxNext, Box!BoxTell, Pressed
<1>4. ASSUME NEW w \in Workers, NEW c \in Clicks, StartPost(w, c)
      PROVE  Progress' /\ [Box!BoxNext]_(Box!boxVars)
  <2>1. /\ sent[c] = "waiting" /\ sent' = [sent EXCEPT ![c] = "served"]
        /\ doing' = [doing EXCEPT ![w] = [call |-> c, step |-> "post"]]
        /\ UNCHANGED <<told, recorded>>
    BY <1>4 DEF StartPost, Takes, Enters, dresVars, pageVars
  <2>2. sent'[c] = "served" /\ \A d \in Clicks \ {c} : sent'[d] = sent[d]
    BY <1>0, <2>1, CallSets DEF WorkTypes
  <2>3. /\ doing'[w] = [call |-> c, step |-> "post"]
        /\ \A v \in Workers \ {w} : doing'[v] = doing[v]
    BY <1>0, <2>1 DEF WorkTypes
  <2>4. Progress'
    BY <2>1, <2>2, <2>3 DEF Progress
  <2>5. Pressed' = Pressed
    BY <2>1, <2>2 DEF Pressed
  <2> QED BY <2>1, <2>4, <2>5 DEF Box!boxVars, Pressed
<1>5. ASSUME NEW w \in Workers, ServerTakes(w)
      PROVE  Progress' /\ [Box!BoxNext]_(Box!boxVars)
  <2> DEFINE c == doing[w].call
  <2>1. doing[w].step = "post" /\ UNCHANGED <<sent, told>>
    BY <1>5 DEF ServerTakes, pageVars
  <2>2. c \in Clicks /\ sent[c] = "served" /\ recorded[c] = 0
    BY <2>1 DEF Inv, Serving, Posting, LoggingIn, Fetching, Idle, Progress
  <2>3. \A v \in Workers \ {w} : doing[v].call # c
    BY <2>2, Distinct DEF Inv, Serving
  <2>4. ASSUME NEW step \in Steps, doing' = [doing EXCEPT ![w].step = step]
        PROVE  /\ doing'[w].step = step /\ doing'[w].call = c
               /\ \A v \in Workers \ {w} : doing'[v] = doing[v]
    BY <1>0, <2>4 DEF WorkTypes
  <2>5. CASE /\ recorded' = [recorded EXCEPT ![c] = @ + 1]
             /\ doing' = [doing EXCEPT ![w].step = "accepted"]
    <3>1. recorded' = [recorded EXCEPT ![c] = 1]
      BY <2>2, <2>5
    <3>2. recorded'[c] = 1 /\ \A d \in Clicks \ {c} : recorded'[d] = recorded[d]
      BY <1>0, <2>2, <3>1 DEF WorkTypes
    <3>3. /\ doing'[w].step = "accepted" /\ doing'[w].call = c
          /\ \A v \in Workers \ {w} : doing'[v] = doing[v]
      BY <2>4, <2>5 DEF Steps
    <3>4. \A v \in Workers : doing[v].step \in {"post", "accepted"} => doing[v].call \in Clicks
      BY DEF Inv, Serving, Posting, LoggingIn, Fetching, Idle
    <3> HIDE DEF c
    <3>5. Progress'
      BY <2>1, <2>2, <2>3, <3>2, <3>3, <3>4 DEF Progress
    <3>6. Pressed' = Pressed /\ c \in Pressed
      BY <2>1, <2>2 DEF Pressed
    <3>7. Box!BoxRecord(c)
      BY <2>1, <2>2, <3>1, <3>6 DEF Box!BoxRecord, Pressed
    <3> QED BY <2>2, <3>5, <3>7 DEF Box!BoxNext
  <2>6. CASE doing' = [doing EXCEPT ![w].step = "refused"] /\ UNCHANGED recorded
    <3>1. \A v \in Workers :
            doing'[v] = doing[v] \/ doing'[v].step \notin {"post", "accepted"}
      BY <2>4, <2>6 DEF Steps
    <3> QED BY <2>1, <2>6, <3>1, QuietStep
  <2> QED BY <1>5, <2>5, <2>6 DEF ServerTakes
<1>6. ASSUME NEW w \in Workers, PostReturns(w) \/ PostFails(w)
      PROVE  Progress' /\ [Box!BoxNext]_(Box!boxVars)
  BY <1>6, AnswerStep DEF PostReturns, PostFails
<1>7. ASSUME NEW w \in Workers, NEW f \in Fetches,
             StartLogin(w, f) \/ StartList(w, f) \/ AnswerCached(w, f)
      PROVE  Progress' /\ [Box!BoxNext]_(Box!boxVars)
  <2>1. UNCHANGED <<told, recorded>>
    BY <1>7 DEF StartLogin, StartList, AnswerCached, Enters, dresVars, pageVars
  <2>2. \A c \in Clicks : sent'[c] = sent[c]
    <3>1. CASE AnswerCached(w, f)
      BY <1>0, <3>1, AnswerSessionWork, CallSets, Distinct DEF AnswerCached
    <3>2. CASE sent' = [sent EXCEPT ![f] = "served"]
      BY <1>0, <3>2, CallSets, Distinct DEF WorkTypes
    <3> QED BY <1>7, <3>1, <3>2 DEF StartLogin, StartList, Enters
  <2>3. \A v \in Workers : doing'[v] = doing[v] \/ doing'[v].step \notin {"post", "accepted"}
    BY <1>0, <1>7 DEF StartLogin, StartList, AnswerCached, Enters, WorkTypes
  <2> QED BY <2>1, <2>2, <2>3, QuietStep
<1>8. ASSUME NEW w \in Workers, LoginEnds(w) \/ ListEnds(w)
      PROVE  Progress' /\ [Box!BoxNext]_(Box!boxVars)
  <2>1. UNCHANGED <<told, recorded>>
    BY <1>8 DEF LoginEnds, ListEnds, dresVars
  <2>2. \/ UNCHANGED sent
        \/ \E f \in Fetches : \E t : AnswerSession(f, t)
        \/ \E f \in Fetches : Closes(f)
    <3>1. doing[w].call = Nobody \/ doing[w].call \in Fetches
      BY <1>8 DEF LoginEnds, ListEnds, Inv, Serving, Posting, LoggingIn, Fetching, Idle
    <3>2. CASE LoginEnds(w)
      BY <3>1, <3>2 DEF LoginEnds, AnswerEvaluation
    <3>3. CASE ListEnds(w)
      <4>1. Closes(doing[w].call)
        BY <3>3 DEF ListEnds, AnswerEvaluation
      <4>2. doing[w].call \in Fetches
        BY <3>3 DEF ListEnds, Inv, Serving, Posting, LoggingIn, Fetching, Idle
      <4> QED BY <4>1, <4>2
    <3> QED BY <1>8, <3>2, <3>3
  <2>3. \A c \in Clicks : sent'[c] = sent[c]
    <3>1. ASSUME NEW f \in Fetches, NEW t, AnswerSession(f, t)
          PROVE  \A c \in Clicks : sent'[c] = sent[c]
      BY <1>0, <3>1, AnswerSessionWork, CallSets, Distinct
    <3>2. ASSUME NEW f \in Fetches, Closes(f)
          PROVE  \A c \in Clicks : sent'[c] = sent[c]
      BY <1>0, <3>2, ClosesWork, CallSets, Distinct
    <3> QED BY <2>2, <3>1, <3>2
  <2>4. \A v \in Workers : doing'[v] = doing[v] \/ doing'[v].step \notin {"post", "accepted"}
    <3>1. CASE doing' = [doing EXCEPT ![w] = Idle]
      BY <1>0, <3>1 DEF WorkTypes, Idle
    <3>2. CASE doing' = [doing EXCEPT ![w].step = "list"]
      BY <1>0, <3>2 DEF WorkTypes
    <3> QED BY <1>8, <3>1, <3>2 DEF LoginEnds, ListEnds
  <2> QED BY <2>1, <2>3, <2>4, QuietStep
<1>9. ASSUME NEW w \in Workers, Relogin(w)
      PROVE  Progress' /\ [Box!BoxNext]_(Box!boxVars)
  <2>1. UNCHANGED <<told, recorded, sent>>
    BY <1>9 DEF Relogin, dresVars, pageVars
  <2>2. \A v \in Workers : doing'[v] = doing[v] \/ doing'[v].step \notin {"post", "accepted"}
    BY <1>0, <1>9 DEF Relogin, WorkTypes
  <2> QED BY <2>1, <2>2, QuietStep
<1>10. ASSUME NEW f \in Fetches, AskIds(f) \/ FetchFails(f)
       PROVE  Progress' /\ [Box!BoxNext]_(Box!boxVars)
  <2>1. UNCHANGED <<told, recorded, doing>>
    BY <1>10 DEF AskIds, FetchFails, dresVars, workVars
  <2>2. sent' = sent \/ sent' = [sent EXCEPT ![f] = "waiting"]
    BY <1>10 DEF AskIds, FetchFails, workVars, Send
  <2>3. \A c \in Clicks : sent'[c] = sent[c]
    BY <1>0, <2>2, CallSets, Distinct DEF WorkTypes
  <2> QED BY <2>1, <2>3, QuietStep
<1>11. CASE Expire \/ Switch \/ UNCHANGED vars
  BY <1>1, <1>11 DEF Expire, Switch, vars, dresVars, workVars, pageVars
<1> QED
  BY <1>2, <1>3, <1>4, <1>5, <1>6, <1>7, <1>8, <1>9, <1>10, <1>11
  DEF Next, Serve, RequestEnds

\* However requests are delayed, lost, timed out or repeated by the user, every
\* click is recorded at most once, and success is shown of recorded answers
\* only: the submission path implements AnswerBox.
THEOREM DresImplementsAnswerBox == Spec => ImplementsAnswerBox
<1>1. Init => Box!BoxInit /\ Progress
  <2> SUFFICES ASSUME Init PROVE Box!BoxInit /\ Progress
    OBVIOUS
  <2>1. \A c \in Clicks : sent[c] = "no" /\ told[c] = "nothing" /\ recorded[c] = 0
    BY CallSets, Distinct DEF Init
  <2>2. \A w \in Workers : doing[w].step = "login"
    BY DEF Init
  <2> QED BY <2>1, <2>2 DEF Init, Box!BoxInit, Progress
<1> QED
  BY <1>1, InitInv, StepInv, StepUnasked, StepBox, PTL
  DEF Spec, ImplementsAnswerBox, Box!BoxSpec
==============================================================================
