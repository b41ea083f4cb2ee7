----------------------------- MODULE DresSession -----------------------------
(***************************************************************************)
(* Submitting to the DRES evaluation server: the page (submitHandler.js),  *)
(* the hub (hub_handler.py), the worker processes of the submission        *)
(* service (submission_handler.py), each with a login of its own, and the  *)
(* server itself, which the code only sees through its answers.            *)
(*                                                                         *)
(* A worker's handlers call `requests` without a timeout and without       *)
(* awaiting, to log in, to list the evaluations and to submit: a worker    *)
(* serves one call of the hub at a time and is stuck for as long as the    *)
(* server is silent.  The hub stops waiting after REQUEST_TIMEOUT, but the *)
(* call stays with its worker.                                             *)
(*                                                                         *)
(* Bounds: the sets of clicks and fetches, and MaxSession logins.          *)
(***************************************************************************)
EXTENDS Integers

CONSTANTS
  Workers,      \* worker processes of the submission service (SUBMISSION_MAX_WORKERS)
  Clicks,       \* presses of "Submit to DRES"
  Fetches,      \* requests for the session and evaluation ids
  InitFetch,    \* the one the page makes when it loads
  Evaluations,  \* evaluations of the server
  MaxSession,   \* bound on logins; sessions are numbered in order of login
  Nobody        \* no worker, no call, no evaluation

ASSUME DresAssumption ==
  /\ InitFetch \in Fetches
  /\ MaxSession \in Nat
  /\ Clicks \cap Fetches = {}
  /\ Nobody \notin Workers \cup Clicks \cup Fetches \cup Evaluations

NoSession == 0

\* What the hub asks of the workers; a fetch makes two calls, one after the other.
Calls == Clicks \cup Fetches

VARIABLES
  logins,    \* sessions the server has given out
  valid,     \* those still valid
  active,    \* the evaluation in progress, or Nobody
  recorded,  \* recorded[c]: how often the server has recorded c's answer
  cached,    \* cached[w]: self.session_id of worker w
  doing,     \* doing[w]: the call w serves, and the request it is blocked in
  sent,      \* sent[x]: where call x stands with its worker
  worker,    \* worker[x]: the process that accepts the connection of x, while it is open
  page,      \* the id fields, and the fetch each was filled from
  fetch,     \* fetch[f]: where the hub stands with f, and the session it has got
  form,      \* form[c]: the ids in the form when c was clicked
  told       \* told[c]: what the page has said of c

dresVars == <<logins, valid, active, recorded>>
workVars == <<cached, doing, sent, worker>>
pageVars == <<page, fetch, form, told>>
vars == <<dresVars, workVars, pageVars>>

Blank == [session |-> NoSession, evaluation |-> Nobody,
          sessionFrom |-> Nobody, evaluationFrom |-> Nobody]

NoIds == [session |-> NoSession, evaluation |-> Nobody]

Idle == [call |-> Nobody, step |-> "idle"]
------------------------------------------------------------------------------
(***************************************************************************)
(* The server.                                                             *)
(***************************************************************************)

\* A session ends: logout elsewhere, expiry, or a restart of the server.
Expire ==
  /\ \E s \in valid : valid' = valid \ {s}
  /\ UNCHANGED <<logins, active, recorded, workVars, pageVars>>

\* Evaluations start and end.
Switch ==
  /\ active' \in Evaluations \cup {Nobody}
  /\ UNCHANGED <<logins, valid, recorded, workVars, pageVars>>

\* The server takes the answer w submits if its session and evaluation are good.
ServerTakes(w) ==
  LET c == doing[w].call
      good == form[c].session \in valid /\ form[c].evaluation = active
  IN
  /\ doing[w].step = "post"
  /\ \/ /\ good
        /\ recorded' = [recorded EXCEPT ![c] = @ + 1]
        /\ doing' = [doing EXCEPT ![w].step = "accepted"]
     \/ /\ ~good
        /\ doing' = [doing EXCEPT ![w].step = "refused"]
        /\ UNCHANGED recorded
  /\ UNCHANGED <<logins, valid, active, cached, sent, worker, pageVars>>
------------------------------------------------------------------------------
(***************************************************************************)
(* What the hub and the page make of a worker's answers.                   *)
(***************************************************************************)

\* The last answer on a connection.
Closes(x) ==
  /\ sent' = [sent EXCEPT ![x] = "over"]
  /\ worker' = [worker EXCEPT ![x] = Nobody]

\* Variant with a plausible slip; nothing but a mutation run uses it.
AnswerSessionAnew(f, s) ==
  LET goesOn == s # NoSession /\ fetch[f].stage = "session" IN
  /\ fetch' = [fetch EXCEPT ![f] =
       IF goesOn THEN [stage |-> "evaluation", session |-> s]
       ELSE [stage |-> "over", session |-> NoSession]]
  /\ sent' = [sent EXCEPT ![f] = IF goesOn THEN "waiting" ELSE "over"]
  /\ \E w \in Workers : worker' = [worker EXCEPT ![f] = IF goesOn THEN w ELSE Nobody]
  /\ UNCHANGED page

\* get_session_id answers f with session s, or an error if there is none.  If
\* the hub still waits it asks for the evaluation, over the same connection and
\* so at the same worker.
AnswerSession(f, s) ==
  LET goesOn == s # NoSession /\ fetch[f].stage = "session" IN
  /\ fetch' = [fetch EXCEPT ![f] =
       IF goesOn THEN [stage |-> "evaluation", session |-> s]
       ELSE [stage |-> "over", session |-> NoSession]]
  /\ sent' = [sent EXCEPT ![f] = IF goesOn THEN "waiting" ELSE "over"]
  /\ worker' = [worker EXCEPT ![f] = IF goesOn THEN @ ELSE Nobody]
  /\ UNCHANGED page

\* Variant with a plausible slip; nothing but a mutation run uses it.
FillSessionIfEmpty(f, e) ==
  IF f = InitFetch /\ page.session # NoSession
    THEN [page EXCEPT !.evaluation = e, !.evaluationFrom = f]
    ELSE [session |-> fetch[f].session, evaluation |-> e,
          sessionFrom |-> f, evaluationFrom |-> f]

\* The fetch made on loading fills only empty fields, each for itself; the
\* button's overwrites both.
Fill(f, e) ==
  IF f # InitFetch
    THEN [session |-> fetch[f].session, evaluation |-> e,
          sessionFrom |-> f, evaluationFrom |-> f]
    ELSE [session |-> IF page.session = NoSession THEN fetch[f].session ELSE page.session,
          sessionFrom |-> IF page.session = NoSession THEN f ELSE page.sessionFrom,
          evaluation |-> IF page.evaluation = Nobody THEN e ELSE page.evaluation,
          evaluationFrom |-> IF page.evaluation = Nobody THEN f ELSE page.evaluationFrom]

\* get_eval_id answers f with the active evaluation e, or an error if there is
\* none; if the hub still waits, the page gets both ids.
AnswerEvaluation(f, e) ==
  /\ page' = IF e # Nobody /\ fetch[f].stage = "evaluation" THEN Fill(f, e) ELSE page
  /\ fetch' = [fetch EXCEPT ![f] = [stage |-> "over", session |-> NoSession]]
  /\ Closes(f)

\* submit_handler answers c; r is what the page says if the hub still waits.
AnswerSubmission(w, c, r) ==
  /\ doing' = [doing EXCEPT ![w] = Idle]
  /\ Closes(c)
  /\ told' = [told EXCEPT ![c] = IF @ = "nothing" THEN r ELSE @]
  /\ UNCHANGED <<dresVars, cached, page, fetch, form>>
------------------------------------------------------------------------------
(***************************************************************************)
(* The workers.  A free worker takes up one of the calls whose connections *)
(* it has, in the order its event loop finds them.                         *)
(***************************************************************************)
AsksSession(f) == fetch[f].session = NoSession

Takes(w, x) == doing[w] = Idle /\ sent[x] = "waiting" /\ worker[x] = w

\* w goes into a request for x and is blocked until it ends.
Enters(w, x, step) ==
  /\ doing' = [doing EXCEPT ![w] = [call |-> x, step |-> step]]
  /\ sent' = [sent EXCEPT ![x] = "served"]
  /\ UNCHANGED <<dresVars, cached, worker, pageVars>>

\* submit_handler.
StartPost(w, c) == Takes(w, c) /\ Enters(w, c, "post")

\* Both id handlers log in first when the worker has no session.
StartLogin(w, f) == Takes(w, f) /\ cached[w] = NoSession /\ Enters(w, f, "login")

\* get_session_id with a cached session, which is never questioned.
AnswerCached(w, f) ==
  /\ Takes(w, f) /\ AsksSession(f) /\ cached[w] # NoSession
  /\ AnswerSession(f, cached[w])
  /\ UNCHANGED <<dresVars, cached, doing, form, told>>

\* get_eval_id with a cached session.
StartList(w, f) ==
  /\ Takes(w, f) /\ ~AsksSession(f) /\ cached[w] # NoSession
  /\ Enters(w, f, "list")

Serve(w) ==
  \/ \E c \in Clicks : StartPost(w, c)
  \/ \E f \in Fetches : StartLogin(w, f) \/ AnswerCached(w, f) \/ StartList(w, f)

\* A relogin request, which only an operator sends.
Relogin(w) ==
  /\ doing[w] = Idle
  /\ doing' = [doing EXCEPT ![w] = [call |-> Nobody, step |-> "login"]]
  /\ UNCHANGED <<dresVars, cached, sent, worker, pageVars>>

\* Variant with a plausible slip; nothing but a mutation run uses it.
LoginTriedAgain(w) ==
  /\ logins < MaxSession
  /\ logins' = logins + 1
  /\ valid' = valid \cup {logins + 1}
  /\ cached' = [cached EXCEPT ![w] = logins + 1]

\* The login request ends: a new session, which the answer may fail to bring,
\* or none if the server refuses or cannot be reached.
LoginResult(w) ==
  \/ /\ logins < MaxSession
     /\ logins' = logins + 1
     /\ valid' = valid \cup {logins + 1}
     /\ \E s \in {NoSession, logins + 1} : cached' = [cached EXCEPT ![w] = s]
  \/ /\ cached' = [cached EXCEPT ![w] = NoSession]
     /\ UNCHANGED <<logins, valid>>

\* _login returns: at startup or after relogin nobody waits; a session call is
\* answered; an evaluation call fails or goes on to the list.
LoginEnds(w) ==
  LET f == doing[w].call IN
  /\ doing[w].step = "login"
  /\ LoginResult(w)
  /\ \/ /\ f = Nobody
        /\ doing' = [doing EXCEPT ![w] = Idle]
        /\ UNCHANGED <<sent, worker, page, fetch>>
     \/ /\ f # Nobody /\ AsksSession(f)
        /\ AnswerSession(f, cached'[w])
        /\ doing' = [doing EXCEPT ![w] = Idle]
     \/ /\ f # Nobody /\ ~AsksSession(f) /\ cached'[w] = NoSession
        /\ AnswerEvaluation(f, Nobody)
        /\ doing' = [doing EXCEPT ![w] = Idle]
     \/ /\ f # Nobody /\ ~AsksSession(f) /\ cached'[w] # NoSession
        /\ doing' = [doing EXCEPT ![w].step = "list"]
        /\ UNCHANGED <<sent, worker, page, fetch>>
  /\ UNCHANGED <<active, recorded, form, told>>

\* The request for the list ends: the active evaluation, or an error if the
\* worker's session is no longer good, none is active, or the answer is lost.
ListEnds(w) ==
  /\ doing[w].step = "list"
  /\ \E e \in {Nobody} \cup (IF cached[w] \in valid THEN {active} ELSE {}) :
       AnswerEvaluation(doing[w].call, e)
  /\ doing' = [doing EXCEPT ![w] = Idle]
  /\ UNCHANGED <<dresVars, cached, form, told>>

\* Variant with a plausible slip; nothing but a mutation run uses it.
PostReturnsAlways(w) ==
  /\ doing[w].step \in {"accepted", "refused"}
  /\ AnswerSubmission(w, doing[w].call, "success")

\* The server's reply to a submission arrives.  "refused" is a status other than
\* 200, which is raised, or a 200 whose result is not a recorded answer: the page
\* shows both as an error.
PostReturns(w) ==
  \/ doing[w].step = "accepted" /\ AnswerSubmission(w, doing[w].call, "success")
  \/ doing[w].step = "refused" /\ AnswerSubmission(w, doing[w].call, "failure")

\* The connection to the server breaks, before or after it took the answer.
PostFails(w) ==
  /\ doing[w].step \in {"post", "accepted", "refused"}
  /\ AnswerSubmission(w, doing[w].call, "failure")

\* The request w is blocked in comes to its end.
RequestEnds(w) == LoginEnds(w) \/ ListEnds(w) \/ PostReturns(w) \/ PostFails(w)
------------------------------------------------------------------------------
(***************************************************************************)
(* The hub and the page.                                                   *)
(***************************************************************************)

\* The hub opens a connection; the worker that has it, or will have it, may be
\* blocked at the moment.
Send(x) ==
  /\ sent' = [sent EXCEPT ![x] = "waiting"]
  /\ \E w \in Workers : worker' = [worker EXCEPT ![x] = w]

\* The click handler refuses empty fields.
Click(c) ==
  /\ sent[c] = "no"
  /\ page.session # NoSession /\ page.evaluation # Nobody
  /\ form' = [form EXCEPT ![c] = [session |-> page.session, evaluation |-> page.evaluation]]
  /\ Send(c)
  /\ UNCHANGED <<dresVars, cached, doing, page, fetch, told>>

\* REQUEST_TIMEOUT: the hub gives up and the page is told of a failure, while
\* the call stays with its worker.
HubTimeout(c) ==
  /\ sent[c] # "no" /\ told[c] = "nothing"
  /\ told' = [told EXCEPT ![c] = "failure"]
  /\ UNCHANGED <<dresVars, workVars, page, fetch, form>>

\* "Get IDs": the hub asks for a session first.
AskIds(f) ==
  /\ fetch[f].stage = "idle"
  /\ fetch' = [fetch EXCEPT ![f].stage = "session"]
  /\ Send(f)
  /\ UNCHANGED <<dresVars, cached, doing, page, form, told>>

\* A worker does not answer in time, or the connection breaks: the hub's answer
\* is an error, while the call stays with its worker.
FetchFails(f) ==
  /\ fetch[f].stage \in {"session", "evaluation"}
  /\ fetch' = [fetch EXCEPT ![f].stage = "over"]
  /\ UNCHANGED <<dresVars, workVars, page, form, told>>
------------------------------------------------------------------------------
\* Every worker logs in when it starts; the page asks for ids.
Init ==
  /\ logins = 0 /\ valid = {} /\ active \in Evaluations \cup {Nobody}
  /\ recorded = [c \in Clicks |-> 0]
  /\ cached = [w \in Workers |-> NoSession]
  /\ doing = [w \in Workers |-> [call |-> Nobody, step |-> "login"]]
  /\ sent = [x \in Calls |-> IF x = InitFetch THEN "waiting" ELSE "no"]
  /\ \E w \in Workers : worker = [x \in Calls |-> IF x = InitFetch THEN w ELSE Nobody]
  /\ page = Blank
  /\ fetch = [f \in Fetches |-> [stage |-> IF f = InitFetch THEN "session" ELSE "idle",
                                 session |-> NoSession]]
  /\ form = [c \in Clicks |-> NoIds]
  /\ told = [c \in Clicks |-> "nothing"]

Next ==
  \/ Expire
  \/ Switch
  \/ \E w \in Workers : Serve(w) \/ Relogin(w) \/ ServerTakes(w) \/ RequestEnds(w)
  \/ \E c \in Clicks : Click(c) \/ HubTimeout(c)
  \/ \E f \in Fetches : AskIds(f) \/ FetchFails(f)

\* A worker that is free again and again takes up a call that waits: its event
\* loop does not starve connections.  Nothing is assumed of the server.
Fairness == \A w \in Workers : SF_vars(Serve(w))

Spec == Init /\ [][Next]_vars /\ Fairness
------------------------------------------------------------------------------
(***************************************************************************)
(* Properties.                                                             *)
(***************************************************************************)
DresTypeOK ==
  /\ logins \in 0 .. MaxSession /\ valid \subseteq 1 .. logins
  /\ active \in Evaluations \cup {Nobody}
  /\ recorded \in [Clicks -> Nat]
  /\ cached \in [Workers -> 0 .. logins]
  /\ doing \in [Workers -> [call : Calls \cup {Nobody},
                            step : {"idle", "login", "list", "post", "accepted", "refused"}]]
  /\ sent \in [Calls -> {"no", "waiting", "served", "over"}]
  /\ worker \in [Calls -> Workers \cup {Nobody}]
  /\ page \in {Blank} \cup [session : 1 .. logins, evaluation : Evaluations,
                             sessionFrom : Fetches, evaluationFrom : Fetches]
  /\ fetch \in [Fetches -> [stage : {"idle", "session", "evaluation", "over"},
                            session : 0 .. logins]]
  /\ form \in [Clicks -> [session : 0 .. logins, evaluation : Evaluations \cup {Nobody}]]
  /\ told \in [Clicks -> {"nothing", "success", "failure"}]

\* The two ids in the form come from the same answer of the hub, whatever the
\* order in which the fetch on loading and those of the button are answered:
\* fetchAndFillIDs tests each field for itself.
PairFromOneFetch == DresTypeOK /\ page.sessionFrom = page.evaluationFrom

\* A worker hands its cached session out unquestioned, but a session that has
\* ended does not reach the form: the evaluation is listed with the session just
\* handed out, and the list is refused if that has ended.  The exception is a
\* worker logged in again between its two answers, which lists with a later one.
SessionCheckedByList ==
  [][\A f \in Fetches :
       page.sessionFrom # f /\ page'.sessionFrom = f =>
         page'.session \in valid \/ page'.session < cached[worker[f]]]_vars

\* However many logins, lists and calls the hub has given up are ahead of it, a
\* submission is served and the page told of it, provided that the server or the
\* network ends every request in the end; the code has no timeout of its own.
ServedIfServerAnswers ==
  (\A w \in Workers : WF_vars(RequestEnds(w))) =>
    \A c \in Clicks : sent[c] # "no" ~> sent[c] = "over" /\ told[c] # "nothing"

\* Timeouts, broken connections, late answers and clicks repeated after a
\* failure notwithstanding, each click is recorded at most once and success is
\* shown only of recorded answers.
Box == INSTANCE AnswerBox WITH
         pressed <- {c \in Clicks : sent[c] # "no"}

ImplementsAnswerBox == Box!BoxSpec
==============================================================================
