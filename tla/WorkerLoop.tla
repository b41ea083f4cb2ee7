----------------------------- MODULE WorkerLoop -----------------------------
(***************************************************************************)
(* A worker of the image and video server (nginx, epoll, accept_mutex off, *)
(* multi_accept on): its connection slots, the events of one epoll_wait    *)
(* handled one after the other, timers, posted events, and the way an HTTP *)
(* connection goes from one to the other: waiting, reading a request,      *)
(* writing the response, kept alive, lingering, closed.                    *)
(*                                                                         *)
(* A handler runs to its end in one step; the kernel and the clients act   *)
(* between the steps.                                                      *)
(***************************************************************************)
EXTENDS Integers, Sequences, FiniteSets, SequencesExt, Functions

CONSTANTS
  ConnectionN,  \* slots for clients: worker_connections
  MaxClients,   \* clients that connect
  MaxPieces,    \* pieces of requests that the clients send
  MaxReads,     \* how often clients read on after a response was stuck
  MaxCloses     \* clients that close their end

ASSUME WorkerAssumption ==
  /\ ConnectionN \in Nat \ {0}
  /\ MaxClients \in Nat /\ MaxPieces \in Nat /\ MaxReads \in Nat /\ MaxCloses \in Nat

VARIABLES
  w,        \* the worker's memory; w.drain: connections still to be reused at once
  sock,     \* the kernel's side of each slot's socket
  backlog,  \* connections waiting to be accepted
  signals,  \* flags set by the master's signals and channel messages
  left      \* how often the clients may still act

vars == <<w, sock, backlog, signals, left>>

Slots == 1 .. ConnectionN
Listening == 0                \* the listening sockets in a batch

Phases == {"closed", "wait", "reading", "writing", "keepalive", "lingering"}

\* instance: the events' instance bit.  timer: one of the connection's timers is
\* set.  ready, eof: rev->ready, rev->pending_eof.  buffered: pieces in header_in.
\* pipelined: c->pipeline.  watched: wev->active.
Connection == [phase : Phases, instance : BOOLEAN, timer : BOOLEAN, ready : BOOLEAN,
               eof : BOOLEAN, buffered : 0 .. MaxPieces, pipelined : BOOLEAN,
               watched : BOOLEAN]

Event == [slot : Slots \union {Listening}, instance : BOOLEAN, in : BOOLEAN,
          hup : BOOLEAN, out : BOOLEAN]

\* edge: something happened that epoll_wait has not reported yet.  room: the
\* client's window takes more of a response.
Socket == [unread : 0 .. MaxPieces, fin : BOOLEAN, room : BOOLEAN, edge : BOOLEAN]

WorkerTypeOK ==
  /\ w \in [conn : [Slots -> Connection], free : Seq(Slots), reusable : Seq(Slots),
            posted : Seq(Slots), batch : Seq(Event), exiting : BOOLEAN,
            drain : Nat,
            stage : {"top", "batch", "accept", "drain", "posted", "idle", "gone"}]
  /\ sock \in [Slots -> Socket]
  /\ backlog \in 0 .. MaxClients
  /\ signals \subseteq {"QUIT", "TERM"}
  /\ left \in [clients : Nat, pieces : Nat, reads : Nat, closes : Nat]

(***************************************************************************)
(* Handlers take a state s = [w, sock] and return the states they may      *)
(* leave, one for each answer of the client's socket and each content of   *)
(* the request.                                                            *)
(***************************************************************************)
Found == [w |-> w, sock |-> sock]

Quiet == [unread |-> 0, fin |-> FALSE, room |-> TRUE, edge |-> FALSE]
Open(s, k) == s.w.conn[k].phase # "closed"

In(s, k, phase) == [s EXCEPT !.w.conn[k].phase = phase]
Timed(s, k, set) == [s EXCEPT !.w.conn[k].timer = set]
Ready(s, k, ready) == [s EXCEPT !.w.conn[k].ready = ready]

\* ngx_queue_remove: a slot is in a queue once.
Without(queue, k) ==
  IF k \in ToSet(queue) THEN RemoveAt(queue, CHOOSE i \in DOMAIN queue : queue[i] = k) ELSE queue

\* ngx_reusable_connection
Reusable(s, k) == [s EXCEPT !.w.reusable = <<k>> \o Without(@, k)]
NotReusable(s, k) == [s EXCEPT !.w.reusable = Without(@, k)]

\* ngx_post_event
Posted(s, k) ==
  [s EXCEPT !.w.posted = IF k \in ToSet(@) THEN @ ELSE Append(@, k)]

-----------------------------------------------------------------------------
(* Slots: ngx_get_connection, ngx_close_connection.                        *)

\* A freed slot keeps its instance bit, and is the next to be taken.
FreeSlot(instance) ==
  [phase |-> "closed", instance |-> instance, timer |-> FALSE, ready |-> FALSE, eof |-> FALSE,
   buffered |-> 0, pipelined |-> FALSE, watched |-> FALSE]

\* Variant with a plausible slip; nothing but a mutation run uses it.
ClosedStillQueued(s, k) ==
  [s EXCEPT !.w.conn[k] = FreeSlot(@.instance), !.w.free = <<k>> \o @,
            !.w.posted = Without(@, k), !.sock[k] = Quiet]

Closed(s, k) ==
  [s EXCEPT !.w.conn[k] = FreeSlot(@.instance), !.w.free = <<k>> \o @,
            !.w.reusable = Without(@, k), !.w.posted = Without(@, k),
            !.sock[k] = Quiet]

\* ngx_drain_connections: how many reusable connections to close, the one idle for
\* longest first.
ReusedAtOnce(n) == IF n < 16 THEN 1 ELSE IF n < 256 THEN n \div 8 ELSE 32

Shortage == Len(w.free) <= ConnectionN \div 16 /\ w.reusable # <<>>

\* ngx_get_connection and ngx_http_init_connection.
Taken(s) ==
  LET k == Head(s.w.free)
  IN Reusable([s EXCEPT
       !.w.free = Tail(@),
       !.w.conn[k] = [FreeSlot(~@.instance) EXCEPT !.phase = "wait", !.timer = TRUE]], k)

-----------------------------------------------------------------------------
(* Reading: ngx_unix_recv.  What there is fits into the buffer.            *)

Recv(s, k) ==
  IF ~s.w.conn[k].ready \/ (s.sock[k].unread = 0 /\ ~s.sock[k].fin) THEN "again"
  ELSE IF s.sock[k].unread > 0 THEN "data" ELSE "end"

\* All is read: ready stays set only for the end that epoll has announced.
Emptied(s, k) == [Ready(s, k, s.w.conn[k].eof) EXCEPT !.sock[k].unread = 0]
Buffered(s, k, n) == [s EXCEPT !.w.conn[k].buffered = n]
Received(s, k) == Buffered(Emptied(s, k), k, s.w.conn[k].buffered + s.sock[k].unread)

\* recv says "again" or, at the end of the client's stream, 0.
Starved(s, k) ==
  IF Recv(s, k) = "end" THEN Closed(s, k) ELSE Timed(Ready(s, k, FALSE), k, TRUE)

\* ngx_http_lingering_close_handler; it also closes when lingering_time is over.
Lingered(s, k) ==
  LET t == IF Recv(s, k) = "data" THEN Emptied(s, k) ELSE s
  IN {Closed(t, k), Starved(t, k)}

-----------------------------------------------------------------------------
(* A request from its headers to what becomes of its connection.           *)

\* Variant with a plausible slip; nothing but a mutation run uses it.
KeptAliveUnposted(s, k) ==
  IF s.w.conn[k].buffered > 0
    THEN Posted([In(s, k, "reading") EXCEPT !.w.conn[k].pipelined = TRUE], k)
    ELSE Timed(Reusable(In(s, k, "keepalive"), k), k, TRUE)

\* ngx_http_set_keepalive
KeptAlive(s, k) ==
  IF s.w.conn[k].buffered > 0
    THEN Posted([In(s, k, "reading") EXCEPT !.w.conn[k].pipelined = TRUE], k)
    ELSE LET t == Timed(Reusable(In(s, k, "keepalive"), k), k, TRUE)
         IN IF t.w.conn[k].ready THEN Posted(t, k) ELSE t

\* ngx_http_set_lingering_close
SetLingering(s, k) ==
  LET t == Timed(Reusable(In(s, k, "lingering"), k), k, TRUE)
  IN IF t.w.conn[k].ready THEN Lingered(t, k) ELSE {t}

\* ngx_http_finalize_connection, for a request that asks for keepalive or not.
Completed(s, k) ==
  LET t == Timed(s, k, FALSE)
      c == s.w.conn[k]
  IN (IF s.w.exiting \/ "TERM" \in signals THEN {} ELSE {KeptAlive(t, k)})
       \union (IF c.buffered > 0 \/ c.ready \/ c.pipelined THEN SetLingering(t, k) ELSE {Closed(t, k)})

\* The client's window is full.  The first time the socket is watched for writing,
\* epoll looks at it afresh.
Watched(s, k) ==
  LET c == s.sock[k]
      afresh == ~s.w.conn[k].watched /\ (c.unread > 0 \/ c.fin)
  IN [s EXCEPT !.w.conn[k].watched = TRUE,
               !.sock[k] = [c EXCEPT !.room = FALSE, !.edge = c.edge \/ afresh]]

\* Variant with a plausible slip; nothing but a mutation run uses it.
BlockedUntimed(s, k) == Watched(In(s, k, "writing"), k)

\* ngx_http_set_write_handler: the rest waits for the client.
Blocked(s, k) == Watched(Timed(In(s, k, "writing"), k, TRUE), k)

\* ngx_http_output_filter sends all, a part, or fails as the client is gone.
Written(s, k) ==
  {Blocked(s, k)} \union Completed(s, k) \union (IF s.sock[k].fin THEN {Closed(s, k)} ELSE {})

\* Some of the pieces at hand make up a request.
Complete(s, k) ==
  UNION {Written(Buffered(s, k, n), k) : n \in 0 .. s.w.conn[k].buffered - 1}

\* ngx_http_process_request_line and what follows.  When all pieces are taken and
\* more is wanted, the socket is read again if it is still ready.
Parsed(s, k) ==
  LET hungry == Buffered(s, k, 0)
      again == Received(hungry, k)
  IN Complete(s, k) \union
       (IF Recv(hungry, k) = "data"
          THEN Complete(again, k) \union {Starved(Buffered(again, k, 0), k)}
          ELSE {Starved(hungry, k)})

\* Variant with a plausible slip; nothing but a mutation run uses it.
WaitReadReusable(s, k) ==
  IF Recv(s, k) = "data" THEN Parsed(Received(In(s, k, "reading"), k), k)
  ELSE {Starved(s, k)}

\* ngx_http_wait_request_handler: the first request of a connection.
WaitRead(s, k) ==
  IF Recv(s, k) = "data"
    THEN UNION {Parsed(t, k) : t \in {Received(NotReusable(In(s, k, "reading"), k), k)}}
    ELSE {Starved(s, k)}

\* ngx_http_keepalive_handler: the next request; the timer it deletes is set anew
\* or not needed.
KeepaliveRead(s, k) == WaitRead(s, k)

\* ngx_http_test_reading
TestedReading(s, k) == {IF s.w.conn[k].eof THEN Closed(s, k) ELSE s}

ReadHandler(s, k) ==
  CASE s.w.conn[k].phase = "wait"      -> WaitRead(s, k)
    [] s.w.conn[k].phase = "reading"   -> Parsed(s, k)
    [] s.w.conn[k].phase = "keepalive" -> KeepaliveRead(s, k)
    [] s.w.conn[k].phase = "writing"   -> TestedReading(s, k)
    [] s.w.conn[k].phase = "lingering" -> Lingered(s, k)

\* ngx_http_writer in a request that waits to write, else an empty handler.
WriteHandler(s, k) ==
  IF s.w.conn[k].phase # "writing" THEN {s}
  ELSE IF s.sock[k].room THEN Written(s, k) ELSE {Blocked(s, k)}

\* ngx_epoll_process_events for one event.  It is stale when its slot was closed,
\* or closed and taken again, after epoll_wait.
Fresh(s, e) == Open(s, e.slot) /\ s.w.conn[e.slot].instance = e.instance

Announced(s, e) ==
  [Ready(s, e.slot, TRUE) EXCEPT !.w.conn[e.slot].eof = @ \/ e.hup]

\* The singleton: TLC works the state out once.
ReadPart(s, e) ==
  IF e.in THEN UNION {ReadHandler(t, e.slot) : t \in {Announced(s, e)}} ELSE {s}
WritePart(s, e) ==
  IF e.out /\ Fresh(s, e) /\ s.w.conn[e.slot].watched THEN WriteHandler(s, e.slot) ELSE {s}

Processed(s, e) ==
  IF Fresh(s, e) THEN UNION {WritePart(t, e) : t \in ReadPart(s, e)} ELSE {s}

-----------------------------------------------------------------------------
Init ==
  /\ w = [conn |-> [k \in Slots |-> FreeSlot(TRUE)],
          free |-> [i \in Slots |-> i], reusable |-> <<>>, posted |-> <<>>, batch |-> <<>>,
          exiting |-> FALSE, drain |-> 0, stage |-> "top"]
  /\ sock = [k \in Slots |-> Quiet]
  /\ backlog = 0 /\ signals = {}
  /\ left = [clients |-> MaxClients, pieces |-> MaxPieces, reads |-> MaxReads, closes |-> MaxCloses]

Goto(s, stage) ==
  /\ w' = [s.w EXCEPT !.stage = stage]
  /\ sock' = s.sock

\* What epoll_wait reports, in any order.  An event tells all that is there.
Reported ==
  {[slot |-> k, instance |-> w.conn[k].instance,
    in |-> sock[k].unread > 0 \/ sock[k].fin, hup |-> sock[k].fin,
    out |-> w.conn[k].watched /\ sock[k].room] : k \in {j \in Slots : sock[j].edge}}
  \union
  {[slot |-> Listening, instance |-> FALSE, in |-> TRUE, hup |-> FALSE, out |-> FALSE] :
     x \in {y \in {"listening"} : backlog > 0 /\ ~w.exiting}}

\* ngx_event_no_timers_left
NoTimersLeft == \A k \in Slots : ~w.conn[k].timer

\* The top of ngx_worker_process_cycle: while exiting, an end without timers.
Leave ==
  /\ w.stage = "top" /\ w.exiting /\ NoTimersLeft
  /\ Goto(Found, "gone") /\ UNCHANGED <<backlog, signals, left>>

\* epoll_wait returns with events, for a signal, or as a timer is due.
Wait ==
  /\ w.stage = "top" /\ ~(w.exiting /\ NoTimersLeft)
  /\ Reported # {} \/ signals # {} \/ ~NoTimersLeft
  /\ \E batch \in SetToSeqs(Reported) :
       Goto([w |-> [w EXCEPT !.batch = batch],
             sock |-> [k \in Slots |-> [sock[k] EXCEPT !.edge = FALSE]]], "batch")
  /\ UNCHANGED <<backlog, signals, left>>

Rested == [Found EXCEPT !.w.batch = Tail(@)]

HandleEvent ==
  /\ w.stage = "batch" /\ w.batch # <<>>
  /\ IF Head(w.batch).slot = Listening
       THEN Goto(Rested, "accept")
       ELSE \E s \in Processed(Rested, Head(w.batch)) : Goto(s, "batch")
  /\ UNCHANGED <<backlog, signals, left>>

\* One passage of the loop of ngx_event_accept.  Without a free slot it gives up and
\* closes the connection it has accepted.
Seat(s) == IF s.w.free = <<>> THEN Goto(s, "batch") ELSE Goto(Taken(s), "accept")

Accept ==
  /\ w.stage = "accept" /\ backlog > 0
  /\ backlog' = backlog - 1
  /\ IF Shortage
       THEN Goto([Found EXCEPT !.w.drain = ReusedAtOnce(Len(w.reusable))], "drain")
       ELSE Seat(Found)
  /\ UNCHANGED <<signals, left>>

\* ngx_drain_connections closes one of them.
Drain ==
  /\ w.stage = "drain"
  /\ \E s \in {[Closed(Found, Last(w.reusable)) EXCEPT !.w.drain = @ - 1]} :
       IF s.w.drain > 0 /\ s.w.reusable # <<>> THEN Goto(s, "drain") ELSE Seat(s)
  /\ UNCHANGED <<backlog, signals, left>>

AcceptDone ==
  /\ w.stage = "accept" /\ backlog = 0 /\ Goto(Found, "batch")
  /\ UNCHANGED <<backlog, signals, left>>

\* Variant with a plausible slip; nothing but a mutation run uses it.
ExpireAndWriteOn(k) ==
  /\ w.stage = "batch" /\ w.batch = <<>> /\ w.conn[k].timer
  /\ Goto(IF w.conn[k].phase = "writing" THEN Found ELSE Closed(Found, k), "batch")
  /\ UNCHANGED <<backlog, signals, left>>

\* ngx_event_expire_timers, after the events: every handler of a timed out event
\* closes.
Expire(k) ==
  /\ w.stage = "batch" /\ w.batch = <<>> /\ w.conn[k].timer
  /\ Goto(Closed(Found, k), "batch")
  /\ UNCHANGED <<backlog, signals, left>>

TimersDone ==
  /\ w.stage = "batch" /\ w.batch = <<>> /\ Goto(Found, "posted")
  /\ UNCHANGED <<backlog, signals, left>>

\* ngx_event_process_posted
HandlePosted ==
  /\ w.stage = "posted" /\ w.posted # <<>>
  /\ \E s \in ReadHandler([Found EXCEPT !.w.posted = Tail(@)], Head(w.posted)) : Goto(s, "posted")
  /\ UNCHANGED <<backlog, signals, left>>

\* The end of the loop: ngx_terminate, ngx_quit.
LoopEnds ==
  /\ w.stage = "posted" /\ w.posted = <<>>
  /\ CASE "TERM" \in signals -> Goto(Found, "gone") /\ UNCHANGED signals
       [] "QUIT" \in signals /\ "TERM" \notin signals ->
            /\ IF w.exiting THEN Goto(Found, "top")
                            ELSE Goto([Found EXCEPT !.w.exiting = TRUE], "idle")
            /\ signals' = signals \ {"QUIT"}
       [] OTHER -> Goto(Found, "top") /\ UNCHANGED signals
  /\ UNCHANGED <<backlog, left>>

\* ngx_close_idle_connections, from the first slot to the last.
KeptIdle == {k \in Slots : w.conn[k].phase = "keepalive"}

CloseIdle ==
  /\ w.stage = "idle"
  /\ IF KeptIdle = {} THEN Goto(Found, "top")
     ELSE Goto(Closed(Found, CHOOSE k \in KeptIdle : \A j \in KeptIdle : k <= j), "idle")
  /\ UNCHANGED <<backlog, signals, left>>

Worker ==
  \/ Leave \/ Wait \/ HandleEvent \/ Accept \/ Drain \/ AcceptDone
  \/ TimersDone \/ HandlePosted \/ LoopEnds \/ CloseIdle

-----------------------------------------------------------------------------
(* The clients and the master.  What a client sends before it is accepted  *)
(* shows as if it were sent right after.                                   *)

\* ngx_signal_worker_processes tells a worker once to quit.
Told(sig) ==
  /\ w.stage # "gone" /\ sig \notin signals /\ (sig = "QUIT" => ~w.exiting)
  /\ signals' = signals \union {sig}
  /\ UNCHANGED <<w, sock, backlog, left>>

Connect ==
  /\ w.stage # "gone" /\ left.clients > 0
  /\ backlog' = backlog + 1
  /\ left' = [left EXCEPT !.clients = @ - 1]
  /\ UNCHANGED <<w, sock, signals>>

SendPiece(k) ==
  /\ w.stage # "gone" /\ Open(Found, k) /\ ~sock[k].fin /\ left.pieces > 0
  /\ sock' = [sock EXCEPT ![k].unread = sock[k].unread + 1, ![k].edge = TRUE]
  /\ left' = [left EXCEPT !.pieces = @ - 1]
  /\ UNCHANGED <<w, backlog, signals>>

CloseEnd(k) ==
  /\ w.stage # "gone" /\ Open(Found, k) /\ ~sock[k].fin /\ left.closes > 0
  /\ sock' = [sock EXCEPT ![k].fin = TRUE, ![k].edge = TRUE]
  /\ left' = [left EXCEPT !.closes = @ - 1]
  /\ UNCHANGED <<w, backlog, signals>>

ReadMore(k) ==
  /\ w.stage # "gone" /\ ~sock[k].room /\ left.reads > 0
  /\ sock' = [sock EXCEPT ![k].room = TRUE, ![k].edge = TRUE]
  /\ left' = [left EXCEPT !.reads = @ - 1]
  /\ UNCHANGED <<w, backlog, signals>>

Next ==
  \/ Worker \/ Connect
  \/ \E sig \in {"QUIT", "TERM"} : Told(sig)
  \/ \E k \in Slots : Expire(k) \/ SendPiece(k) \/ CloseEnd(k) \/ ReadMore(k)

\* A timer is set anew only as its client does something, so in the end it is due.
Spec == Init /\ [][Next]_vars /\ WF_vars(Worker) /\ \A k \in Slots : SF_vars(Expire(k))

-----------------------------------------------------------------------------
Busy == {k \in Slots : w.conn[k].phase \in {"reading", "writing"}}
Idle == {k \in Slots : w.conn[k].phase \in {"wait", "keepalive", "lingering"}}

\* The free list holds every closed slot once, the queue of reusable connections
\* every connection without a request once, and what is posted has something to read
\* (ngx_get_connection, ngx_reusable_connection, ngx_close_connection).
PoolConsistent ==
  /\ WorkerTypeOK
  /\ IsInjective(w.free) /\ ToSet(w.free) = {k \in Slots : ~Open(Found, k)}
  /\ IsInjective(w.reusable) /\ ToSet(w.reusable) = Idle
  /\ \A k \in ToSet(w.posted) : w.conn[k].buffered > 0 \/ w.conn[k].ready

\* Whoever waits in epoll_wait is watched by a timer, so a worker that leaves
\* gracefully leaves no socket open: the alert of ngx_worker_process_exit, "open
\* socket left in connection", is never written.
NothingLeftOpen ==
  /\ w.stage = "top" => \A k \in Slots : Open(Found, k) => w.conn[k].timer
  /\ (w.stage = "gone" /\ "TERM" \notin signals) => \A k \in Slots : ~Open(Found, k)

\* Edge-triggered: what a client has sent, or its end of the stream, is either
\* still to be reported or, while a response waits to be written, remembered in
\* ready for what reads next (ngx_unix_recv, ngx_http_set_keepalive).
NoLostEvent ==
  w.stage = "top" =>
    \A k \in Slots : (sock[k].unread > 0 \/ sock[k].fin) =>
      sock[k].edge \/ (w.conn[k].phase = "writing" /\ w.conn[k].ready)

\* A connection with a request is touched by its own event, timer or posted event
\* only: not by a shortage of slots, nor by ngx_quit.  A new client is turned away
\* only when every slot has a request (ngx_drain_connections).
OwnTurn(k) ==
  \/ w.stage = "batch" /\ w.batch # <<>> /\ Head(w.batch).slot = k
  \/ w.stage = "batch" /\ w.batch = <<>> /\ w.conn[k].timer
  \/ w.stage = "posted" /\ Head(w.posted) = k

BusyKept ==
  [][/\ \A k \in Busy : w'.conn[k] # w.conn[k] => OwnTurn(k)
     /\ ((backlog' < backlog \/ w.stage = "drain") /\ w'.stage = "batch") => Busy = Slots]_vars

\* After ngx_quit the worker ends, whatever its clients do.
QuitEnds == "QUIT" \in signals ~> w.stage = "gone"

=============================================================================
