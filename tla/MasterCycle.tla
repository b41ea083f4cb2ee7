----------------------------- MODULE MasterCycle -----------------------------
(***************************************************************************)
(* The master process of the image and video server (nginx, daemon mode,   *)
(* no cache processes): ngx_master_process_cycle with its table of         *)
(* children, and the workers as far as their master sees them.             *)
(*                                                                         *)
(* Signals are blocked in the master except in sigsuspend, so one passage  *)
(* of its loop is one step, Wake.  Workers, the timer and whoever sends    *)
(* signals run beside it.                                                  *)
(*                                                                         *)
(* A process is named by its slot in the table: a slot is taken again only *)
(* when its last process was waited for (ChildrenAreKnown).                *)
(***************************************************************************)
EXTENDS Integers, Sequences, FiniteSets

CONSTANTS
  Workers,      \* worker_processes
  MaxSlots,     \* slots of the table: NGX_MAX_PROCESSES
  Operators,    \* the signals an operator may send to the master
  MaxSignals,   \* how many of them are sent
  MaxFaults     \* workers that die by themselves, forks and readings of the
                \* configuration that fail

ASSUME MasterAssumption ==
  /\ Workers \in Nat \ {0}
  /\ MaxSlots \in Nat /\ MaxSignals \in Nat /\ MaxFaults \in Nat
  /\ Operators \subseteq {"HUP", "USR1", "USR2", "WINCH", "QUIT", "TERM"}

VARIABLES
  m,        \* the master's memory: ngx_processes and the loop's variables
  os,       \* the processes, by slot
  pending,  \* signals pending for the master
  alarm,    \* the interval timer is running
  left      \* how often the environment may still act

vars == <<m, os, pending, alarm, left>>

Slots == 1 .. MaxSlots
None == 0
Failed == -1                  \* NGX_INVALID_PID
Alive == {"serving", "draining", "binary"}
Signals == Operators \union {"CHLD", "ALRM", "IO"}
Flags == {"reap", "sigalrm", "terminate", "quit", "reconfigure", "reopen",
          "change_binary", "noaccept", "noaccepting", "restart"}

\* used: pid # -1
Process == [used : BOOLEAN, exited : BOOLEAN, exiting : BOOLEAN,
            respawn : BOOLEAN, just : BOOLEAN, detached : BOOLEAN]

\* The delays of the termination cycle.  All above 1000 ms act alike, so
\* doubling stops at the first of them.
Delays == {0, 50, 100, 200, 400, 800, 1600}
Doubled(d) == IF d > 1000 THEN d ELSE 2 * d

MasterTypeOK ==
  /\ m \in [procs : Seq(Process), flags : SUBSET Flags, running : BOOLEAN,
            live : BOOLEAN, delay : Delays, sigio : 0 .. Workers + 2,
            newBinary : Slots \union {None, Failed}, cycle : Nat,
            past : SUBSET {"upgrade", "rollback", "unforked"}]
  /\ os \in [Slots -> [life : Alive \union {"none", "dying", "zombie"}, code : {0, 1, 2},
                      cycle : Nat, inbox : SUBSET {"QUIT", "TERM", "REOPEN"}]]
  /\ pending \subseteq Signals
  /\ alarm \in BOOLEAN
  /\ left \in [signals : Nat, faults : Nat]

(***************************************************************************)
(* The stages of the loop work on the state they find: a record of the     *)
(* master's memory, the processes, the pending signals and the faults that *)
(* may still happen.                                                       *)
(***************************************************************************)
Found == [m |-> m, os |-> os, pending |-> pending, faults |-> left.faults]

Nobody == [life |-> "none", code |-> 0, cycle |-> 0, inbox |-> {}]
Has(s, flag) == flag \in s.m.flags
Set(s, flag) == [s EXCEPT !.m.flags = @ \union {flag}]
Clear(s, flag) == [s EXCEPT !.m.flags = @ \ {flag}]

-----------------------------------------------------------------------------
(* Spawning.                                                               *)

Least(n, S) == {x \in S : Cardinality({y \in S : y <= x}) <= n}

\* A child inherits its master's flags: of those a worker looks at, only
\* ngx_reopen can be set when one is forked.
Child(s, life) ==
  [life |-> life, code |-> 0, cycle |-> s.m.cycle,
   inbox |-> IF Has(s, "reopen") THEN {"REOPEN"} ELSE {}]

Forked(s, slots, life) ==
  [s EXCEPT !.os = [i \in Slots |-> IF i \in slots THEN Child(s, life) ELSE s.os[i]]]

\* What ngx_spawn_process writes to a slot it takes, by the kind of process.
Entry(respawn, just, detached) ==
  [used |-> TRUE, exited |-> FALSE, exiting |-> FALSE,
   respawn |-> respawn, just |-> just, detached |-> detached]

RESPAWN == Entry(TRUE, FALSE, FALSE)
JUST_RESPAWN == Entry(TRUE, TRUE, FALSE)
DETACHED == Entry(FALSE, FALSE, TRUE)

\* The slots that are free, or behind the last one.
Room(s) == {i \in Slots : i \in DOMAIN s.m.procs => ~s.m.procs[i].used}

\* n processes, each in the first free slot.
FreeSlots(s, n) == Least(n, Room(s))

Spawned(s, n, entry, life) ==
  LET slots == FreeSlots(s, n)
  IN [Forked(s, slots, life) EXCEPT
        !.m.procs = [i \in DOMAIN @ \union slots |-> IF i \in slots THEN entry ELSE @[i]]]

\* n processes that were not spawned, by so many faults.
Unforked(s, n, faults) ==
  IF n = 0 THEN s ELSE [s EXCEPT !.faults = @ - faults, !.m.past = @ \union {"unforked"}]

\* ngx_start_worker_processes.  A fork that fails leaves its slot to the next; when
\* the table is full, "no more than %d processes can be spawned".
StartWorkers(s, entry) ==
  LET room == Cardinality(Room(s))
      faults(n) == IF n = room THEN 0 ELSE Workers - n
  IN {Unforked(Spawned(s, n, entry, "serving"), Workers - n, faults(n)) :
        n \in {k \in 0 .. Workers : k <= room /\ faults(k) <= s.faults}}

-----------------------------------------------------------------------------
(* Telling the workers: ngx_signal_worker_processes.  A message through    *)
(* the channel and a signal set the same flag of the worker.               *)

\* The loop over the table passes over detached processes and free slots, over
\* new workers once, and over those that were told to quit before.
Passed(e) == e.detached \/ ~e.used
Told(e, signo) == ~Passed(e) /\ ~e.just /\ ~(e.exiting /\ signo = "QUIT")

\* kill says ESRCH: the process is gone and its respawn has failed.
Lost(s, i) == s.os[i].life = "none"

\* Variant with a plausible slip; nothing but a mutation run uses it.
MarkedJustForGood(s, i, signo) ==
  LET e == s.m.procs[i]
  IN CASE Told(e, signo) /\ Lost(s, i)   -> [e EXCEPT !.exited = TRUE, !.exiting = FALSE]
       [] Told(e, signo) /\ ~Lost(s, i) /\ signo # "REOPEN" -> [e EXCEPT !.exiting = TRUE]
       [] OTHER                          -> e

\* Variant with a plausible slip; nothing but a mutation run uses it.
MarkedByKillOnly(s, i, signo) ==
  LET e == s.m.procs[i]
  IN CASE ~Passed(e) /\ e.just           -> [e EXCEPT !.just = FALSE]
       [] Told(e, signo) /\ Lost(s, i)   -> [e EXCEPT !.exited = TRUE, !.exiting = FALSE]
       [] Told(e, signo) /\ ~Lost(s, i) /\ signo = "KILL" -> [e EXCEPT !.exiting = TRUE]
       [] OTHER                          -> e

Marked(s, i, signo) ==
  LET e == s.m.procs[i]
  IN CASE ~Passed(e) /\ e.just           -> [e EXCEPT !.just = FALSE]
       [] Told(e, signo) /\ Lost(s, i)   -> [e EXCEPT !.exited = TRUE, !.exiting = FALSE]
       [] Told(e, signo) /\ ~Lost(s, i) /\ signo # "REOPEN" -> [e EXCEPT !.exiting = TRUE]
       [] OTHER                          -> e

Reached(p, signo) ==
  IF p.life \notin Alive THEN p
  ELSE IF signo = "KILL" THEN [p EXCEPT !.life = "dying", !.code = 1, !.inbox = {}]
  ELSE [p EXCEPT !.inbox = @ \union {signo}]

Signalled(s, signo) ==
  LET told == {i \in DOMAIN s.m.procs : Told(s.m.procs[i], signo)}
  IN [s EXCEPT
        !.m.procs = [i \in DOMAIN @ |-> Marked(s, i, signo)],
        !.m.flags = IF \E i \in told : Lost(s, i) THEN @ \union {"reap"} ELSE @,
        !.os = [i \in Slots |-> IF i \in told THEN Reached(@[i], signo) ELSE @[i]],
        !.pending = IF signo = "KILL" /\ \E i \in told : s.os[i].life \in Alive
                      THEN @ \union {"IO"} ELSE @]

-----------------------------------------------------------------------------
(* The signal handlers, run inside sigsuspend.                             *)

FlagOf(s, sig) ==
  CASE sig = "QUIT"  -> {"quit"}
    [] sig = "TERM"  -> {"terminate"}
    [] sig = "HUP"   -> {"reconfigure"}
    [] sig = "USR1"  -> {"reopen"}
    [] sig = "WINCH" -> {"noaccept"}
    [] sig = "USR2"  -> IF s.m.newBinary > 0 THEN {} ELSE {"change_binary"}
    [] sig = "CHLD"  -> {"reap"}
    [] sig = "ALRM"  -> {"sigalrm"}
    [] sig = "IO"    -> {}

\* A worker that failed to initialise (code 2) is not to be respawned.
Waited(e, code) == [e EXCEPT !.exited = TRUE, !.respawn = e.respawn /\ code # 2]

\* ngx_process_get_status: every zombie is waited for and its entry marked.
StatusTaken(s) ==
  LET dead(i) == s.os[i].life = "zombie"
  IN [s EXCEPT
        !.m.procs = [i \in DOMAIN @ |->
           IF dead(i) THEN Waited(s.m.procs[i], s.os[i].code) ELSE @[i]],
        !.os = [i \in Slots |-> IF dead(i) THEN Nobody ELSE @[i]]]

Handled(s) ==
  LET t == [s EXCEPT !.m.flags = @ \union UNION {FlagOf(s, sig) : sig \in s.pending},
                     !.pending = {}]
  IN IF "CHLD" \in s.pending THEN StatusTaken(t) ELSE t

-----------------------------------------------------------------------------
(* The stages of the loop, in its order.                                   *)

\* ngx_reap_children.  failing: the slots whose respawn fails; they stay as they
\* are and are tried again when the next child dies.
Respawns(s, e) ==
  e.used /\ e.exited /\ e.respawn /\ ~e.exiting /\ ~Has(s, "terminate") /\ ~Has(s, "quit")
\* Variant with a plausible slip; nothing but a mutation run uses it.
GoneWhenTold(s, e) == e.used /\ (e.exited \/ e.exiting) /\ ~Respawns(s, e)

Gone(s, e) == e.used /\ e.exited /\ ~Respawns(s, e)

\* Variant with a plausible slip; nothing but a mutation run uses it.
KeptServing(e) == e.used /\ ~e.exited /\ ~e.exiting /\ ~e.detached

Kept(e) == e.used /\ ~e.exited /\ (e.exiting \/ ~e.detached)

Reaping(s, failing) ==
  LET procs == s.m.procs
      again == {i \in DOMAIN procs : Respawns(s, procs[i])} \ failing
      binary == s.m.newBinary \in DOMAIN procs /\ Gone(s, procs[s.m.newBinary])
      restart == binary /\ Has(s, "noaccepting")
      last == IF procs # <<>> /\ Gone(s, procs[Len(procs)]) THEN Len(procs) - 1 ELSE Len(procs)
  IN [Forked(Unforked(s, Cardinality(failing), Cardinality(failing)), again, "serving") EXCEPT
        !.m.procs = [i \in 1 .. last |->
           CASE i \in again          -> [procs[i] EXCEPT !.exited = FALSE]
             [] Gone(s, procs[i])    -> [procs[i] EXCEPT !.used = FALSE]
             [] OTHER                -> procs[i]],
        !.m.live = again # {} \/ \E i \in DOMAIN procs : Kept(procs[i]),
        !.m.newBinary = IF binary THEN None ELSE @,
        !.m.flags = IF restart THEN (@ \ {"noaccepting"}) \union {"restart"} ELSE @]

Reaped(s) ==
  IF ~Has(s, "reap") THEN {s}
  ELSE LET respawned == {i \in DOMAIN s.m.procs : Respawns(s, s.m.procs[i])}
       IN {Reaping(Clear(s, "reap"), failing) :
             failing \in {f \in SUBSET respawned : Cardinality(f) <= s.faults}}

\* The termination cycle: TERM, later KILL, each time the sigio wake-ups that the
\* workers' exits may cause have passed or the timer has fired.
Terminating(s) ==
  LET t == [s EXCEPT !.m.delay = IF @ = 0 THEN 50 ELSE @]
  IN IF t.m.sigio > 0
       THEN [t EXCEPT !.m.sigio = @ - 1]
       ELSE Signalled([t EXCEPT !.m.sigio = Workers + 2],
                      IF t.m.delay > 1000 THEN "KILL" ELSE "TERM")

\* HUP while a new binary runs takes the upgrade back: workers are started again
\* with the configuration at hand.
RolledBack(s) ==
  {[Clear(t, "noaccepting") EXCEPT !.m.past = @ \union {"rollback"}] : t \in StartWorkers(s, RESPAWN)}

Reconfigured(s) ==
  {Signalled([t EXCEPT !.m.live = TRUE], "QUIT") :
     t \in StartWorkers([s EXCEPT !.m.cycle = @ + 1], JUST_RESPAWN)}

\* ngx_init_cycle fails: the old cycle goes on.
Unread(s) == IF s.faults = 0 THEN {} ELSE {[s EXCEPT !.faults = @ - 1]}

Restarted(s) ==
  IF ~Has(s, "restart") THEN {s}
  ELSE {[t EXCEPT !.m.live = TRUE] : t \in StartWorkers(Clear(s, "restart"), RESPAWN)}

Reopened(s) ==
  IF ~Has(s, "reopen") THEN s ELSE Signalled(Clear(s, "reopen"), "REOPEN")

\* ngx_exec_new_binary: new_binary is the pid, or -1 when the fork failed.
Upgraded(s) ==
  IF ~Has(s, "change_binary") THEN {s}
  ELSE LET t == [Clear(s, "change_binary") EXCEPT !.m.past = @ \union {"upgrade"}]
       IN {[Spawned(t, 1, DETACHED, "binary") EXCEPT !.m.newBinary = i] : i \in FreeSlots(t, 1)}
            \union (IF s.faults > 0
                      THEN {[t EXCEPT !.m.newBinary = Failed, !.faults = @ - 1]} ELSE {})
            \union (IF Room(t) = {} THEN {[t EXCEPT !.m.newBinary = Failed]} ELSE {})

NoAccept(s) ==
  IF ~Has(s, "noaccept") THEN s ELSE Signalled(Set(Clear(s, "noaccept"), "noaccepting"), "QUIT")

Rest(s) == {NoAccept(u) : u \in UNION {Upgraded(Reopened(t)) : t \in Restarted(s)}}

Acted(s) ==
  IF ~s.m.live /\ (Has(s, "terminate") \/ Has(s, "quit"))
    THEN {[s EXCEPT !.m.running = FALSE]}
  ELSE IF Has(s, "terminate") THEN {Terminating(s)}
  ELSE IF Has(s, "quit") THEN {Signalled(s, "QUIT")}
  ELSE IF ~Has(s, "reconfigure") THEN Rest(s)
  ELSE UNION {IF t.m.newBinary # None THEN RolledBack(t)
              ELSE Unread(t) \union UNION {Rest(u) : u \in Reconfigured(t)} :
                t \in {Clear(s, "reconfigure")}}

\* The head of the loop, before the next sigsuspend.
\* Variant with a plausible slip; nothing but a mutation run uses it.
RearmedAlike(s) ==
  IF s.m.delay > 0 /\ Has(s, "sigalrm")
    THEN [Clear(s, "sigalrm") EXCEPT !.m.sigio = 0]
    ELSE s

Rearmed(s) ==
  IF s.m.delay > 0 /\ Has(s, "sigalrm")
    THEN [Clear(s, "sigalrm") EXCEPT !.m.sigio = 0, !.m.delay = Doubled(@)]
    ELSE s

-----------------------------------------------------------------------------
Init ==
  /\ \E s \in StartWorkers([m |-> [procs |-> <<>>, flags |-> {}, running |-> TRUE, live |-> TRUE,
                                   delay |-> 0, sigio |-> 0, newBinary |-> None, cycle |-> 1,
                                   past |-> {}],
                            os |-> [i \in Slots |-> Nobody], pending |-> {}, faults |-> 0],
                           RESPAWN) :
       m = s.m /\ os = s.os /\ pending = s.pending
  /\ alarm = FALSE
  /\ left = [signals |-> MaxSignals, faults |-> MaxFaults]

\* sigsuspend returns when the handlers of all pending signals have run.
Wake ==
  /\ m.running /\ pending # {}
  /\ \E s \in {Handled(Found)} : \E t \in Reaped(s) : \E u \in Acted(t) : \E v \in {Rearmed(u)} :
       /\ m' = v.m /\ os' = v.os /\ pending' = v.pending
       /\ alarm' = (alarm \/ v.m.delay > 0)
       /\ left' = [left EXCEPT !.faults = v.faults]

Alarm ==
  /\ alarm
  /\ alarm' = FALSE
  /\ pending' = pending \union {"ALRM"}
  /\ UNCHANGED <<m, os, left>>

Send(sig) ==
  /\ m.running /\ left.signals > 0
  /\ pending' = pending \union {sig}
  /\ left' = [left EXCEPT !.signals = @ - 1]
  /\ UNCHANGED <<m, os, alarm>>

-----------------------------------------------------------------------------
(* The children.  The kernel tells the master of a death twice: SIGIO,     *)
(* because its end of the channel is FIOASYNC, and then SIGCHLD.           *)

Die(p, code) ==
  /\ os' = [os EXCEPT ![p] = [@ EXCEPT !.life = "dying", !.code = code, !.inbox = {}]]
  /\ pending' = pending \union {"IO"}
  /\ UNCHANGED <<m, alarm>>

Dead(p) ==
  /\ os[p].life = "dying" /\ os' = [os EXCEPT ![p].life = "zombie"]
  /\ pending' = pending \union {"CHLD"}
  /\ UNCHANGED <<m, alarm, left>>

\* ngx_worker_process_init fails.  While it runs, signals and messages wait as
\* they do later between two passages of the worker's loop: the model does not
\* tell a worker that initialises from one that serves.
InitFails(p) ==
  /\ os[p].life = "serving" /\ left.faults > 0
  /\ Die(p, 2)
  /\ left' = [left EXCEPT !.faults = @ - 1]

Crash(p) ==
  /\ os[p].life \in Alive \ {"binary"} /\ left.faults > 0
  /\ Die(p, 1)
  /\ left' = [left EXCEPT !.faults = @ - 1]

\* One passage of ngx_worker_process_cycle with flags set: terminate exits,
\* quit closes the listening sockets, reopen reopens the logs.
Loop(p) ==
  /\ os[p].life \in {"serving", "draining"} /\ os[p].inbox # {}
  /\ IF "TERM" \in os[p].inbox
       THEN Die(p, 0)
       ELSE /\ os' = [os EXCEPT ![p] = [@ EXCEPT !.inbox = {},
                  !.life = IF "QUIT" \in os[p].inbox THEN "draining" ELSE os[p].life]]
            /\ UNCHANGED <<m, pending, alarm>>
  /\ UNCHANGED left

\* ngx_event_no_timers_left: the last request is over.
Drained(p) == os[p].life = "draining" /\ Die(p, 0) /\ UNCHANGED left

\* A new binary has no channel to its master.
BinaryExits(p) ==
  /\ os[p].life = "binary" /\ os' = [os EXCEPT ![p].life = "dying"]
  /\ UNCHANGED <<m, pending, alarm, left>>

Next ==
  \/ Wake \/ Alarm
  \/ \E sig \in Operators : Send(sig)
  \/ \E p \in Slots : InitFails(p) \/ Crash(p) \/ Loop(p) \/ Drained(p) \/ BinaryExits(p) \/ Dead(p)

Spec == Init /\ [][Next]_vars /\ WF_vars(Wake) /\ WF_vars(Alarm) /\ WF_vars(\E p \in Slots : Dead(p))

-----------------------------------------------------------------------------
Serving == {p \in Slots : os[p].life \in Alive \ {"binary"}}

\* Every process the master has forked and not yet waited for is in its slot of the
\* table (ngx_spawn_process, ngx_process_get_status).
ChildrenAreKnown ==
  /\ MasterTypeOK
  /\ \A p \in Slots : os[p].life # "none" =>
       p \in DOMAIN m.procs /\ m.procs[p].used /\ ~m.procs[p].exited

\* The master exits only when no worker is left.  HUP during an upgrade is the
\* exception: it starts workers and leaves live as it was.
NoOrphans ==
  "rollback" \notin m.past => ((~m.running \/ ~m.live) => Serving = {})

\* "SIGQUIT: Shut down gracefully" (man/nginx.8): the master takes its workers along
\* (ngx_master_process_cycle).  The code does not, after a HUP that takes an upgrade
\* back.
ExitsAlone == ~m.running => Serving = {}

\* After a reload every worker of an older configuration was told to quit, even
\* if it was just forked, and an entry marked exiting is that of a process
\* that was told: no worker serves an old configuration for good.
OldWorkersTold ==
  \A i \in DOMAIN m.procs :
    LET e == m.procs[i]
    IN (e.used /\ ~e.exited /\ ~e.detached) =>
         /\ os[i].cycle < m.cycle => e.exiting
         /\ e.exiting => \/ os[i].life \in {"draining", "dying", "zombie"}
                         \/ os[i].inbox \intersect {"QUIT", "TERM"} # {}

\* Without an upgrade, and unless a fork has failed, no more than worker_processes
\* workers are meant to stay.
WorkersBounded ==
  m.past \intersect {"upgrade", "unforked"} = {} =>
    Cardinality({i \in DOMAIN m.procs : m.procs[i].used /\ ~m.procs[i].exiting}) <= Workers

\* TERM ends the master whatever its workers do: in the end they are killed.  A
\* fork that failed is the exception: a reload whose forks all fail still sets
\* live, and without a child no SIGCHLD makes ngx_reap_children look again.
TerminateEnds == ("terminate" \in m.flags /\ "unforked" \notin m.past) ~> ~m.running
=============================================================================
