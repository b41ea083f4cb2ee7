-------------------------- MODULE MasterCycleProofs --------------------------
(***************************************************************************)
(* The safety properties of MasterCycle, for any number of workers, size   *)
(* of the table, set of signals, number of signals and of faults.          *)
(*                                                                         *)
(* A passage of the master's loop is a composition of stages on a state    *)
(* record, so each part of the invariant is stated of a record s and       *)
(* followed through the stages; of Found it says what holds of the         *)
(* variables.                                                              *)
(***************************************************************************)
EXTENDS MasterCycle, FiniteSetTheorems, WellFoundedInduction, TLAPS

Memory == [procs : Seq(Process), flags : SUBSET Flags, running : BOOLEAN,
           live : BOOLEAN, delay : Delays, sigio : 0 .. Workers + 2,
           newBinary : Slots \union {None, Failed}, cycle : Nat,
           past : SUBSET {"upgrade", "rollback", "unforked"}]

OsProcess == [life : Alive \union {"none", "dying", "zombie"}, code : {0, 1, 2},
           cycle : Nat, inbox : SUBSET {"QUIT", "TERM", "REOPEN"}]

State == [m : Memory, os : [Slots -> OsProcess], pending : SUBSET Signals, faults : Nat]

\* The entry of slot i agrees with the process in it: the process is there as
\* long as the entry is used and not marked; a detached one is not a worker; and
\* a worker marked exiting was told so.
EntryAgrees(s, i) ==
  LET e == s.m.procs[i]
      p == s.os[i]
  IN /\ (e.used /\ ~e.exited) <=> p.life # "none"
     /\ e.detached => ~e.respawn /\ p.life \notin {"serving", "draining"}
     /\ (e.used /\ ~e.exited /\ ~e.detached /\ e.exiting) =>
           \/ p.life \in {"draining", "dying", "zombie"}
           \/ p.inbox \intersect {"QUIT", "TERM"} # {}

Agrees(s) ==
  /\ s \in State /\ Len(s.m.procs) <= MaxSlots
  /\ \A i \in Slots : IF i \in DOMAIN s.m.procs THEN EntryAgrees(s, i)
                                                ELSE s.os[i].life = "none"

Old(s, i) == s.os[i].cycle < s.m.cycle

\* Between two passages no worker is new, and the old ones were told to quit.
Settled(s) ==
  \A i \in DOMAIN s.m.procs :
    LET e == s.m.procs[i]
    IN e.used => /\ ~e.just
                 /\ (~e.exited /\ ~e.detached /\ Old(s, i)) => e.exiting

\* Without a fork that failed, every death that was noticed was dealt with.
AllReaped(s) ==
  "unforked" \notin s.m.past => \A i \in DOMAIN s.m.procs : s.m.procs[i].used => ~s.m.procs[i].exited

\* Without an upgrade there is no new binary, and nothing is restarted or rolled back.
NoUpgrade(s) ==
  (\/ s.m.newBinary # None \/ "restart" \in s.m.flags
   \/ \E i \in DOMAIN s.m.procs : s.m.procs[i].used /\ s.m.procs[i].detached)
    => "upgrade" \in s.m.past

Staying(s) == {i \in DOMAIN s.m.procs : s.m.procs[i].used /\ ~s.m.procs[i].exiting}

Bounded(s) ==
  s.m.past \intersect {"upgrade", "unforked"} = {} => Cardinality(Staying(s)) <= Workers

\* A master that is not live, or has left, has no workers.
Staffed(s) ==
  ("rollback" \notin s.m.past /\ (~s.m.running \/ ~s.m.live)) =>
    \A i \in Slots : s.os[i].life \notin {"serving", "draining"}

MasterInv ==
  /\ alarm \in BOOLEAN /\ left \in [signals : Nat, faults : Nat]
  /\ Agrees(Found) /\ Settled(Found) /\ AllReaped(Found) /\ NoUpgrade(Found)
  /\ Bounded(Found) /\ Staffed(Found)
------------------------------------------------------------------------------
(***************************************************************************)
(* The children's steps.                                                   *)
(***************************************************************************)

\* A step of one process that does not take it out of its master's sight, nor
\* makes a worker of it, nor forgets that it was told to leave.
Withdrawn(p) == p.life \in {"draining", "dying", "zombie"} \/ p.inbox \intersect {"QUIT", "TERM"} # {}

LEMMA ProcessStep ==
  ASSUME MasterInv, NEW p \in Slots, NEW q \in OsProcess,
         os' = [os EXCEPT ![p] = q], m' = m, pending' \subseteq Signals,
         alarm' = alarm, left' \in [signals : Nat, faults : Nat],
         os[p].life # "none", q.life # "none", q.cycle = os[p].cycle,
         q.life \in {"serving", "draining"} => os[p].life \in {"serving", "draining"},
         Withdrawn(os[p]) => Withdrawn(q)
  PROVE  MasterInv'
<1>1. /\ Found = [m |-> m, os |-> os, pending |-> pending, faults |-> left.faults]
      /\ Found' = [m |-> m', os |-> os', pending |-> pending', faults |-> left'.faults]
  BY DEF Found
<1>2. /\ m \in Memory /\ os \in [Slots -> OsProcess] /\ Len(m.procs) <= MaxSlots
      /\ \A i \in Slots : IF i \in DOMAIN m.procs THEN EntryAgrees(Found, i)
                                                  ELSE os[i].life = "none"
  BY <1>1 DEF MasterInv, Agrees, State
<1>3. /\ os' \in [Slots -> OsProcess] /\ os'[p] = q
      /\ \A i \in Slots \ {p} : os'[i] = os[i]
  BY <1>2
<1>4. Found' \in State
  BY <1>1, <1>2, <1>3 DEF State
<1>5. ASSUME NEW i \in Slots, i \in DOMAIN m.procs
      PROVE  EntryAgrees(Found', i)
  BY <1>1, <1>2, <1>3, <1>5 DEF EntryAgrees, Withdrawn
<1>6. Agrees(Found')
  BY <1>1, <1>2, <1>3, <1>4, <1>5 DEF Agrees
<1>7. Settled(Found')
  <2>1. Settled(Found)
    BY DEF MasterInv
  <2>2. \A i \in DOMAIN m.procs : i \in Slots
    <3>1. m.procs \in Seq(Process)
      BY <1>2 DEF Memory
    <3> QED
      BY <1>2, <3>1, MasterAssumption DEF Slots
  <2> QED
    BY <1>1, <1>3, <2>1, <2>2 DEF Settled, Old
<1>8. AllReaped(Found') /\ NoUpgrade(Found') /\ Bounded(Found')
  BY <1>1 DEF MasterInv, AllReaped, NoUpgrade, Bounded, Staying
<1>9. Staffed(Found')
  BY <1>1, <1>3 DEF MasterInv, Staffed
<1> QED
  BY <1>6, <1>7, <1>8, <1>9 DEF MasterInv

LEMMA ChildrenStep ==
  ASSUME MasterInv, NEW p \in Slots,
         InitFails(p) \/ Crash(p) \/ Loop(p) \/ Drained(p) \/ BinaryExits(p) \/ Dead(p)
  PROVE  MasterInv'
<1>1. /\ os \in [Slots -> OsProcess] /\ os[p] \in OsProcess /\ pending \subseteq Signals
      /\ left \in [signals : Nat, faults : Nat]
  BY DEF MasterInv, Agrees, State, Found
<1>2. {"IO", "CHLD"} \subseteq Signals
  BY DEF Signals
<1>3. ASSUME NEW code \in {0, 1, 2}, Die(p, code), os[p].life \in {"serving", "draining"},
             left' \in [signals : Nat, faults : Nat]
      PROVE  MasterInv'
  <2> DEFINE q == [os[p] EXCEPT !.life = "dying", !.code = code, !.inbox = {}]
  <2>1. q \in OsProcess /\ q.life = "dying" /\ q.cycle = os[p].cycle
    BY <1>1 DEF OsProcess, Alive
  <2>2. os' = [os EXCEPT ![p] = q] /\ m' = m /\ alarm' = alarm /\ pending' \subseteq Signals
    BY <1>1, <1>2, <1>3 DEF Die
  <2> HIDE DEF q
  <2> QED
    BY <1>3, <2>1, <2>2, ProcessStep DEF Withdrawn
<1>4. CASE InitFails(p)
  BY <1>1, <1>3, <1>4 DEF InitFails
<1>5. CASE Crash(p)
  BY <1>1, <1>3, <1>5 DEF Crash, Alive
<1>6. CASE Drained(p)
  BY <1>1, <1>3, <1>6 DEF Drained
<1>7. CASE Loop(p)
  <2>1. CASE "TERM" \in os[p].inbox
    BY <1>1, <1>3, <1>7, <2>1 DEF Loop
  <2>2. CASE "TERM" \notin os[p].inbox
    <3> DEFINE q == [os[p] EXCEPT !.inbox = {},
                                  !.life = IF "QUIT" \in os[p].inbox THEN "draining" ELSE os[p].life]
    <3>1. /\ q \in OsProcess /\ q.cycle = os[p].cycle
          /\ q.life \in {os[p].life, "draining"}
          /\ Withdrawn(os[p]) => q.life \in {"draining", "dying", "zombie"}
      <4>1. os[p].life \in Alive \union {"none", "dying", "zombie"}
        BY <1>1 DEF OsProcess
      <4>2. q \in OsProcess /\ q.cycle = os[p].cycle
        BY <1>1, <4>1 DEF OsProcess, Alive
      <4>3. q.life = IF "QUIT" \in os[p].inbox THEN "draining" ELSE os[p].life
        BY <1>1 DEF OsProcess
      <4> QED
        BY <2>2, <4>2, <4>3 DEF Withdrawn
    <3>2. os' = [os EXCEPT ![p] = q] /\ m' = m /\ alarm' = alarm /\ pending' = pending
          /\ left' = left /\ os[p].life \in {"serving", "draining"}
      BY <1>7, <2>2 DEF Loop
    <3> HIDE DEF q
    <3> QED
      BY <1>1, <3>1, <3>2, ProcessStep DEF Withdrawn
  <2> QED
    BY <2>1, <2>2
<1>8. CASE BinaryExits(p) \/ Dead(p)
  <2> DEFINE q == [os[p] EXCEPT !.life = IF os[p].life = "binary" THEN "dying" ELSE "zombie"]
  <2>1. /\ q \in OsProcess /\ q.cycle = os[p].cycle /\ q.life \in {"dying", "zombie"}
    BY <1>1 DEF OsProcess, Alive
  <2>2. /\ os' = [os EXCEPT ![p] = q] /\ m' = m /\ alarm' = alarm /\ pending' \subseteq Signals
        /\ left' = left /\ os[p].life # "none"
    BY <1>1, <1>2, <1>8 DEF BinaryExits, Dead
  <2> HIDE DEF q
  <2> QED
    BY <1>1, <2>1, <2>2, ProcessStep DEF Withdrawn
<1> QED
  BY <1>4, <1>5, <1>6, <1>7, <1>8

\* Signals arrive.
LEMMA SignalStep ==
  ASSUME MasterInv, m' = m, os' = os, pending' \subseteq Signals, alarm' \in BOOLEAN,
         left' \in [signals : Nat, faults : Nat]
  PROVE  MasterInv'
<1>1. /\ Found = [m |-> m, os |-> os, pending |-> pending, faults |-> left.faults]
      /\ Found' = [m |-> m', os |-> os', pending |-> pending', faults |-> left'.faults]
  BY DEF Found
<1>2. Agrees(Found')
  BY <1>1 DEF MasterInv, Agrees, State, EntryAgrees
<1> QED
  BY <1>1, <1>2
  DEF MasterInv, Settled, Old, AllReaped, NoUpgrade, Bounded, Staying, Staffed
------------------------------------------------------------------------------
(***************************************************************************)
(* The stages of a passage.                                                *)
(***************************************************************************)
Whole(s) == Agrees(s) /\ Settled(s) /\ NoUpgrade(s) /\ Bounded(s) /\ Staffed(s)

LEMMA Fields ==
  ASSUME NEW s \in State
  PROVE  /\ s.m \in Memory /\ s.os \in [Slots -> OsProcess]
         /\ s.pending \subseteq Signals /\ s.faults \in Nat
         /\ s.m.procs \in Seq(Process) /\ DOMAIN s.m.procs = 1 .. Len(s.m.procs)
         /\ Len(s.m.procs) \in Nat
         /\ \A i \in DOMAIN s.m.procs : s.m.procs[i] \in Process
         /\ s.m.flags \subseteq Flags
<1>1. s.m \in Memory /\ s.os \in [Slots -> OsProcess] /\ s.pending \subseteq Signals /\ s.faults \in Nat
  BY DEF State
<1>2. s.m.procs \in Seq(Process) /\ s.m.flags \subseteq Flags
  BY <1>1 DEF Memory
<1> QED
  BY <1>1, <1>2

LEMMA IsSequence ==
  ASSUME NEW S, NEW n \in Nat, NEW f \in [1 .. n -> S]
  PROVE  f \in Seq(S) /\ Len(f) = n /\ DOMAIN f = 1 .. n
  OBVIOUS

LEMMA WaitedEntry ==
  ASSUME NEW e \in Process, NEW code
  PROVE  LET f == Waited(e, code)
         IN /\ f \in Process /\ f.exited
            /\ f.used <=> e.used
            /\ f.exiting <=> e.exiting
            /\ f.just <=> e.just
            /\ f.detached <=> e.detached
            /\ f.respawn => e.respawn
<1>1. Waited(e, code) \in Process
  BY DEF Waited, Process
<1>2. Waited(e, code).exited /\ (Waited(e, code).respawn => e.respawn)
  BY DEF Waited, Process
<1> QED
  BY <1>1, <1>2 DEF Waited, Process

LEMMA StatusTakenWhole ==
  ASSUME NEW s, Whole(s)
  PROVE  Whole(StatusTaken(s)) /\ StatusTaken(s).m.flags = s.m.flags
<1> DEFINE t == StatusTaken(s)
           procs == [i \in DOMAIN s.m.procs |->
                       IF s.os[i].life = "zombie" THEN Waited(s.m.procs[i], s.os[i].code)
                                                  ELSE s.m.procs[i]]
           procs_os == [i \in Slots |-> IF s.os[i].life = "zombie" THEN Nobody ELSE s.os[i]]
<1>1. s \in State /\ Len(s.m.procs) <= MaxSlots
  BY DEF Whole, Agrees
<1>2. \A i \in DOMAIN s.m.procs : i \in Slots
  BY <1>1, Fields, MasterAssumption DEF Slots
<1>3. t = [s EXCEPT !.m = [s.m EXCEPT !.procs = procs], !.os = procs_os]
  BY <1>1, Fields DEF StatusTaken, State, Memory
<1>4. procs \in Seq(Process) /\ Len(procs) = Len(s.m.procs) /\ DOMAIN procs = DOMAIN s.m.procs
  <2>1. \A i \in DOMAIN s.m.procs : procs[i] \in Process
    BY <1>1, Fields, WaitedEntry
  <2>2. procs \in [1 .. Len(s.m.procs) -> Process] /\ Len(s.m.procs) \in Nat
    BY <1>1, <2>1, Fields
  <2> HIDE DEF procs
  <2> QED
    BY <1>1, <2>2, Fields, IsSequence
<1>5. procs_os \in [Slots -> OsProcess]
  BY <1>1, Fields DEF Nobody, OsProcess
<1> HIDE DEF procs, procs_os, t
<1>6. /\ t \in State /\ t.m = [s.m EXCEPT !.procs = procs] /\ t.os = procs_os
      /\ t.m.procs = procs /\ t.m.flags = s.m.flags /\ t.m.past = s.m.past
      /\ t.m.newBinary = s.m.newBinary /\ t.m.running = s.m.running /\ t.m.live = s.m.live
      /\ t.m.cycle = s.m.cycle
  BY <1>1, <1>3, <1>4, <1>5, Fields DEF State, Memory
<1>7. ASSUME NEW i \in DOMAIN s.m.procs
      PROVE  /\ procs[i].used <=> s.m.procs[i].used
             /\ procs[i].exiting <=> s.m.procs[i].exiting
             /\ procs[i].just <=> s.m.procs[i].just
             /\ procs[i].detached <=> s.m.procs[i].detached
             /\ procs[i].exited <=> (s.m.procs[i].exited \/ s.os[i].life = "zombie")
             /\ procs[i].respawn => s.m.procs[i].respawn
  <2>1. s.m.procs[i] \in Process
    BY <1>1, Fields
  <2>2. CASE s.os[i].life = "zombie"
    <3>1. procs[i] = Waited(s.m.procs[i], s.os[i].code)
      BY <2>2 DEF procs
    <3> QED
      BY <2>1, <2>2, <3>1, WaitedEntry
  <2>3. CASE s.os[i].life # "zombie"
    BY <2>3 DEF procs
  <2> QED
    BY <2>2, <2>3
<1>8. ASSUME NEW i \in Slots
      PROVE  procs_os[i] = IF s.os[i].life = "zombie" THEN Nobody ELSE s.os[i]
  BY DEF procs_os
<1>9. ASSUME NEW i \in Slots, i \in DOMAIN s.m.procs
      PROVE  EntryAgrees(t, i)
  <2>1. EntryAgrees(s, i)
    BY <1>9 DEF Whole, Agrees
  <2> QED
    BY <1>6, <1>7, <1>8, <1>9, <2>1 DEF EntryAgrees, Nobody
<1>10. Agrees(t)
  BY <1>1, <1>4, <1>6, <1>8, <1>9 DEF Whole, Agrees
<1>11. Settled(t)
  BY <1>2, <1>4, <1>6, <1>7, <1>8 DEF Whole, Settled, Old
<1>12. NoUpgrade(t) /\ Staffed(t)
  BY <1>4, <1>6, <1>7, <1>8 DEF Whole, NoUpgrade, Staffed, Nobody
<1>13. Bounded(t)
  <2>1. Staying(t) = Staying(s)
    BY <1>4, <1>6, <1>7 DEF Staying
  <2> QED
    BY <1>6, <2>1 DEF Whole, Bounded
<1> QED
  BY <1>6, <1>10, <1>11, <1>12, <1>13 DEF Whole, t

\* What does not touch the table or a process, and neither forgets the past nor
\* stops the master, preserves everything.
SameTable(s, t) ==
  /\ t \in State
  /\ t.m.procs = s.m.procs /\ t.os = s.os /\ t.m.cycle = s.m.cycle
  /\ s.m.past \subseteq t.m.past

LEMMA SameTableWhole ==
  ASSUME NEW s, NEW t, SameTable(s, t), Whole(s), NoUpgrade(t),
         (~t.m.running \/ ~t.m.live) => (~s.m.running \/ ~s.m.live)
  PROVE  Whole(t) /\ (AllReaped(s) => AllReaped(t))
<1>1. Agrees(t) /\ Settled(t)
  BY DEF Whole, SameTable, Agrees, EntryAgrees, Settled, Old
<1>2. Bounded(t) /\ Staffed(t)
  BY DEF Whole, SameTable, Bounded, Staying, Staffed
<1> QED
  BY <1>1, <1>2 DEF Whole, SameTable, AllReaped

LEMMA HandledWhole ==
  ASSUME NEW s, Whole(s), AllReaped(s)
  PROVE  /\ Whole(Handled(s))
         /\ "reap" \in Handled(s).m.flags \/ AllReaped(Handled(s))
<1> DEFINE new == UNION {FlagOf(s, sig) : sig \in s.pending}
           t == [s EXCEPT !.m.flags = @ \union new, !.pending = {}]
<1>1. s \in State
  BY DEF Whole, Agrees
<1>2. \A sig \in Signals : FlagOf(s, sig) \subseteq Flags \ {"restart"}
  BY MasterAssumption DEF Signals, FlagOf, Flags
<1>3. new \subseteq Flags \ {"restart"} /\ ("CHLD" \in s.pending => "reap" \in new)
  <2>1. FlagOf(s, "CHLD") = {"reap"}
    BY DEF FlagOf
  <2> QED
    BY <1>1, <1>2, <2>1, Fields
<1> HIDE DEF new
<1>4. /\ t \in State /\ t.m.procs = s.m.procs /\ t.os = s.os /\ t.m.cycle = s.m.cycle
      /\ t.m.past = s.m.past /\ t.m.newBinary = s.m.newBinary /\ t.m.live = s.m.live
      /\ t.m.running = s.m.running /\ t.m.flags = s.m.flags \union new
  BY <1>1, <1>3 DEF State, Memory
<1> HIDE DEF t
<1>5. Whole(t) /\ AllReaped(t)
  <2>1. NoUpgrade(t)
    BY <1>3, <1>4 DEF Whole, NoUpgrade
  <2> QED
    BY <1>4, <2>1, SameTableWhole DEF SameTable
<1>6. CASE "CHLD" \in s.pending
  <2>1. Handled(s) = StatusTaken(t)
    BY <1>6 DEF Handled, t, new
  <2> QED
    BY <1>3, <1>4, <1>5, <1>6, <2>1, StatusTakenWhole
<1>7. CASE "CHLD" \notin s.pending
  <2>1. Handled(s) = t
    BY <1>7 DEF Handled, t, new
  <2> QED
    BY <1>5, <2>1
<1> QED
  BY <1>6, <1>7
------------------------------------------------------------------------------
(* Spawning.                                                               *)

\* A set of slots that is not empty has a last one.
LEMMA LastSlot ==
  ASSUME NEW S \in SUBSET Slots, S # {}
  PROVE  \E x \in S : \A y \in S : y <= x
<1> DEFINE D == {MaxSlots - n : n \in S}
<1>1. \A n \in S : n \in Nat /\ n <= MaxSlots /\ MaxSlots - n \in Nat
  BY MasterAssumption DEF Slots
<1>2. D \in SUBSET Nat /\ D # {}
  BY <1>1
<1>3. PICK d \in D : \A e \in D : ~(<<e, d>> \in OpToRel(<, Nat))
  BY <1>2, NatLessThanWellFounded, WFMin
<1>4. PICK x \in S : d = MaxSlots - x
  BY <1>3
<1>5. ASSUME NEW y \in S
      PROVE  y <= x
  <2>1. MaxSlots - y \in D
    OBVIOUS
  <2>2. <<MaxSlots - y, d>> \in Nat \X Nat
    BY <1>2, <1>3, <2>1
  <2>3. ~(MaxSlots - y < d)
    BY <1>3, <2>1, <2>2, ZenonT(30) DEF OpToRel
  <2> QED
    BY <1>1, <1>4, <2>3, MasterAssumption
<1> QED
  BY <1>5

LEMMA SlotsFinite ==
  ASSUME NEW S \in SUBSET Slots
  PROVE  IsFiniteSet(S) /\ Cardinality(S) \in Nat
<1>1. IsFiniteSet(Slots)
  BY MasterAssumption, FS_Interval DEF Slots
<1> QED
  BY <1>1, FS_Subset, FS_CardinalityType

\* The first n elements of a set of slots are n at most, and none is passed over.
LEMMA LeastIs ==
  ASSUME NEW S \in SUBSET Slots, NEW n \in Nat
  PROVE  /\ Least(n, S) \in SUBSET S /\ Cardinality(Least(n, S)) <= n
         /\ \A x \in Least(n, S) : \A y \in S : y <= x => y \in Least(n, S)
<1>1. \A x \in S : x \in Int
  BY DEF Slots
<1>2. ASSUME NEW x \in Least(n, S), NEW y \in S, y <= x
      PROVE  y \in Least(n, S)
  <2> DEFINE X == {z \in S : z <= x}
             Y == {z \in S : z <= y}
  <2>1. Y \in SUBSET X /\ X \in SUBSET Slots
    BY <1>1, <1>2 DEF Least
  <2>2. Cardinality(Y) <= Cardinality(X) /\ Cardinality(Y) \in Nat /\ Cardinality(X) \in Nat
    BY <2>1, SlotsFinite, FS_Subset
  <2>3. Cardinality(X) <= n
    BY DEF Least
  <2>4. Cardinality(Y) <= n
    BY <2>2, <2>3
  <2> QED
    BY <2>4 DEF Least
<1>3. Least(n, S) \in SUBSET S
  BY DEF Least
<1>4. Cardinality(Least(n, S)) <= n
  <2>1. CASE Least(n, S) = {}
    BY <2>1, FS_EmptySet
  <2>2. CASE Least(n, S) # {}
    <3>1. PICK x \in Least(n, S) : \A y \in Least(n, S) : y <= x
      BY <1>3, <2>2, LastSlot
    <3> DEFINE X == {z \in S : z <= x}
    <3>2. Cardinality(X) <= n
      BY DEF Least
    <3>3. Least(n, S) \in SUBSET X /\ X \in SUBSET Slots
      BY <1>3, <3>1
    <3>4. Cardinality(Least(n, S)) <= Cardinality(X)
          /\ Cardinality(Least(n, S)) \in Nat /\ Cardinality(X) \in Nat
      BY <3>3, SlotsFinite, FS_Subset
    <3> QED
      BY <3>2, <3>4
  <2> QED
    BY <2>1, <2>2
<1> QED
  BY <1>2, <1>3, <1>4

\* Spawning fills free slots, and the table stays without a gap.
LEMMA FreeSlotsFill ==
  ASSUME NEW s \in State, Len(s.m.procs) <= MaxSlots, NEW n \in Nat
  PROVE  /\ FreeSlots(s, n) \in SUBSET Slots /\ Cardinality(FreeSlots(s, n)) <= n
         /\ \A i \in FreeSlots(s, n) : i \in DOMAIN s.m.procs => ~s.m.procs[i].used
         /\ \E k \in Nat : /\ k <= MaxSlots
                          /\ DOMAIN s.m.procs \union FreeSlots(s, n) = 1 .. k
<1> DEFINE F == FreeSlots(s, n)
           size == Len(s.m.procs)
<1>1. Room(s) \in SUBSET Slots /\ \A i \in Room(s) : i \in DOMAIN s.m.procs => ~s.m.procs[i].used
  BY DEF Room
<1>2. /\ F \in SUBSET Room(s) /\ Cardinality(F) <= n
      /\ \A x \in F : \A y \in Room(s) : y <= x => y \in F
  BY <1>1, LeastIs DEF FreeSlots
<1>3. DOMAIN s.m.procs = 1 .. size /\ size \in Nat
  BY Fields
<1> HIDE DEF F, size
<1>4. \E k \in Nat : k <= MaxSlots /\ DOMAIN s.m.procs \union F = 1 .. k
  <2>1. CASE F \subseteq 1 .. size
    BY <1>3, <2>1 DEF size
  <2>2. CASE ~(F \subseteq 1 .. size)
    <3>1. PICK x \in F : \A y \in F : y <= x
      BY <1>1, <1>2, <2>2, LastSlot
    <3>2. x \in Slots /\ x \in Nat /\ x <= MaxSlots /\ \A y \in F : y \in Nat /\ y > 0
      BY <1>1, <1>2, MasterAssumption DEF Slots
    <3>3. x > size
      BY <1>3, <2>2, <3>1, <3>2
    <3>4. ASSUME NEW y \in 1 .. x, y > size
          PROVE  y \in F
      <4>1. y \in Room(s)
        BY <1>3, <3>2, <3>4, MasterAssumption DEF Room, Slots
      <4> QED
        BY <1>2, <4>1
    <3>5. DOMAIN s.m.procs \union F = 1 .. x
      <4>1. \A y \in F : y \in 1 .. x
        BY <3>1, <3>2
      <4>2. \A y \in 1 .. size : y \in 1 .. x
        BY <1>3, <3>2, <3>3
      <4>3. \A y \in 1 .. x : y \in 1 .. size \/ y \in F
        BY <1>3, <3>2, <3>4
      <4> QED
        BY <1>3, <4>1, <4>2, <4>3
    <3> QED
      BY <3>2, <3>5
  <2> QED
    BY <2>1, <2>2
<1> QED
  BY <1>1, <1>2, <1>4 DEF F

\* What ngx_spawn_process forks with each kind of entry.
Kinds == {<<RESPAWN, "serving">>, <<JUST_RESPAWN, "serving">>, <<DETACHED, "binary">>}

LEMMA KindsAre ==
  ASSUME NEW kind \in Kinds
  PROVE  /\ kind[1] \in Process /\ kind[2] \in {"serving", "binary"}
         /\ kind[1].used /\ ~kind[1].exited /\ ~kind[1].exiting
         /\ kind[1].detached => ~kind[1].respawn /\ kind[2] = "binary"
         /\ kind[1].just => kind[1] = JUST_RESPAWN
<1>1. /\ RESPAWN \in Process /\ RESPAWN.used /\ ~RESPAWN.exited /\ ~RESPAWN.exiting
      /\ ~RESPAWN.detached /\ ~RESPAWN.just
  BY DEF RESPAWN, Entry, Process
<1>2. /\ JUST_RESPAWN \in Process /\ JUST_RESPAWN.used /\ ~JUST_RESPAWN.exited
      /\ ~JUST_RESPAWN.exiting /\ ~JUST_RESPAWN.detached
  BY DEF JUST_RESPAWN, Entry, Process
<1>3. /\ DETACHED \in Process /\ DETACHED.used /\ ~DETACHED.exited /\ ~DETACHED.exiting
      /\ ~DETACHED.respawn /\ ~DETACHED.just
  BY DEF DETACHED, Entry, Process
<1>4. \/ kind[1] = RESPAWN /\ kind[2] = "serving"
      \/ kind[1] = JUST_RESPAWN /\ kind[2] = "serving"
      \/ kind[1] = DETACHED /\ kind[2] = "binary"
  BY DEF Kinds
<1> QED
  BY <1>1, <1>2, <1>3, <1>4

LEMMA SpawnedIs ==
  ASSUME NEW s, Agrees(s), NEW n \in Nat, NEW kind \in Kinds
  PROVE  LET t == Spawned(s, n, kind[1], kind[2])
             F == FreeSlots(s, n)
         IN /\ t \in State /\ Len(t.m.procs) <= MaxSlots
            /\ DOMAIN t.m.procs = DOMAIN s.m.procs \union F
            /\ \A i \in F : t.m.procs[i] = kind[1] /\ t.os[i] = Child(s, kind[2])
            /\ \A i \in DOMAIN s.m.procs \ F : t.m.procs[i] = s.m.procs[i]
            /\ \A i \in Slots \ F : t.os[i] = s.os[i]
            /\ t.m = [s.m EXCEPT !.procs = t.m.procs]
            /\ t.pending = s.pending /\ t.faults = s.faults
<1> DEFINE t == Spawned(s, n, kind[1], kind[2])
           F == FreeSlots(s, n)
           procs == [i \in DOMAIN s.m.procs \union F |-> IF i \in F THEN kind[1] ELSE s.m.procs[i]]
           procs_os == [i \in Slots |-> IF i \in F THEN Child(s, kind[2]) ELSE s.os[i]]
<1>1. s \in State /\ Len(s.m.procs) <= MaxSlots
  BY DEF Agrees
<1>2. kind[1] \in Process /\ kind[2] \in Alive
  BY KindsAre DEF Alive
<1>3. Child(s, kind[2]) \in OsProcess
  BY <1>1, <1>2, Fields DEF Child, OsProcess, Memory
<1>4. PICK k \in Nat : k <= MaxSlots /\ DOMAIN s.m.procs \union F = 1 .. k
  BY <1>1, FreeSlotsFill
<1>5. F \in SUBSET Slots
  BY <1>1, FreeSlotsFill
<1> HIDE DEF F
<1>6. procs \in Seq(Process) /\ Len(procs) = k /\ DOMAIN procs = DOMAIN s.m.procs \union F
  <2>1. procs \in [1 .. k -> Process]
    BY <1>1, <1>2, <1>4, Fields
  <2> HIDE DEF procs
  <2> QED
    BY <1>4, <2>1, IsSequence
<1>7. procs_os \in [Slots -> OsProcess]
  BY <1>1, <1>3, Fields
<1>8. t = [s EXCEPT !.m = [s.m EXCEPT !.procs = procs], !.os = procs_os]
  BY <1>1, Fields DEF Spawned, Forked, F, State, Memory
<1>9. /\ \A i \in F : procs[i] = kind[1] /\ procs_os[i] = Child(s, kind[2])
      /\ \A i \in DOMAIN s.m.procs \ F : procs[i] = s.m.procs[i]
      /\ \A i \in Slots \ F : procs_os[i] = s.os[i]
  BY <1>5
<1> HIDE DEF procs, procs_os, t
<1>10. /\ t \in State /\ t.m = [s.m EXCEPT !.procs = procs] /\ t.m.procs = procs
       /\ t.os = procs_os /\ t.pending = s.pending /\ t.faults = s.faults
  BY <1>1, <1>6, <1>7, <1>8, Fields DEF State, Memory
<1> QED
  BY <1>4, <1>6, <1>9, <1>10 DEF t, F

\* Spawning keeps the table and the processes in agreement, and what comes in
\* addition has the current configuration.
LEMMA SpawnedAgrees ==
  ASSUME NEW s, Agrees(s), NEW n \in Nat, NEW kind \in Kinds
  PROVE  LET t == Spawned(s, n, kind[1], kind[2])
         IN /\ Agrees(t)
            /\ Settled(s) /\ kind[1] # JUST_RESPAWN => Settled(t)
            /\ AllReaped(s) => AllReaped(t)
            /\ NoUpgrade(s) /\ (kind[1].detached => "upgrade" \in s.m.past) => NoUpgrade(t)
            /\ kind[2] = "binary" /\ Staffed(s) => Staffed(t)
            /\ Staying(t) \subseteq Staying(s) \union FreeSlots(s, n)
            /\ \A i \in FreeSlots(s, n) : t.m.procs[i] = kind[1] /\ ~Old(t, i)
            /\ \A i \in DOMAIN t.m.procs \ FreeSlots(s, n) :
                 i \in DOMAIN s.m.procs /\ t.m.procs[i] = s.m.procs[i] /\ t.os[i] = s.os[i]
            /\ t.m = [s.m EXCEPT !.procs = t.m.procs]
<1> DEFINE t == Spawned(s, n, kind[1], kind[2])
           F == FreeSlots(s, n)
<1>1. s \in State /\ s.m \in Memory /\ s.m.cycle \in Nat
  BY Fields DEF Agrees, Memory
<1>2. F \in SUBSET Slots /\ \A i \in F : i \in DOMAIN s.m.procs => ~s.m.procs[i].used
  BY <1>1, FreeSlotsFill DEF Agrees
<1>3. /\ t \in State /\ Len(t.m.procs) <= MaxSlots
      /\ DOMAIN t.m.procs = DOMAIN s.m.procs \union F
      /\ \A i \in F : t.m.procs[i] = kind[1] /\ t.os[i] = Child(s, kind[2])
      /\ \A i \in DOMAIN s.m.procs \ F : t.m.procs[i] = s.m.procs[i]
      /\ \A i \in Slots \ F : t.os[i] = s.os[i]
      /\ t.m = [s.m EXCEPT !.procs = t.m.procs]
  BY SpawnedIs
<1> HIDE DEF t, F
<1>4. /\ t.m.past = s.m.past /\ t.m.flags = s.m.flags /\ t.m.newBinary = s.m.newBinary
      /\ t.m.cycle = s.m.cycle /\ t.m.running = s.m.running /\ t.m.live = s.m.live
  BY <1>1, <1>3 DEF Memory
<1>5. \A i \in DOMAIN s.m.procs : i \in Slots
  BY <1>1, Fields, MasterAssumption DEF Agrees, Slots
<1>6. /\ kind[1].used /\ ~kind[1].exited /\ ~kind[1].exiting
      /\ kind[1].detached => ~kind[1].respawn /\ kind[2] = "binary"
      /\ kind[2] \in {"serving", "binary"}
      /\ kind[1].just => kind[1] = JUST_RESPAWN
  BY KindsAre
<1>7. Child(s, kind[2]).life = kind[2] /\ Child(s, kind[2]).cycle = s.m.cycle
  BY DEF Child
<1>8. \A i \in F : ~Old(t, i)
  BY <1>1, <1>3, <1>4, <1>7 DEF Old
<1>9. Agrees(t)
  <2>1. ASSUME NEW i \in Slots, i \in F
        PROVE  EntryAgrees(t, i)
    BY <1>3, <1>6, <1>7, <2>1 DEF EntryAgrees
  <2>2. ASSUME NEW i \in Slots, i \notin F, i \in DOMAIN s.m.procs
        PROVE  EntryAgrees(t, i)
    <3>1. EntryAgrees(s, i)
      BY <2>2 DEF Agrees
    <3> QED
      BY <1>3, <2>2, <3>1 DEF EntryAgrees
  <2> QED
    BY <1>3, <2>1, <2>2 DEF Agrees
<1>10. Settled(s) /\ kind[1] # JUST_RESPAWN => Settled(t)
  BY <1>3, <1>4, <1>5, <1>6, <1>8 DEF Settled, Old
<1>11. /\ AllReaped(s) => AllReaped(t)
       /\ NoUpgrade(s) /\ (kind[1].detached => "upgrade" \in s.m.past) => NoUpgrade(t)
  BY <1>3, <1>4, <1>6 DEF AllReaped, NoUpgrade
<1>12. kind[2] = "binary" /\ Staffed(s) => Staffed(t)
  BY <1>3, <1>4, <1>7 DEF Staffed
<1>13. Staying(t) \subseteq Staying(s) \union F
  BY <1>3 DEF Staying
<1> QED
  BY <1>3, <1>5, <1>8, <1>9, <1>10, <1>11, <1>12, <1>13 DEF t, F

\* So many new workers at most, and the failures of the rest are remembered.
LEMMA StartedAgrees ==
  ASSUME NEW s, Agrees(s), NEW entry \in {RESPAWN, JUST_RESPAWN}, NEW t \in StartWorkers(s, entry)
  PROVE  /\ Agrees(t)
         /\ Settled(s) /\ entry # JUST_RESPAWN => Settled(t)
         /\ AllReaped(s) => AllReaped(t)
         /\ NoUpgrade(s) => NoUpgrade(t)
         /\ t.m = [s.m EXCEPT !.procs = t.m.procs, !.past = t.m.past]
         /\ s.m.past \subseteq t.m.past /\ t.m.past \subseteq s.m.past \union {"unforked"}
         /\ \E F \in SUBSET Slots :
              /\ Cardinality(F) <= Workers
              /\ Staying(t) \subseteq Staying(s) \union F
              /\ \A i \in F : t.m.procs[i] = entry /\ ~Old(t, i)
              /\ \A i \in DOMAIN t.m.procs \ F :
                   i \in DOMAIN s.m.procs /\ t.m.procs[i] = s.m.procs[i] /\ t.os[i] = s.os[i]
<1> DEFINE faults(k) == IF k = Cardinality(Room(s)) THEN 0 ELSE Workers - k
<1>1. PICK n \in 0 .. Workers :
        /\ t = Unforked(Spawned(s, n, entry, "serving"), Workers - n, faults(n))
        /\ faults(n) <= s.faults
  BY DEF StartWorkers
<1> DEFINE u == Spawned(s, n, entry, "serving")
           F == FreeSlots(s, n)
           kind == <<entry, "serving">>
<1>2. kind \in Kinds /\ kind[1] = entry /\ kind[2] = "serving" /\ ~entry.detached
  BY DEF Kinds, RESPAWN, JUST_RESPAWN, Entry
<1>3. s \in State /\ s.m \in Memory /\ s.faults \in Nat
  BY Fields DEF Agrees
<1>4. n \in Nat /\ n <= Workers /\ Workers \in Nat
  BY MasterAssumption
<1>5. /\ Agrees(u)
      /\ Settled(s) /\ entry # JUST_RESPAWN => Settled(u)
      /\ AllReaped(s) => AllReaped(u)
      /\ NoUpgrade(s) => NoUpgrade(u)
      /\ Staying(u) \subseteq Staying(s) \union F
      /\ \A i \in F : u.m.procs[i] = entry /\ ~Old(u, i)
      /\ \A i \in DOMAIN u.m.procs \ F :
           i \in DOMAIN s.m.procs /\ u.m.procs[i] = s.m.procs[i] /\ u.os[i] = s.os[i]
      /\ u.m = [s.m EXCEPT !.procs = u.m.procs]
  BY <1>2, <1>4, SpawnedAgrees
<1>6. u.faults = s.faults
  BY <1>2, <1>4, SpawnedIs
<1>7. F \in SUBSET Slots /\ Cardinality(F) <= n
  BY <1>3, <1>4, FreeSlotsFill DEF Agrees
<1>8. Cardinality(F) <= Workers
  <2>1. Cardinality(F) \in Nat
    BY <1>7, SlotsFinite
  <2> QED
    BY <1>4, <1>7, <2>1
<1> HIDE DEF u, F, kind
<1>9. u \in State /\ u.m \in Memory /\ u.m.past = s.m.past
  BY <1>3, <1>5, Fields DEF Agrees, Memory
<1>10. CASE n = Workers
  <2>1. t = u
    BY <1>1, <1>4, <1>10 DEF Unforked, u
  <2> QED
    BY <1>3, <1>5, <1>7, <1>8, <1>9, <2>1 DEF Memory
<1>11. CASE n # Workers
  <2>1. Workers - n # 0 /\ s.faults - faults(n) \in Nat
    BY <1>1, <1>3, <1>4, <1>11
  <2> HIDE DEF faults
  <2>2. t = [u EXCEPT !.faults = s.faults - faults(n), !.m.past = @ \union {"unforked"}]
    BY <1>1, <1>6, <2>1 DEF Unforked, u
  <2>3. /\ t \in State /\ t.os = u.os
        /\ t.m = [u.m EXCEPT !.past = s.m.past \union {"unforked"}]
    BY <1>9, <2>1, <2>2 DEF State, Memory
  <2>4. /\ t.m = [s.m EXCEPT !.procs = t.m.procs, !.past = t.m.past]
        /\ t.m.past = s.m.past \union {"unforked"} /\ t.m.procs = u.m.procs
        /\ t.m.cycle = u.m.cycle /\ t.m.newBinary = u.m.newBinary /\ t.m.flags = u.m.flags
    BY <1>3, <1>5, <1>9, <2>3 DEF Memory
  <2>5. Agrees(t)
    BY <1>5, <2>3, <2>4 DEF Agrees, EntryAgrees
  <2>6. /\ Settled(u) => Settled(t)
        /\ AllReaped(u) => AllReaped(t)
        /\ NoUpgrade(u) => NoUpgrade(t)
        /\ Staying(t) = Staying(u)
        /\ \A i \in F : Old(t, i) <=> Old(u, i)
    BY <1>9, <2>3, <2>4 DEF Settled, Old, AllReaped, NoUpgrade, Staying
  <2> QED
    BY <1>5, <1>7, <1>8, <2>3, <2>4, <2>5, <2>6
<1> QED
  BY <1>10, <1>11
------------------------------------------------------------------------------
(* Telling the workers.                                                    *)

LEMMA MarkedIs ==
  ASSUME NEW s \in State, NEW i \in DOMAIN s.m.procs, NEW signo
  PROVE  LET e == s.m.procs[i]
             f == Marked(s, i, signo)
         IN /\ f \in Process
            /\ f.used <=> e.used
            /\ f.detached <=> e.detached
            /\ f.respawn <=> e.respawn
            /\ f.just <=> (e.just /\ Passed(e))
            /\ f.exited <=> (e.exited \/ (Told(e, signo) /\ Lost(s, i)))
            /\ f.exiting <=> IF Told(e, signo) /\ Lost(s, i) THEN FALSE
                             ELSE e.exiting \/ (Told(e, signo) /\ signo # "REOPEN")
<1> DEFINE e == s.m.procs[i]
<1>1. e \in Process
  BY Fields
<1> HIDE DEF e
<1>2. CASE ~Passed(e) /\ e.just
  <2>1. Marked(s, i, signo) = [e EXCEPT !.just = FALSE]
    BY <1>2 DEF Marked, Told, e
  <2>2. ~Told(e, signo)
    BY <1>2 DEF Told
  <2> QED
    BY <1>1, <1>2, <2>1, <2>2 DEF Process, e
<1>3. CASE Told(e, signo) /\ Lost(s, i)
  <2>1. Marked(s, i, signo) = [e EXCEPT !.exited = TRUE, !.exiting = FALSE]
    BY <1>3 DEF Marked, Told, e
  <2>2. ~e.just
    BY <1>3 DEF Told
  <2> QED
    BY <1>1, <1>3, <2>1, <2>2 DEF Process, e
<1>4. CASE Told(e, signo) /\ ~Lost(s, i) /\ signo # "REOPEN"
  <2>1. Marked(s, i, signo) = [e EXCEPT !.exiting = TRUE]
    BY <1>4 DEF Marked, Told, e
  <2>2. ~e.just
    BY <1>4 DEF Told
  <2> QED
    BY <1>1, <1>4, <2>1, <2>2 DEF Process, e
<1>5. CASE /\ ~(~Passed(e) /\ e.just) /\ ~(Told(e, signo) /\ Lost(s, i))
           /\ ~(Told(e, signo) /\ ~Lost(s, i) /\ signo # "REOPEN")
  <2>1. Marked(s, i, signo) = e
    BY <1>5 DEF Marked, e
  <2> QED
    BY <1>1, <1>5, <2>1 DEF e
<1> QED
  BY <1>2, <1>3, <1>4, <1>5

Commands == {"QUIT", "TERM", "KILL", "REOPEN"}

LEMMA ReachedIs ==
  ASSUME NEW p \in OsProcess, NEW signo \in Commands
  PROVE  LET q == Reached(p, signo)
         IN /\ q \in OsProcess /\ q.cycle = p.cycle
            /\ p.life = "none" <=> q.life = "none"
            /\ q.life \in {"serving", "draining"} => p.life \in {"serving", "draining"}
            /\ Withdrawn(p) => Withdrawn(q)
            /\ p.life # "none" /\ signo # "REOPEN" => Withdrawn(q)
<1>1. p.life \in Alive \union {"none", "dying", "zombie"} /\ p.inbox \subseteq {"QUIT", "TERM", "REOPEN"}
  BY DEF OsProcess
<1>2. CASE p.life \notin Alive
  BY <1>1, <1>2 DEF Reached, Withdrawn
<1>3. CASE p.life \in Alive /\ signo = "KILL"
  BY <1>1, <1>3 DEF Reached, Withdrawn, OsProcess, Alive
<1>4. CASE p.life \in Alive /\ signo # "KILL"
  <2>1. Reached(p, signo) = [p EXCEPT !.inbox = p.inbox \union {signo}]
    BY <1>4 DEF Reached
  <2>2. signo \in {"QUIT", "TERM", "REOPEN"}
    BY <1>4 DEF Commands
  <2> QED
    BY <1>1, <2>1, <2>2 DEF Withdrawn, OsProcess
<1> QED
  BY <1>2, <1>3, <1>4

LEMMA SignalledIs ==
  ASSUME NEW s \in State, NEW signo \in Commands
  PROVE  LET t == Signalled(s, signo)
             told == {i \in DOMAIN s.m.procs : Told(s.m.procs[i], signo)}
         IN /\ t \in State /\ DOMAIN t.m.procs = DOMAIN s.m.procs
            /\ Len(t.m.procs) = Len(s.m.procs)
            /\ \A i \in DOMAIN s.m.procs : t.m.procs[i] = Marked(s, i, signo)
            /\ \A i \in Slots : t.os[i] = IF i \in told THEN Reached(s.os[i], signo) ELSE s.os[i]
            /\ t.m = [s.m EXCEPT !.procs = t.m.procs, !.flags = t.m.flags]
            /\ t.m.flags \subseteq s.m.flags \union {"reap"} /\ t.faults = s.faults
<1> DEFINE t == Signalled(s, signo)
           told == {i \in DOMAIN s.m.procs : Told(s.m.procs[i], signo)}
           procs == [i \in DOMAIN s.m.procs |-> Marked(s, i, signo)]
           procs_os == [i \in Slots |-> IF i \in told THEN Reached(s.os[i], signo) ELSE s.os[i]]
           flags == IF \E i \in told : Lost(s, i) THEN s.m.flags \union {"reap"} ELSE s.m.flags
           pend == IF signo = "KILL" /\ \E i \in told : s.os[i].life \in Alive
                     THEN s.pending \union {"IO"} ELSE s.pending
<1>1. t = [s EXCEPT !.m = [s.m EXCEPT !.procs = procs, !.flags = flags],
                    !.os = procs_os, !.pending = pend]
  BY Fields DEF Signalled, State, Memory
<1>2. procs \in Seq(Process) /\ Len(procs) = Len(s.m.procs) /\ DOMAIN procs = DOMAIN s.m.procs
  <2>1. procs \in [1 .. Len(s.m.procs) -> Process] /\ Len(s.m.procs) \in Nat
    BY Fields, MarkedIs
  <2> HIDE DEF procs
  <2> QED
    BY <2>1, Fields, IsSequence
<1>3. procs_os \in [Slots -> OsProcess]
  BY Fields, ReachedIs
<1>4. flags \subseteq Flags /\ flags \subseteq s.m.flags \union {"reap"} /\ pend \subseteq Signals
  BY Fields DEF Flags, Signals
<1>5. /\ \A i \in DOMAIN s.m.procs : procs[i] = Marked(s, i, signo)
      /\ \A i \in Slots : procs_os[i] = IF i \in told THEN Reached(s.os[i], signo) ELSE s.os[i]
  OBVIOUS
<1> HIDE DEF t, procs, procs_os, flags, pend, told
<1>6. /\ t \in State /\ t.m = [s.m EXCEPT !.procs = procs, !.flags = flags] /\ t.os = procs_os
      /\ t.m.procs = procs /\ t.m.flags = flags /\ t.faults = s.faults
  BY <1>1, <1>2, <1>3, <1>4, Fields DEF State, Memory
<1> QED
  BY <1>2, <1>4, <1>5, <1>6 DEF t, told

\* The workers that are new have the current configuration.
NewAreCurrent(s) ==
  \A i \in DOMAIN s.m.procs :
    s.m.procs[i].used /\ s.m.procs[i].just => ~Old(s, i) /\ ~s.m.procs[i].detached

\* Telling keeps the agreement.  After QUIT the table is settled whatever the
\* configuration was before, and only the new workers are to stay.
LEMMA SignalledAgrees ==
  ASSUME NEW s, Agrees(s), NEW signo \in Commands
  PROVE  LET t == Signalled(s, signo)
         IN /\ Agrees(t)
            /\ Settled(s) => Settled(t)
            /\ NewAreCurrent(s) /\ signo = "QUIT" => Settled(t)
            /\ AllReaped(s) => AllReaped(t)
            /\ NoUpgrade(s) => NoUpgrade(t)
            /\ Staffed(s) => Staffed(t)
            /\ AllReaped(s) /\ "unforked" \notin s.m.past =>
                 /\ Staying(t) \subseteq Staying(s)
                 /\ signo = "QUIT" =>
                      \A i \in Staying(t) : s.m.procs[i].just \/ s.m.procs[i].detached
            /\ t.m = [s.m EXCEPT !.procs = t.m.procs, !.flags = t.m.flags]
            /\ t.m.flags \subseteq s.m.flags \union {"reap"}
<1> DEFINE t == Signalled(s, signo)
           told == {i \in DOMAIN s.m.procs : Told(s.m.procs[i], signo)}
<1>1. s \in State /\ s.m \in Memory /\ Len(s.m.procs) <= MaxSlots /\ s.os \in [Slots -> OsProcess]
  BY Fields DEF Agrees
<1>2. /\ t \in State /\ DOMAIN t.m.procs = DOMAIN s.m.procs
      /\ Len(t.m.procs) = Len(s.m.procs)
      /\ \A i \in DOMAIN s.m.procs : t.m.procs[i] = Marked(s, i, signo)
      /\ \A i \in Slots : t.os[i] = IF i \in told THEN Reached(s.os[i], signo) ELSE s.os[i]
      /\ t.m = [s.m EXCEPT !.procs = t.m.procs, !.flags = t.m.flags]
      /\ t.m.flags \subseteq s.m.flags \union {"reap"}
  BY <1>1, SignalledIs
<1> HIDE DEF t
<1>3. /\ t.m.past = s.m.past /\ t.m.cycle = s.m.cycle /\ t.m.newBinary = s.m.newBinary
      /\ t.m.live = s.m.live /\ t.m.running = s.m.running
  BY <1>1, <1>2 DEF Memory
<1>4. \A i \in DOMAIN s.m.procs : i \in Slots
  BY <1>1, Fields, MasterAssumption DEF Slots
<1>5. ASSUME NEW i \in DOMAIN s.m.procs
      PROVE  /\ EntryAgrees(s, i)
             /\ Told(s.m.procs[i], signo) =>
                  s.m.procs[i].used /\ ~s.m.procs[i].detached /\ ~s.m.procs[i].just
             /\ Told(s.m.procs[i], signo) /\ Lost(s, i) => s.m.procs[i].exited
             /\ t.m.procs[i].used <=> s.m.procs[i].used
             /\ t.m.procs[i].detached <=> s.m.procs[i].detached
             /\ t.m.procs[i].respawn <=> s.m.procs[i].respawn
             /\ t.m.procs[i].exited <=> s.m.procs[i].exited
             /\ t.m.procs[i].just <=> (s.m.procs[i].just /\ Passed(s.m.procs[i]))
             /\ ~s.m.procs[i].exited =>
                  (t.m.procs[i].exiting <=>
                     s.m.procs[i].exiting \/ (Told(s.m.procs[i], signo) /\ signo # "REOPEN"))
  <2>1. EntryAgrees(s, i)
    BY <1>4, <1>5 DEF Agrees
  <2>2. Told(s.m.procs[i], signo) =>
          s.m.procs[i].used /\ ~s.m.procs[i].detached /\ ~s.m.procs[i].just
    BY DEF Told, Passed
  <2>3. Told(s.m.procs[i], signo) /\ Lost(s, i) => s.m.procs[i].exited
    BY <2>1, <2>2 DEF EntryAgrees, Lost
  <2> QED
    BY <1>1, <1>2, <2>1, <2>2, <2>3, MarkedIs
<1>6. ASSUME NEW i \in Slots
      PROVE  /\ t.os[i] \in OsProcess /\ t.os[i].cycle = s.os[i].cycle
             /\ s.os[i].life = "none" <=> t.os[i].life = "none"
             /\ t.os[i].life \in {"serving", "draining"} => s.os[i].life \in {"serving", "draining"}
             /\ Withdrawn(s.os[i]) => Withdrawn(t.os[i])
             /\ i \in told /\ s.os[i].life # "none" /\ signo # "REOPEN" => Withdrawn(t.os[i])
  BY <1>1, <1>2, ReachedIs
<1>7. ASSUME NEW i \in DOMAIN s.m.procs
      PROVE  EntryAgrees(t, i)
  <2>1. i \in Slots
    BY <1>4
  <2>2. /\ t.m.procs[i].used /\ ~t.m.procs[i].exited <=> t.os[i].life # "none"
        /\ t.m.procs[i].detached =>
             ~t.m.procs[i].respawn /\ t.os[i].life \notin {"serving", "draining"}
    BY <1>5, <1>6, <2>1 DEF EntryAgrees
  <2>3. ASSUME t.m.procs[i].used, ~t.m.procs[i].exited, ~t.m.procs[i].detached,
               t.m.procs[i].exiting
        PROVE  Withdrawn(t.os[i])
    <3>1. CASE s.m.procs[i].exiting
      BY <1>5, <1>6, <2>1, <2>3, <3>1 DEF EntryAgrees, Withdrawn
    <3>2. CASE Told(s.m.procs[i], signo) /\ signo # "REOPEN"
      <4>1. i \in told /\ s.os[i].life # "none"
        BY <1>5, <2>3, <3>2 DEF EntryAgrees
      <4> QED
        BY <1>6, <2>1, <3>2, <4>1
    <3> QED
      BY <1>5, <2>3, <3>1, <3>2
  <2> QED
    BY <2>2, <2>3 DEF EntryAgrees, Withdrawn
<1>8. Agrees(t)
  BY <1>1, <1>2, <1>6, <1>7 DEF Agrees
<1>9. \A i \in DOMAIN s.m.procs : Old(t, i) <=> Old(s, i)
  BY <1>3, <1>4, <1>6 DEF Old
<1>10. Settled(s) => Settled(t)
  BY <1>2, <1>5, <1>9 DEF Settled
<1>11. ASSUME NewAreCurrent(s), signo = "QUIT"
       PROVE  Settled(t)
  <2> SUFFICES ASSUME NEW i \in DOMAIN s.m.procs, t.m.procs[i].used
               PROVE  /\ ~t.m.procs[i].just
                      /\ ~t.m.procs[i].exited /\ ~t.m.procs[i].detached /\ Old(t, i)
                           => t.m.procs[i].exiting
    BY <1>2 DEF Settled
  <2>1. ~t.m.procs[i].just
    BY <1>5, <1>11 DEF NewAreCurrent, Passed
  <2>2. ASSUME ~t.m.procs[i].exited, ~t.m.procs[i].detached, Old(t, i)
        PROVE  t.m.procs[i].exiting
    BY <1>5, <1>9, <1>11, <2>2 DEF NewAreCurrent, Told, Passed
  <2> QED
    BY <2>1, <2>2
<1>12. /\ AllReaped(s) => AllReaped(t)
       /\ NoUpgrade(s) => NoUpgrade(t)
       /\ Staffed(s) => Staffed(t)
  BY <1>2, <1>3, <1>5, <1>6 DEF AllReaped, NoUpgrade, Staffed
<1>13. ASSUME AllReaped(s), "unforked" \notin s.m.past
       PROVE  /\ Staying(t) \subseteq Staying(s)
              /\ signo = "QUIT" =>
                   \A i \in Staying(t) : s.m.procs[i].just \/ s.m.procs[i].detached
  BY <1>2, <1>5, <1>13 DEF AllReaped, Staying, Told, Passed
<1> QED
  BY <1>2, <1>8, <1>10, <1>11, <1>12, <1>13 DEF t
------------------------------------------------------------------------------
(* Reaping.                                                                *)

LEMMA ReapingWhole ==
  ASSUME NEW s, Whole(s), s.m.running,
         NEW failing \in SUBSET {i \in DOMAIN s.m.procs : Respawns(s, s.m.procs[i])},
         Cardinality(failing) <= s.faults
  PROVE  /\ Whole(Reaping(s, failing)) /\ AllReaped(Reaping(s, failing))
         /\ Reaping(s, failing).m.running
<1> DEFINE again == {i \in DOMAIN s.m.procs : Respawns(s, s.m.procs[i])} \ failing
           binary == s.m.newBinary \in DOMAIN s.m.procs /\ Gone(s, s.m.procs[s.m.newBinary])
           restart == binary /\ Has(s, "noaccepting")
           last == IF s.m.procs # <<>> /\ Gone(s, s.m.procs[Len(s.m.procs)]) THEN Len(s.m.procs) - 1 ELSE Len(s.m.procs)
           n == Cardinality(failing)
           u == Unforked(s, n, n)
           t == Reaping(s, failing)
           procs == [i \in 1 .. last |->
                       CASE i \in again       -> [s.m.procs[i] EXCEPT !.exited = FALSE]
                         [] Gone(s, s.m.procs[i])   -> [s.m.procs[i] EXCEPT !.used = FALSE]
                         [] OTHER             -> s.m.procs[i]]
           procs_os == [i \in Slots |-> IF i \in again THEN Child(u, "serving") ELSE s.os[i]]
           live == again # {} \/ \E i \in DOMAIN s.m.procs : Kept(s.m.procs[i])
           newBinary == IF binary THEN None ELSE s.m.newBinary
           flags == IF restart THEN (s.m.flags \ {"noaccepting"}) \union {"restart"} ELSE s.m.flags
<1>1. s \in State /\ s.m \in Memory /\ s.faults \in Nat /\ Len(s.m.procs) <= MaxSlots
  BY Fields DEF Whole, Agrees
<1>2. s.m.procs \in Seq(Process) /\ DOMAIN s.m.procs = 1 .. Len(s.m.procs) /\ Len(s.m.procs) \in Nat
      /\ \A i \in DOMAIN s.m.procs : i \in Slots /\ s.m.procs[i] \in Process
  BY <1>1, Fields, MasterAssumption DEF Slots
<1>3. failing \in SUBSET Slots /\ n \in Nat
  BY <1>2, SlotsFinite
<1>4. n = 0 <=> failing = {}
  <2>1. IsFiniteSet(failing)
    BY <1>3, SlotsFinite
  <2> QED
    BY <2>1, FS_EmptySet
<1> HIDE DEF n
<1>5. /\ u \in State /\ u.os = s.os /\ u.pending = s.pending
      /\ u.m = [s.m EXCEPT !.past = u.m.past]
      /\ u.m.past = IF failing = {} THEN s.m.past ELSE s.m.past \union {"unforked"}
      /\ u.m.past \in SUBSET {"upgrade", "rollback", "unforked"}
  <2>1. CASE n = 0
    BY <1>1, <1>4, <2>1 DEF Unforked, Memory
  <2>2. CASE n # 0
    <3>1. s.faults - n \in Nat
      BY <1>1, <1>3 DEF n
    <3>2. u = [s EXCEPT !.faults = s.faults - n, !.m.past = @ \union {"unforked"}]
      BY <2>2 DEF Unforked
    <3>3. /\ u.os = s.os /\ u.pending = s.pending /\ u.faults = s.faults - n
          /\ u.m = [s.m EXCEPT !.past = s.m.past \union {"unforked"}]
      BY <1>1, <3>2 DEF State
    <3>4. /\ u.m \in Memory /\ u.m.past = s.m.past \union {"unforked"}
          /\ u.m.past \in SUBSET {"upgrade", "rollback", "unforked"}
      BY <1>1, <3>3 DEF Memory
    <3>5. u \in State
      BY <1>1, <3>1, <3>2, <3>3, <3>4 DEF State
    <3> QED
      BY <1>4, <2>2, <3>3, <3>4, <3>5
  <2> QED
    BY <2>1, <2>2
<1> HIDE DEF u
<1>6. t = [u EXCEPT !.m = [u.m EXCEPT !.procs = procs, !.live = live, !.newBinary = newBinary,
                                     !.flags = flags],
                    !.os = procs_os]
  <2> DEFINE v == Forked(u, again, "serving")
  <2>1. v = [u EXCEPT !.os = procs_os]
    BY <1>5 DEF Forked
  <2>2. v \in [m : {u.m}, os : {procs_os}, pending : {u.pending}, faults : {u.faults}]
    BY <1>5, <2>1 DEF State
  <2>3. /\ v.m = u.m /\ u.m.newBinary = s.m.newBinary /\ u.m.flags = s.m.flags
        /\ v.os = procs_os /\ v.pending = u.pending /\ v.faults = u.faults
    BY <1>1, <1>5, <2>2 DEF Memory
  <2> HIDE DEF procs_os
  <2>4. t = [v EXCEPT !.m = [v.m EXCEPT !.procs = procs, !.live = live,
                                        !.newBinary = newBinary, !.flags = flags]]
    <3> HIDE DEF v
    <3>1. t = [v EXCEPT !.m.procs = procs, !.m.live = live,
                    !.m.newBinary = IF binary THEN None ELSE @,
                    !.m.flags = IF restart THEN (@ \ {"noaccepting"}) \union {"restart"} ELSE @]
      BY DEF Reaping, u, n, v
    <3> HIDE DEF t, procs, live, binary, restart
    <3>2. v.m \in Memory /\ v \in [m : {v.m}, os : {v.os}, pending : {v.pending}, faults : {v.faults}]
      BY <1>5, <2>2, <2>3, Fields
    <3> QED
      BY <2>3, <3>1, <3>2 DEF Memory
  <2> HIDE DEF v, t, procs, live, newBinary, flags
  <2> QED
    BY <1>5, <2>1, <2>2, <2>3, <2>4 DEF State
<1>7. /\ procs \in Seq(Process) /\ Len(procs) = last /\ DOMAIN procs = 1 .. last
      /\ last \in Nat /\ last <= Len(s.m.procs) /\ last >= Len(s.m.procs) - 1
      /\ last # Len(s.m.procs) => Len(s.m.procs) \in DOMAIN s.m.procs /\ Gone(s, s.m.procs[Len(s.m.procs)])
  <2>1. /\ last \in Nat /\ last <= Len(s.m.procs) /\ last >= Len(s.m.procs) - 1
        /\ last # Len(s.m.procs) => Len(s.m.procs) \in DOMAIN s.m.procs /\ Gone(s, s.m.procs[Len(s.m.procs)])
    BY <1>2
  <2>2. \A i \in 1 .. last : i \in DOMAIN s.m.procs
    BY <1>2, <2>1
  <2> HIDE DEF last
  <2>3. procs \in [1 .. last -> Process]
    BY <1>2, <2>2 DEF Process
  <2> HIDE DEF procs
  <2> QED
    BY <2>1, <2>3, IsSequence
<1> HIDE DEF last
<1>8. ASSUME NEW i \in 1 .. last
      PROVE  /\ i \in DOMAIN s.m.procs /\ i \in Slots
             /\ procs[i].used <=> s.m.procs[i].used /\ ~Gone(s, s.m.procs[i])
             /\ procs[i].exited <=> s.m.procs[i].exited /\ i \notin again
             /\ procs[i].exiting <=> s.m.procs[i].exiting
             /\ procs[i].just <=> s.m.procs[i].just
             /\ procs[i].detached <=> s.m.procs[i].detached
             /\ procs[i].respawn <=> s.m.procs[i].respawn
  <2>1. i \in DOMAIN s.m.procs /\ i \in Slots /\ s.m.procs[i] \in Process
    BY <1>2, <1>7
  <2>2. CASE i \in again
    <3>1. procs[i] = [s.m.procs[i] EXCEPT !.exited = FALSE] /\ ~Gone(s, s.m.procs[i])
      BY <2>2 DEF Gone
    <3> QED
      BY <2>1, <2>2, <3>1 DEF Process
  <2>3. CASE i \notin again /\ Gone(s, s.m.procs[i])
    <3>1. procs[i] = [s.m.procs[i] EXCEPT !.used = FALSE]
      BY <2>3
    <3> QED
      BY <2>1, <2>3, <3>1 DEF Process
  <2>4. CASE i \notin again /\ ~Gone(s, s.m.procs[i])
    <3>1. procs[i] = s.m.procs[i]
      BY <2>4
    <3> QED
      BY <2>1, <2>4, <3>1
  <2> QED
    BY <2>2, <2>3, <2>4
<1>9. ASSUME NEW i \in again
      PROVE  /\ i \in DOMAIN s.m.procs /\ i \in Slots /\ i \in 1 .. last
             /\ s.m.procs[i].used /\ s.m.procs[i].exited /\ s.m.procs[i].respawn /\ ~s.m.procs[i].exiting
             /\ ~Gone(s, s.m.procs[i]) /\ ~s.m.procs[i].detached
  <2>1. i \in DOMAIN s.m.procs /\ i \in Slots /\ Respawns(s, s.m.procs[i])
    BY <1>2
  <2>2. s.m.procs[i].used /\ s.m.procs[i].exited /\ s.m.procs[i].respawn /\ ~s.m.procs[i].exiting /\ ~Gone(s, s.m.procs[i])
    BY <2>1 DEF Respawns, Gone
  <2>3. EntryAgrees(s, i)
    BY <2>1 DEF Whole, Agrees
  <2>4. i \in 1 .. last
    BY <1>2, <1>7, <2>1, <2>2
  <2> QED
    BY <2>1, <2>2, <2>3, <2>4 DEF EntryAgrees
<1>10. /\ procs_os \in [Slots -> OsProcess]
       /\ \A i \in again : procs_os[i].life = "serving" /\ procs_os[i].cycle = s.m.cycle
       /\ \A i \in Slots \ again : procs_os[i] = s.os[i]
  <2>1. Child(u, "serving") \in OsProcess /\ Child(u, "serving").life = "serving"
        /\ Child(u, "serving").cycle = s.m.cycle
    BY <1>1, <1>5 DEF Child, OsProcess, Alive, Memory
  <2> HIDE DEF again
  <2> QED
    BY <1>1, <1>9, <2>1, Fields
<1>11. /\ live \in BOOLEAN /\ newBinary \in Slots \union {None, Failed}
       /\ flags \subseteq Flags
  BY <1>1 DEF Memory, Flags
<1>12. /\ newBinary # None => s.m.newBinary # None
       /\ "restart" \in flags => "restart" \in s.m.flags \/ s.m.newBinary # None
  BY <1>2 DEF None
<1>13. ~live => again = {} /\ \A i \in DOMAIN s.m.procs : ~Kept(s.m.procs[i])
  OBVIOUS
<1>14. \A i \in DOMAIN s.m.procs : s.m.procs[i].used /\ s.m.procs[i].exited => Gone(s, s.m.procs[i]) \/ i \in again \/ failing # {}
  BY DEF Gone
<1> HIDE DEF procs, procs_os, live, newBinary, flags, again, t
<1>15. /\ t \in State /\ t.m.procs = procs /\ t.os = procs_os /\ t.m.live = live
       /\ t.m.newBinary = newBinary /\ t.m.flags = flags /\ t.m.cycle = s.m.cycle
       /\ t.m.running = s.m.running /\ t.m.past = u.m.past
  BY <1>1, <1>5, <1>6, <1>7, <1>10, <1>11 DEF State, Memory
<1>16. ASSUME NEW i \in Slots, i \in 1 .. last
       PROVE  EntryAgrees(t, i)
  <2>1. EntryAgrees(s, i) /\ i \in DOMAIN s.m.procs
    BY <1>8, <1>16 DEF Whole, Agrees
  <2>2. CASE i \in again
    BY <1>8, <1>9, <1>10, <1>15, <1>16, <2>2 DEF EntryAgrees
  <2>3. CASE i \notin again /\ Gone(s, s.m.procs[i])
    <3>1. s.os[i].life = "none"
      BY <2>1, <2>3 DEF EntryAgrees, Gone
    <3> QED
      BY <1>8, <1>10, <1>15, <1>16, <2>1, <2>3, <3>1 DEF EntryAgrees
  <2>4. CASE i \notin again /\ ~Gone(s, s.m.procs[i])
    BY <1>8, <1>10, <1>15, <1>16, <2>1, <2>4 DEF EntryAgrees
  <2> QED
    BY <2>2, <2>3, <2>4
<1>17. ASSUME NEW i \in Slots, i \notin 1 .. last
       PROVE  t.os[i].life = "none"
  <2>1. i \notin again /\ t.os[i] = s.os[i]
    BY <1>9, <1>10, <1>15, <1>17
  <2>2. CASE i \in DOMAIN s.m.procs
    <3>1. i = Len(s.m.procs) /\ last # Len(s.m.procs)
      BY <1>2, <1>7, <1>17, <2>2
    <3>2. s.m.procs[i].exited
      BY <1>7, <3>1 DEF Gone
    <3> QED
      BY <2>1, <2>2, <3>2 DEF Whole, Agrees, EntryAgrees
  <2>3. CASE i \notin DOMAIN s.m.procs
    BY <2>1, <2>3 DEF Whole, Agrees
  <2> QED
    BY <2>2, <2>3
<1>18. Agrees(t)
  <2>1. Len(t.m.procs) <= MaxSlots /\ DOMAIN t.m.procs = 1 .. last
    BY <1>1, <1>2, <1>7, <1>15, MasterAssumption
  <2> QED
    BY <1>15, <1>16, <1>17, <2>1 DEF Agrees
<1>19. Settled(t)
  <2> SUFFICES ASSUME NEW i \in 1 .. last, procs[i].used
               PROVE  /\ ~procs[i].just
                      /\ ~procs[i].exited /\ ~procs[i].detached /\ Old(t, i) => procs[i].exiting
    BY <1>7, <1>15 DEF Settled
  <2>1. i \in DOMAIN s.m.procs /\ i \in Slots /\ s.m.procs[i].used
    BY <1>8
  <2>2. /\ ~s.m.procs[i].just
        /\ ~s.m.procs[i].exited /\ ~s.m.procs[i].detached /\ Old(s, i) => s.m.procs[i].exiting
    BY <2>1 DEF Whole, Settled
  <2>3. CASE i \in again
    <3>1. ~Old(t, i)
      BY <1>1, <1>10, <1>15, <2>3 DEF Old, Memory
    <3> QED
      BY <1>8, <2>2, <3>1
  <2>4. CASE i \notin again
    BY <1>8, <1>10, <1>15, <2>1, <2>2, <2>4 DEF Old
  <2> QED
    BY <2>3, <2>4
<1>20. AllReaped(t)
  BY <1>5, <1>7, <1>8, <1>14, <1>15 DEF AllReaped
<1>21. NoUpgrade(t)
  BY <1>5, <1>7, <1>8, <1>12, <1>15 DEF Whole, NoUpgrade
<1>22. Bounded(t)
  <2>1. Staying(t) \in SUBSET Staying(s) /\ Staying(s) \in SUBSET Slots
    BY <1>2, <1>7, <1>8, <1>15 DEF Staying
  <2>2. /\ Cardinality(Staying(t)) <= Cardinality(Staying(s))
        /\ Cardinality(Staying(t)) \in Nat /\ Cardinality(Staying(s)) \in Nat
    BY <2>1, SlotsFinite, FS_Subset
  <2>3. CASE t.m.past \intersect {"upgrade", "unforked"} = {}
    <3>1. s.m.past \intersect {"upgrade", "unforked"} = {}
      BY <1>5, <1>15, <2>3
    <3>2. Cardinality(Staying(s)) <= Workers
      BY <3>1 DEF Whole, Bounded
    <3> QED
      BY <2>2, <3>2, MasterAssumption DEF Bounded
  <2> QED
    BY <2>3 DEF Bounded
<1>23. Staffed(t)
  <2> SUFFICES ASSUME ~live, NEW i \in Slots
               PROVE  t.os[i].life \notin {"serving", "draining"}
    BY <1>15 DEF Staffed
  <2>1. t.os[i] = s.os[i]
    BY <1>10, <1>13, <1>15
  <2>2. CASE i \in DOMAIN s.m.procs
    BY <1>13, <2>1, <2>2 DEF Whole, Agrees, EntryAgrees, Kept
  <2>3. CASE i \notin DOMAIN s.m.procs
    BY <2>1, <2>3 DEF Whole, Agrees
  <2> QED
    BY <2>2, <2>3
<1> QED
  BY <1>15, <1>18, <1>19, <1>20, <1>21, <1>22, <1>23 DEF Whole, t
------------------------------------------------------------------------------
(***************************************************************************)
(* What follows in a passage: every stage of it leaves a sound state       *)
(* sound, and the master runs on unless it has no child left.              *)
(***************************************************************************)
Sound(s) == Whole(s) /\ AllReaped(s) /\ s.m.running

\* A stage that changes the loop's variables, and neither the table nor a process.
LEMMA MemorySound ==
  ASSUME NEW s, Sound(s), NEW t, t \in State, t.os = s.os,
         t.m.procs = s.m.procs, t.m.cycle = s.m.cycle, s.m.past \subseteq t.m.past,
         t.m.running, t.m.live \/ ~s.m.live,
         (t.m.newBinary # None \/ "restart" \in t.m.flags) => "upgrade" \in t.m.past
  PROVE  Sound(t)
<1>1. NoUpgrade(t)
  BY DEF Sound, Whole, NoUpgrade
<1>2. SameTable(s, t)
  BY DEF SameTable
<1>3. (~t.m.running \/ ~t.m.live) => (~s.m.running \/ ~s.m.live)
  OBVIOUS
<1>4. Whole(t) /\ (AllReaped(s) => AllReaped(t))
  BY <1>1, <1>2, <1>3, SameTableWhole DEF Sound
<1> QED
  BY <1>4 DEF Sound

LEMMA SetSound ==
  ASSUME NEW s, Sound(s), NEW flag \in Flags \ {"restart"}
  PROVE  LET t == Set(s, flag)
         IN /\ Sound(t) /\ t.m.flags = s.m.flags \union {flag} /\ t.m.past = s.m.past
            /\ t.m.newBinary = s.m.newBinary /\ t.faults = s.faults
            /\ t.m.live <=> s.m.live
<1> DEFINE t == Set(s, flag)
           flags == s.m.flags \union {flag}
<1>1. s \in State /\ s.m \in Memory /\ s.m.flags \subseteq Flags
  BY Fields DEF Sound, Whole, Agrees
<1>2. flags \subseteq Flags
  BY <1>1
<1>3. t = [s EXCEPT !.m = [s.m EXCEPT !.flags = flags]]
  BY <1>1 DEF Set, State, Memory
<1> HIDE DEF flags, t
<1>4. /\ t \in State /\ t.m = [s.m EXCEPT !.flags = flags] /\ t.os = s.os /\ t.faults = s.faults
  BY <1>1, <1>2, <1>3 DEF State, Memory
<1>5. /\ t.m.procs = s.m.procs /\ t.m.cycle = s.m.cycle /\ t.m.past = s.m.past
      /\ t.m.newBinary = s.m.newBinary /\ t.m.flags = flags
      /\ t.m.running <=> s.m.running
      /\ t.m.live <=> s.m.live
  BY <1>1, <1>4 DEF Memory
<1>6. (t.m.newBinary # None \/ "restart" \in t.m.flags) => "upgrade" \in t.m.past
  BY <1>5 DEF Sound, Whole, NoUpgrade, flags
<1>7. Sound(t)
  BY <1>4, <1>5, <1>6, MemorySound DEF Sound
<1> QED
  BY <1>4, <1>5, <1>7 DEF t, flags

LEMMA ClearSound ==
  ASSUME NEW s, Sound(s), NEW flag
  PROVE  LET t == Clear(s, flag)
         IN /\ Sound(t) /\ t.m.flags = s.m.flags \ {flag} /\ t.m.past = s.m.past
            /\ t.m.newBinary = s.m.newBinary /\ t.faults = s.faults
            /\ t.m.live <=> s.m.live
<1> DEFINE t == Clear(s, flag)
           flags == s.m.flags \ {flag}
<1>1. s \in State /\ s.m \in Memory /\ s.m.flags \subseteq Flags
  BY Fields DEF Sound, Whole, Agrees
<1>2. flags \subseteq Flags
  BY <1>1
<1>3. t = [s EXCEPT !.m = [s.m EXCEPT !.flags = flags]]
  BY <1>1 DEF Clear, State, Memory
<1> HIDE DEF flags, t
<1>4. /\ t \in State /\ t.m = [s.m EXCEPT !.flags = flags] /\ t.os = s.os /\ t.faults = s.faults
  BY <1>1, <1>2, <1>3 DEF State, Memory
<1>5. /\ t.m.procs = s.m.procs /\ t.m.cycle = s.m.cycle /\ t.m.past = s.m.past
      /\ t.m.newBinary = s.m.newBinary /\ t.m.flags = flags
      /\ t.m.running <=> s.m.running
      /\ t.m.live <=> s.m.live
  BY <1>1, <1>4 DEF Memory
<1>6. (t.m.newBinary # None \/ "restart" \in t.m.flags) => "upgrade" \in t.m.past
  BY <1>5 DEF Sound, Whole, NoUpgrade, flags
<1>7. Sound(t)
  BY <1>4, <1>5, <1>6, MemorySound DEF Sound
<1> QED
  BY <1>4, <1>5, <1>7 DEF t, flags

LEMMA SignalledSound ==
  ASSUME NEW s, Sound(s), NEW signo \in Commands
  PROVE  Sound(Signalled(s, signo))
<1> DEFINE t == Signalled(s, signo)
<1>1. s \in State /\ s.m \in Memory
  BY Fields DEF Sound, Whole, Agrees
<1>2. /\ Agrees(t) /\ Settled(t) /\ AllReaped(t) /\ NoUpgrade(t) /\ Staffed(t)
      /\ "unforked" \notin s.m.past => Staying(t) \subseteq Staying(s)
      /\ t.m = [s.m EXCEPT !.procs = t.m.procs, !.flags = t.m.flags]
  BY SignalledAgrees DEF Sound, Whole
<1> HIDE DEF t
<1>3. t.m.past = s.m.past /\ t.m.running = s.m.running
  BY <1>1, <1>2 DEF Memory
<1>4. Bounded(t)
  <2> SUFFICES ASSUME s.m.past \intersect {"upgrade", "unforked"} = {}
               PROVE  Cardinality(Staying(t)) <= Workers
    BY <1>3 DEF Bounded
  <2>1. Staying(t) \in SUBSET Staying(s) /\ Staying(s) \in SUBSET Slots
    BY <1>1, <1>2, Fields, MasterAssumption DEF Staying, Slots, Sound, Whole, Agrees
  <2>2. Cardinality(Staying(s)) <= Workers
    BY DEF Sound, Whole, Bounded
  <2>3. /\ Cardinality(Staying(t)) <= Cardinality(Staying(s))
        /\ Cardinality(Staying(t)) \in Nat /\ Cardinality(Staying(s)) \in Nat
    BY <2>1, SlotsFinite, FS_Subset
  <2> QED
    BY <2>2, <2>3, MasterAssumption
<1> QED
  BY <1>2, <1>3, <1>4 DEF Sound, Whole, t

LEMMA ReapedSound ==
  ASSUME NEW s, Whole(s), s.m.running, "reap" \in s.m.flags \/ AllReaped(s), NEW t \in Reaped(s)
  PROVE  Sound(t)
<1>1. CASE "reap" \notin s.m.flags
  BY <1>1 DEF Reaped, Has, Sound
<1>2. CASE "reap" \in s.m.flags
  <2> DEFINE u == Clear(s, "reap")
  <2>1. s \in State /\ s.m \in Memory /\ s.m.flags \subseteq Flags
    BY Fields DEF Whole, Agrees
  <2>2. u = [s EXCEPT !.m = [s.m EXCEPT !.flags = s.m.flags \ {"reap"}]]
    BY <2>1 DEF Clear, State, Memory
  <2> HIDE DEF u
  <2>3. /\ u \in State /\ u.m = [s.m EXCEPT !.flags = s.m.flags \ {"reap"}] /\ u.os = s.os
        /\ u.faults = s.faults
    BY <2>1, <2>2 DEF State, Memory
  <2>4. /\ u.m.procs = s.m.procs /\ u.m.cycle = s.m.cycle /\ u.m.past = s.m.past
        /\ u.m.newBinary = s.m.newBinary /\ u.m.flags = s.m.flags \ {"reap"}
        /\ u.m.running <=> s.m.running
        /\ u.m.live <=> s.m.live
    BY <2>1, <2>3 DEF Memory
  <2>5. NoUpgrade(u)
    BY <2>4 DEF Whole, NoUpgrade
  <2>6. SameTable(s, u)
    BY <2>3, <2>4 DEF SameTable
  <2>7. Whole(u) /\ u.m.running
    BY <2>4, <2>5, <2>6, SameTableWhole
  <2>8. \A e : Respawns(s, e) <=> Respawns(u, e)
    BY <2>4 DEF Respawns, Has
  <2>9. PICK failing \in SUBSET {i \in DOMAIN s.m.procs : Respawns(s, s.m.procs[i])} :
          Cardinality(failing) <= s.faults /\ t = Reaping(u, failing)
    BY <1>2 DEF Reaped, Has, u
  <2>10. failing \in SUBSET {i \in DOMAIN u.m.procs : Respawns(u, u.m.procs[i])}
    BY <2>4, <2>8
  <2> QED
    BY <2>3, <2>7, <2>9, <2>10, ReapingWhole DEF Sound
<1> QED
  BY <1>1, <1>2

LEMMA TerminatingSound ==
  ASSUME NEW s, Sound(s)
  PROVE  Sound(Terminating(s))
<1> DEFINE delay == IF s.m.delay = 0 THEN 50 ELSE s.m.delay
           t == [s EXCEPT !.m.delay = IF @ = 0 THEN 50 ELSE @]
<1>1. s \in State /\ s.m \in Memory /\ Workers \in Nat /\ delay \in Delays
  BY Fields, MasterAssumption DEF Sound, Whole, Agrees, Memory, Delays
<1> HIDE DEF delay
<1>2. ASSUME NEW sigio \in 0 .. Workers + 2, NEW u,
             u = [s EXCEPT !.m = [s.m EXCEPT !.delay = delay, !.sigio = sigio]]
      PROVE  Sound(u)
  <2>1. u \in State /\ u.m = [s.m EXCEPT !.delay = delay, !.sigio = sigio] /\ u.os = s.os
    BY <1>1, <1>2 DEF State, Memory
  <2>2. /\ u.m.procs = s.m.procs /\ u.m.cycle = s.m.cycle /\ u.m.past = s.m.past
        /\ u.m.newBinary = s.m.newBinary /\ u.m.flags = s.m.flags
        /\ u.m.running <=> s.m.running
        /\ u.m.live <=> s.m.live
    BY <1>1, <2>1 DEF Memory
  <2>3. (u.m.newBinary # None \/ "restart" \in u.m.flags) => "upgrade" \in u.m.past
    BY <2>2 DEF Sound, Whole, NoUpgrade
  <2> QED
    BY <2>1, <2>2, <2>3, MemorySound DEF Sound
<1>3. t = [s EXCEPT !.m = [s.m EXCEPT !.delay = delay]] /\ t.m.sigio = s.m.sigio
  BY <1>1 DEF State, Memory, delay
<1> HIDE DEF t
<1>4. CASE t.m.sigio > 0
  <2>1. s.m.sigio - 1 \in 0 .. Workers + 2
    BY <1>1, <1>3, <1>4 DEF Memory
  <2>2. Terminating(s) = [s EXCEPT !.m = [s.m EXCEPT !.delay = delay, !.sigio = s.m.sigio - 1]]
    <3>1. Terminating(s) = [t EXCEPT !.m.sigio = @ - 1]
      BY <1>4 DEF Terminating, t
    <3> QED
      BY <1>1, <1>3, <3>1 DEF State, Memory
  <2> QED
    BY <1>2, <2>1, <2>2
<1>5. CASE ~(t.m.sigio > 0)
  <2> DEFINE u == [t EXCEPT !.m.sigio = Workers + 2]
  <2>1. Workers + 2 \in 0 .. Workers + 2
    BY <1>1
  <2>2. u = [s EXCEPT !.m = [s.m EXCEPT !.delay = delay, !.sigio = Workers + 2]]
    BY <1>1, <1>3 DEF State, Memory
  <2>3. Sound(u)
    BY <1>2, <2>1, <2>2
  <2>4. \E signo \in Commands : Terminating(s) = Signalled(u, signo)
    BY <1>5 DEF Terminating, t, Commands
  <2> QED
    BY <2>3, <2>4, SignalledSound
<1> QED
  BY <1>4, <1>5

\* Workers started after an upgrade: how many they are is not bounded any more.
LEMMA StartedAgain ==
  ASSUME NEW s, Sound(s), "upgrade" \in s.m.past, NEW t \in StartWorkers(s, RESPAWN),
         NEW u \in State, u.os = t.os, u.m.procs = t.m.procs, u.m.cycle = t.m.cycle,
         t.m.past \subseteq u.m.past, u.m.newBinary = t.m.newBinary, u.m.running,
         u.m.live \/ "rollback" \in u.m.past
  PROVE  Sound(u)
<1>1. Agrees(s) /\ Settled(s) /\ AllReaped(s) /\ NoUpgrade(s)
  BY DEF Sound, Whole
<1>2. RESPAWN # JUST_RESPAWN
  BY DEF RESPAWN, JUST_RESPAWN, Entry
<1>3. /\ Agrees(t) /\ Settled(t) /\ AllReaped(t) /\ NoUpgrade(t)
      /\ s.m.past \subseteq t.m.past
  BY <1>1, <1>2, StartedAgrees
<1>4. Agrees(u)
  BY <1>3 DEF Agrees, EntryAgrees
<1>5. Settled(u) /\ AllReaped(u) /\ Staffed(u)
  BY <1>3 DEF Settled, Old, AllReaped, Staffed
<1>6. "upgrade" \in u.m.past
  BY <1>3
<1> QED
  BY <1>4, <1>5, <1>6 DEF Sound, Whole, NoUpgrade, Bounded

\* What StartWorkers leaves as it was.
LEMMA StartedFields ==
  ASSUME NEW s, Agrees(s), NEW entry \in {RESPAWN, JUST_RESPAWN}, NEW t \in StartWorkers(s, entry)
  PROVE  /\ t \in State /\ t.m \in Memory
         /\ t.m.cycle = s.m.cycle /\ t.m.newBinary = s.m.newBinary /\ t.m.flags = s.m.flags
         /\ t.m.running <=> s.m.running
         /\ t.m.live <=> s.m.live
<1>1. s.m \in Memory
  BY Fields DEF Agrees
<1>2. t \in State /\ t.m = [s.m EXCEPT !.procs = t.m.procs, !.past = t.m.past]
  BY StartedAgrees DEF Agrees
<1> QED
  BY <1>1, <1>2, Fields DEF Memory

LEMMA RolledBackSound ==
  ASSUME NEW s, Sound(s), s.m.newBinary # None, NEW u \in RolledBack(s)
  PROVE  Sound(u)
<1>1. PICK t \in StartWorkers(s, RESPAWN) :
        u = [Clear(t, "noaccepting") EXCEPT !.m.past = @ \union {"rollback"}]
  BY DEF RolledBack
<1>2. Agrees(s) /\ "upgrade" \in s.m.past /\ s.m.running
  BY DEF Sound, Whole, NoUpgrade
<1>3. t \in State /\ t.m \in Memory /\ (t.m.running <=> s.m.running)
  BY <1>2, StartedFields
<1>4. /\ t.m.flags \ {"noaccepting"} \subseteq Flags
      /\ t.m.past \union {"rollback"} \in SUBSET {"upgrade", "rollback", "unforked"}
  BY <1>3 DEF Memory
<1>5. u = [t EXCEPT !.m = [t.m EXCEPT !.flags = t.m.flags \ {"noaccepting"},
                                     !.past = t.m.past \union {"rollback"}]]
  BY <1>1, <1>3 DEF Clear, State, Memory
<1>6. /\ u \in State /\ u.os = t.os
      /\ u.m = [t.m EXCEPT !.flags = t.m.flags \ {"noaccepting"},
                           !.past = t.m.past \union {"rollback"}]
  BY <1>3, <1>4, <1>5 DEF State, Memory
<1>7. /\ u.m.procs = t.m.procs /\ u.m.cycle = t.m.cycle
      /\ u.m.past = t.m.past \union {"rollback"} /\ u.m.newBinary = t.m.newBinary
      /\ u.m.running <=> t.m.running
  BY <1>3, <1>6 DEF Memory
<1> QED
  BY <1>2, <1>3, <1>6, <1>7, StartedAgain

LEMMA RestartedSound ==
  ASSUME NEW s, Sound(s), NEW u \in Restarted(s)
  PROVE  Sound(u)
<1>1. CASE "restart" \notin s.m.flags
  BY <1>1 DEF Restarted, Has
<1>2. CASE "restart" \in s.m.flags
  <2> DEFINE r == Clear(s, "restart")
  <2>1. PICK t \in StartWorkers(r, RESPAWN) : u = [t EXCEPT !.m.live = TRUE]
    BY <1>2 DEF Restarted, Has
  <2>2. Sound(r) /\ r.m.past = s.m.past
    BY ClearSound
  <2> HIDE DEF r
  <2>3. Agrees(r) /\ "upgrade" \in r.m.past /\ r.m.running
    BY <1>2, <2>2 DEF Sound, Whole, NoUpgrade
  <2>4. t \in State /\ t.m \in Memory /\ (t.m.running <=> r.m.running)
    BY <2>3, StartedFields
  <2>5. /\ u \in State /\ u.os = t.os /\ u.m = [t.m EXCEPT !.live = TRUE]
    BY <2>1, <2>4 DEF State, Memory
  <2>6. /\ u.m.procs = t.m.procs /\ u.m.cycle = t.m.cycle
        /\ u.m.past = t.m.past /\ u.m.newBinary = t.m.newBinary /\ u.m.live
        /\ u.m.running <=> t.m.running
    BY <2>4, <2>5 DEF Memory
  <2> QED
    BY <2>2, <2>3, <2>4, <2>5, <2>6, StartedAgain
<1> QED
  BY <1>1, <1>2

\* A reload: what was there is told to quit, and of the workers that are to stay
\* all are new.
LEMMA ReconfiguredSound ==
  ASSUME NEW s, Sound(s), NEW v \in Reconfigured(s)
  PROVE  Sound(v)
<1> DEFINE r == [s EXCEPT !.m.cycle = @ + 1]
<1>1. PICK t \in StartWorkers(r, JUST_RESPAWN) : v = Signalled([t EXCEPT !.m.live = TRUE], "QUIT")
  BY DEF Reconfigured
<1>2. /\ s \in State /\ s.m \in Memory /\ Agrees(s) /\ Settled(s) /\ AllReaped(s)
      /\ NoUpgrade(s) /\ s.m.running
  BY Fields DEF Sound, Whole, Agrees
<1>3. /\ r \in State /\ r.m = [s.m EXCEPT !.cycle = s.m.cycle + 1] /\ r.os = s.os
  BY <1>2 DEF State, Memory
<1>4. /\ r.m.procs = s.m.procs /\ r.m.past = s.m.past /\ r.m.flags = s.m.flags
      /\ r.m.newBinary = s.m.newBinary
      /\ r.m.running <=> s.m.running
  BY <1>2, <1>3 DEF Memory
<1> HIDE DEF r
<1>5. Agrees(r) /\ AllReaped(r) /\ NoUpgrade(r)
  BY <1>2, <1>3, <1>4 DEF Agrees, EntryAgrees, AllReaped, NoUpgrade
<1>6. \A i \in DOMAIN r.m.procs : r.m.procs[i].used => ~r.m.procs[i].just
  BY <1>2, <1>4 DEF Settled
<1>7. /\ t \in State /\ t.m \in Memory /\ (t.m.running <=> r.m.running)
      /\ Agrees(t) /\ AllReaped(t) /\ NoUpgrade(t)
  BY <1>5, StartedFields, StartedAgrees
<1>8. PICK F \in SUBSET Slots :
        /\ Cardinality(F) <= Workers
        /\ Staying(t) \subseteq Staying(r) \union F
        /\ \A i \in F : t.m.procs[i] = JUST_RESPAWN /\ ~Old(t, i)
        /\ \A i \in DOMAIN t.m.procs \ F :
             i \in DOMAIN r.m.procs /\ t.m.procs[i] = r.m.procs[i] /\ t.os[i] = r.os[i]
  BY <1>1, <1>5, StartedAgrees
<1> DEFINE u == [t EXCEPT !.m.live = TRUE]
<1>9. /\ u \in State /\ u.os = t.os /\ u.m = [t.m EXCEPT !.live = TRUE]
  BY <1>7 DEF State, Memory
<1>10. /\ u.m.procs = t.m.procs /\ u.m.cycle = t.m.cycle /\ u.m.past = t.m.past
       /\ u.m.newBinary = t.m.newBinary /\ u.m.live /\ u.m.flags = t.m.flags
       /\ u.m.running <=> t.m.running
  BY <1>7, <1>9 DEF Memory
<1> HIDE DEF u
<1>11. u.m.running
  BY <1>2, <1>4, <1>7, <1>10
<1>12. Agrees(u) /\ AllReaped(u) /\ NoUpgrade(u) /\ Staffed(u)
  BY <1>7, <1>9, <1>10, <1>11 DEF Agrees, EntryAgrees, AllReaped, NoUpgrade, Staffed
<1>13. NewAreCurrent(u)
  <2> SUFFICES ASSUME NEW i \in DOMAIN t.m.procs, t.m.procs[i].used, t.m.procs[i].just
               PROVE  ~Old(t, i) /\ ~t.m.procs[i].detached
    BY <1>9, <1>10 DEF NewAreCurrent, Old
  <2>1. i \in F
    BY <1>6, <1>8
  <2> QED
    BY <1>8, <2>1 DEF JUST_RESPAWN, Entry
<1>14. /\ Agrees(v) /\ Settled(v) /\ AllReaped(v) /\ NoUpgrade(v) /\ Staffed(v)
       /\ "unforked" \notin u.m.past =>
            /\ Staying(v) \subseteq Staying(u)
            /\ \A i \in Staying(v) : u.m.procs[i].just \/ u.m.procs[i].detached
       /\ v.m = [u.m EXCEPT !.procs = v.m.procs, !.flags = v.m.flags]
  <2>1. v = Signalled(u, "QUIT") /\ "QUIT" \in Commands
    BY <1>1 DEF u, Commands
  <2> QED
    BY <1>12, <1>13, <2>1, SignalledAgrees
<1>15. v.m.past = u.m.past /\ v.m.running
  BY <1>9, <1>11, <1>14, Fields DEF Memory
<1>16. Bounded(v)
  <2> SUFFICES ASSUME u.m.past \intersect {"upgrade", "unforked"} = {}
               PROVE  Cardinality(Staying(v)) <= Workers
    BY <1>15 DEF Bounded
  <2>1. ASSUME NEW i \in Staying(v)
        PROVE  i \in F
    <3>1. /\ i \in DOMAIN u.m.procs /\ u.m.procs[i].used
          /\ u.m.procs[i].just \/ u.m.procs[i].detached
      BY <1>14 DEF Staying
    <3>2. ~u.m.procs[i].detached
      BY <1>12, <3>1 DEF NoUpgrade
    <3> QED
      BY <1>6, <1>8, <1>10, <3>1, <3>2
  <2>2. /\ Cardinality(Staying(v)) <= Cardinality(F)
        /\ Cardinality(Staying(v)) \in Nat /\ Cardinality(F) \in Nat
    BY <1>8, <2>1, SlotsFinite, FS_Subset
  <2> QED
    BY <1>8, <2>2, MasterAssumption
<1> QED
  BY <1>14, <1>15, <1>16 DEF Sound, Whole

LEMMA UnreadSound ==
  ASSUME NEW s, Sound(s), NEW t \in Unread(s)
  PROVE  Sound(t)
<1>1. s \in State /\ s.faults \in Nat /\ s.faults # 0 /\ t = [s EXCEPT !.faults = s.faults - 1]
  BY Fields DEF Sound, Whole, Agrees, Unread
<1>2. t \in State /\ t.m = s.m /\ t.os = s.os
  BY <1>1 DEF State
<1> QED
  BY <1>2, MemorySound DEF Sound, Whole, NoUpgrade

LEMMA ReopenedSound ==
  ASSUME NEW s, Sound(s)
  PROVE  Sound(Reopened(s)) /\ Sound(NoAccept(s))
<1>1. Sound(Reopened(s))
  BY ClearSound, SignalledSound DEF Reopened, Has, Commands
<1>2. Sound(NoAccept(s))
  <2> DEFINE u == Clear(s, "noaccept")
  <2>1. Sound(u) /\ Sound(Set(u, "noaccepting"))
    BY ClearSound, SetSound DEF Flags
  <2> QED
    BY <2>1, SignalledSound DEF NoAccept, Has, Commands
<1> QED
  BY <1>1, <1>2

LEMMA UpgradedSound ==
  ASSUME NEW s, Sound(s), NEW u \in Upgraded(s)
  PROVE  Sound(u)
<1>1. CASE "change_binary" \notin s.m.flags
  BY <1>1 DEF Upgraded, Has
<1>2. CASE "change_binary" \in s.m.flags
  <2> DEFINE c == Clear(s, "change_binary")
             t == [c EXCEPT !.m.past = @ \union {"upgrade"}]
             spawned == Spawned(t, 1, DETACHED, "binary")
  <2>1. \/ \E i \in FreeSlots(t, 1) : u = [spawned EXCEPT !.m.newBinary = i]
        \/ s.faults > 0 /\ u = [t EXCEPT !.m.newBinary = Failed, !.faults = @ - 1]
        \/ u = [t EXCEPT !.m.newBinary = Failed]
    BY <1>2 DEF Upgraded, Has
  <2>2. Sound(c) /\ c \in State /\ c.m \in Memory /\ c.faults = s.faults /\ c.faults \in Nat
    BY ClearSound, Fields DEF Sound, Whole, Agrees
  <2> HIDE DEF c
  <2>3. c.m.past \union {"upgrade"} \in SUBSET {"upgrade", "rollback", "unforked"}
    BY <2>2 DEF Memory
  <2>4. /\ t \in State /\ t.m = [c.m EXCEPT !.past = c.m.past \union {"upgrade"}]
        /\ t.os = c.os /\ t.faults = s.faults
    BY <2>2, <2>3 DEF State, Memory
  <2>5. /\ t.m.procs = c.m.procs /\ t.m.cycle = c.m.cycle
        /\ t.m.past = c.m.past \union {"upgrade"} /\ t.m.newBinary = c.m.newBinary
        /\ t.m.running <=> c.m.running
        /\ t.m.live <=> c.m.live
    BY <2>2, <2>4 DEF Memory
  <2> HIDE DEF t, spawned
  <2>6. Sound(t) /\ "upgrade" \in t.m.past /\ t.m \in Memory
    BY <2>2, <2>4, <2>5, MemorySound, Fields DEF Sound
  <2>7. ASSUME NEW w \in State, Sound(w), "upgrade" \in w.m.past,
               NEW b \in Slots \union {None, Failed}, NEW faults \in Nat,
               NEW x, x = [w EXCEPT !.m = [w.m EXCEPT !.newBinary = b], !.faults = faults]
        PROVE  Sound(x)
    <3>1. w.m \in Memory
      BY <2>7, Fields
    <3>2. /\ x \in State /\ x.m = [w.m EXCEPT !.newBinary = b] /\ x.os = w.os
      BY <2>7, <3>1 DEF State, Memory
    <3>3. /\ x.m.procs = w.m.procs /\ x.m.cycle = w.m.cycle /\ x.m.past = w.m.past
          /\ x.m.running <=> w.m.running
          /\ x.m.live <=> w.m.live
      BY <3>1, <3>2 DEF Memory
    <3> QED
      BY <2>7, <3>2, <3>3, MemorySound DEF Sound
  <2>8. CASE \E i \in FreeSlots(t, 1) : u = [spawned EXCEPT !.m.newBinary = i]
    <3>1. PICK i \in FreeSlots(t, 1) : u = [spawned EXCEPT !.m.newBinary = i]
      BY <2>8
    <3> DEFINE kind == <<DETACHED, "binary">>
    <3>2. kind \in Kinds /\ spawned = Spawned(t, 1, kind[1], kind[2]) /\ kind[2] = "binary"
          /\ kind[1] # JUST_RESPAWN
      BY DEF Kinds, spawned, DETACHED, JUST_RESPAWN, Entry
    <3> HIDE DEF kind
    <3>3. /\ Agrees(spawned) /\ Settled(spawned) /\ AllReaped(spawned) /\ NoUpgrade(spawned)
          /\ Staffed(spawned) /\ spawned.m = [t.m EXCEPT !.procs = spawned.m.procs]
      BY <2>6, <3>2, SpawnedAgrees DEF Sound, Whole
    <3>4. /\ spawned \in State /\ spawned.m \in Memory /\ spawned.faults \in Nat
          /\ spawned.m.past = t.m.past /\ spawned.m.running
      BY <2>6, <3>3, Fields DEF Agrees, Memory, Sound
    <3>5. Sound(spawned)
      BY <2>6, <3>3, <3>4 DEF Sound, Whole, Bounded
    <3>6. i \in Slots
      BY <2>4, <2>6, FreeSlotsFill DEF Sound, Whole, Agrees
    <3>7. u = [spawned EXCEPT !.m = [spawned.m EXCEPT !.newBinary = i], !.faults = spawned.faults]
      BY <3>1, <3>4 DEF State
    <3> QED
      BY <2>6, <2>7, <3>4, <3>5, <3>6, <3>7
  <2>9. CASE s.faults > 0 /\ u = [t EXCEPT !.m.newBinary = Failed, !.faults = @ - 1]
    <3>1. u = [t EXCEPT !.m = [t.m EXCEPT !.newBinary = Failed], !.faults = s.faults - 1]
      BY <2>4, <2>9 DEF State
    <3>2. s.faults - 1 \in Nat
      BY <2>2, <2>9
    <3> QED
      BY <2>4, <2>6, <2>7, <3>1, <3>2
  <2>10. CASE u = [t EXCEPT !.m.newBinary = Failed]
    <3>1. u = [t EXCEPT !.m = [t.m EXCEPT !.newBinary = Failed], !.faults = s.faults]
      BY <2>4, <2>10 DEF State
    <3> QED
      BY <2>2, <2>4, <2>6, <2>7, <3>1
  <2> QED
    BY <2>1, <2>8, <2>9, <2>10
<1> QED
  BY <1>1, <1>2

LEMMA RestSound ==
  ASSUME NEW s, Sound(s), NEW t \in Rest(s)
  PROVE  Sound(t)
<1>1. PICK r \in Restarted(s) : \E u \in Upgraded(Reopened(r)) : t = NoAccept(u)
  BY DEF Rest
<1>2. Sound(Reopened(r))
  BY RestartedSound, ReopenedSound
<1> QED
  BY <1>1, <1>2, UpgradedSound, ReopenedSound

\* The master leaves its loop only when no child was left to wait for.
LEMMA ActedWhole ==
  ASSUME NEW s, Sound(s), NEW t \in Acted(s)
  PROVE  Whole(t) /\ AllReaped(t)
<1>1. CASE ~s.m.live /\ t = [s EXCEPT !.m.running = FALSE]
  <2>1. s \in State /\ s.m \in Memory
    BY Fields DEF Sound, Whole, Agrees
  <2>2. t \in State /\ t.m = [s.m EXCEPT !.running = FALSE] /\ t.os = s.os
    BY <1>1, <2>1 DEF State, Memory
  <2>3. /\ t.m.procs = s.m.procs /\ t.m.cycle = s.m.cycle /\ t.m.past = s.m.past
        /\ t.m.newBinary = s.m.newBinary /\ t.m.flags = s.m.flags
    BY <2>1, <2>2 DEF Memory
  <2>4. SameTable(s, t) /\ NoUpgrade(t)
    BY <2>2, <2>3 DEF SameTable, Sound, Whole, NoUpgrade
  <2> QED
    BY <1>1, <2>4, SameTableWhole DEF Sound
<1>2. CASE t = Terminating(s) \/ t = Signalled(s, "QUIT") \/ t \in Rest(s)
  BY <1>2, TerminatingSound, SignalledSound, RestSound DEF Sound, Commands
<1>3. CASE \E c \in {Clear(s, "reconfigure")} :
             \/ c.m.newBinary # None /\ t \in RolledBack(c)
             \/ \E u \in Reconfigured(c) : t \in Rest(u)
             \/ t \in Unread(c)
  BY <1>3, ClearSound, RolledBackSound, ReconfiguredSound, RestSound, UnreadSound DEF Sound
<1> QED
  BY <1>1, <1>2, <1>3 DEF Acted, Has

LEMMA RearmedWhole ==
  ASSUME NEW s, Whole(s), AllReaped(s)
  PROVE  Whole(Rearmed(s)) /\ AllReaped(Rearmed(s))
<1>1. CASE ~(s.m.delay > 0 /\ Has(s, "sigalrm"))
  <2>1. Rearmed(s) = s
    BY <1>1 DEF Rearmed
  <2> QED
    BY <2>1
<1>2. CASE s.m.delay > 0 /\ Has(s, "sigalrm")
  <2> DEFINE t == Rearmed(s)
             flags == s.m.flags \ {"sigalrm"}
             delay == Doubled(s.m.delay)
  <2>1. /\ s \in State /\ s.m \in Memory /\ flags \subseteq Flags /\ delay \in Delays
        /\ 0 \in 0 .. Workers + 2
    BY Fields, MasterAssumption DEF Whole, Agrees, Memory, Delays, Doubled
  <2>2. t = [s EXCEPT !.m = [s.m EXCEPT !.flags = flags, !.sigio = 0, !.delay = delay]]
    BY <1>2, <2>1 DEF Rearmed, Clear, State, Memory
  <2> HIDE DEF t, flags, delay
  <2>3. /\ t \in State /\ t.os = s.os
        /\ t.m = [s.m EXCEPT !.flags = flags, !.sigio = 0, !.delay = delay]
    BY <2>1, <2>2 DEF State, Memory
  <2>4. /\ t.m.procs = s.m.procs /\ t.m.cycle = s.m.cycle /\ t.m.past = s.m.past
        /\ t.m.newBinary = s.m.newBinary /\ t.m.flags = flags
        /\ t.m.running <=> s.m.running
        /\ t.m.live <=> s.m.live
    BY <2>1, <2>3 DEF Memory
  <2>5. SameTable(s, t) /\ NoUpgrade(t)
    BY <2>3, <2>4 DEF SameTable, Whole, NoUpgrade, flags
  <2> QED
    BY <2>4, <2>5, SameTableWhole DEF t
<1> QED
  BY <1>1, <1>2
------------------------------------------------------------------------------
LEMMA WakeStep ==
  ASSUME MasterInv, Wake
  PROVE  MasterInv'
<1>1. PICK t \in Reaped(Handled(Found)) : \E u \in Acted(t) :
        /\ m' = Rearmed(u).m /\ os' = Rearmed(u).os /\ pending' = Rearmed(u).pending
        /\ alarm' = (alarm \/ Rearmed(u).m.delay > 0)
        /\ left' = [left EXCEPT !.faults = Rearmed(u).faults]
  BY DEF Wake
<1>2. PICK u \in Acted(t) :
        /\ m' = Rearmed(u).m /\ os' = Rearmed(u).os /\ pending' = Rearmed(u).pending
        /\ alarm' = (alarm \/ Rearmed(u).m.delay > 0)
        /\ left' = [left EXCEPT !.faults = Rearmed(u).faults]
  BY <1>1
<1>3. /\ Whole(Found) /\ AllReaped(Found) /\ Found.m.running
      /\ alarm \in BOOLEAN /\ left \in [signals : Nat, faults : Nat]
  BY DEF MasterInv, Whole, Wake, Found
<1> DEFINE h == Handled(Found)
           v == Rearmed(u)
<1>4. h.m.running
  <2>1. Found \in State
    BY <1>3 DEF Whole, Agrees
  <2>2. \A s : s \in State => (StatusTaken(s).m.running <=> s.m.running)
    BY Fields DEF StatusTaken, State, Memory
  <2> DEFINE new == UNION {FlagOf(Found, sig) : sig \in Found.pending}
             s == [Found EXCEPT !.m.flags = @ \union new, !.pending = {}]
  <2>3. new \subseteq Flags
    BY <2>1, MasterAssumption, Fields DEF Signals, FlagOf, Flags
  <2> HIDE DEF new
  <2>4. s \in State /\ s.m.running
    BY <1>3, <2>1, <2>3, Fields DEF State, Memory
  <2> QED
    BY <2>2, <2>4 DEF Handled, new
<1>5. Whole(h) /\ ("reap" \in h.m.flags \/ AllReaped(h))
  BY <1>3, HandledWhole
<1> HIDE DEF h
<1>6. Sound(t)
  BY <1>4, <1>5, ReapedSound DEF h
<1>7. Whole(v) /\ AllReaped(v)
  BY <1>6, ActedWhole, RearmedWhole
<1> HIDE DEF v
<1>8. v \in State /\ v.m.delay \in Delays /\ v.faults \in Nat
  BY <1>7, Fields DEF Whole, Agrees, Memory
<1>9. left' \in [signals : Nat, faults : Nat] /\ left'.faults = v.faults /\ alarm' \in BOOLEAN
  BY <1>2, <1>3, <1>8 DEF v, Delays
<1>10. Found' = v
  BY <1>2, <1>8, <1>9 DEF Found, State, v
<1> QED
  BY <1>7, <1>9, <1>10 DEF MasterInv, Whole

LEMMA MasterInit ==
  ASSUME Init
  PROVE  MasterInv
<1> DEFINE s0 == [m |-> [procs |-> <<>>, flags |-> {}, running |-> TRUE, live |-> TRUE,
                        delay |-> 0, sigio |-> 0, newBinary |-> None, cycle |-> 1,
                        past |-> {}],
                  os |-> [i \in Slots |-> Nobody], pending |-> {}, faults |-> 0]
<1>1. PICK t \in StartWorkers(s0, RESPAWN) : m = t.m /\ os = t.os /\ pending = t.pending
  BY DEF Init
<1>2. /\ s0.m \in Memory /\ s0.m.procs = <<>> /\ s0.m.flags = {} /\ s0.m.running /\ s0.m.live
      /\ s0.m.newBinary = None /\ s0.m.past = {}
  BY MasterAssumption DEF Memory, Delays
<1>3. s0 \in State /\ \A i \in Slots : s0.os[i].life = "none"
  BY <1>2 DEF State, OsProcess, Nobody
<1> HIDE DEF s0
<1>4. DOMAIN s0.m.procs = {} /\ Len(s0.m.procs) = 0
  BY <1>2
<1>5. /\ Agrees(s0) /\ Settled(s0) /\ AllReaped(s0) /\ NoUpgrade(s0) /\ Staying(s0) = {}
  BY <1>2, <1>3, <1>4, MasterAssumption DEF Agrees, Settled, AllReaped, NoUpgrade, Staying
<1>6. RESPAWN # JUST_RESPAWN
  BY DEF RESPAWN, JUST_RESPAWN, Entry
<1>7. /\ Agrees(t) /\ Settled(t) /\ AllReaped(t) /\ NoUpgrade(t)
      /\ \E F \in SUBSET Slots : Cardinality(F) <= Workers /\ Staying(t) \subseteq F
  BY <1>5, <1>6, StartedAgrees
<1>8. Cardinality(Staying(t)) <= Workers
  <2>1. PICK F \in SUBSET Slots : Cardinality(F) <= Workers /\ Staying(t) \subseteq F
    BY <1>7
  <2>2. /\ Cardinality(Staying(t)) <= Cardinality(F)
        /\ Cardinality(Staying(t)) \in Nat /\ Cardinality(F) \in Nat
    BY <2>1, SlotsFinite, FS_Subset
  <2> QED
    BY <2>1, <2>2, MasterAssumption
<1>9. t.m.running /\ t.m.live /\ t \in State
  BY <1>2, <1>5, StartedFields
<1>10. /\ Found = [m |-> t.m, os |-> t.os, pending |-> t.pending, faults |-> left.faults]
       /\ left.faults \in Nat /\ left \in [signals : Nat, faults : Nat] /\ alarm \in BOOLEAN
  BY <1>1, MasterAssumption DEF Init, Found
<1>11. /\ Found \in State /\ Found.m = t.m /\ Found.os = t.os
  BY <1>9, <1>10 DEF State
<1>12. Agrees(Found) /\ Settled(Found) /\ AllReaped(Found) /\ NoUpgrade(Found)
  BY <1>7, <1>11 DEF Agrees, EntryAgrees, Settled, Old, AllReaped, NoUpgrade
<1>13. Bounded(Found) /\ Staffed(Found)
  BY <1>8, <1>9, <1>11 DEF Bounded, Staying, Staffed
<1> QED
  BY <1>10, <1>12, <1>13 DEF MasterInv

\* No step of the master, its children, the timer or an operator disturbs what
\* holds between two passages of ngx_master_process_cycle.
THEOREM MasterInvariant == Spec => []MasterInv
<1>1. MasterInv /\ [Next]_vars => MasterInv'
  <2> SUFFICES ASSUME MasterInv, [Next]_vars
               PROVE  MasterInv'
    OBVIOUS
  <2>1. /\ pending \subseteq Signals /\ alarm \in BOOLEAN /\ left \in [signals : Nat, faults : Nat]
        /\ "ALRM" \in Signals /\ Operators \subseteq Signals
    BY DEF MasterInv, Agrees, State, Found, Signals
  <2>2. CASE Wake
    BY <2>2, WakeStep
  <2>3. CASE Alarm
    BY <2>1, <2>3, SignalStep DEF Alarm
  <2>4. CASE \E sig \in Operators : Send(sig)
    <3>1. PICK sig \in Operators : Send(sig)
      BY <2>4
    <3>2. left' \in [signals : Nat, faults : Nat]
      BY <2>1, <3>1 DEF Send
    <3> QED
      BY <2>1, <3>1, <3>2, SignalStep DEF Send
  <2>5. CASE \E p \in Slots : InitFails(p) \/ Crash(p) \/ Loop(p) \/ Drained(p)
                              \/ BinaryExits(p) \/ Dead(p)
    BY <2>5, ChildrenStep
  <2>6. CASE UNCHANGED vars
    BY <2>1, <2>6, SignalStep DEF vars
  <2> QED
    BY <2>2, <2>3, <2>4, <2>5, <2>6 DEF Next
<1> QED
  BY <1>1, MasterInit, PTL DEF Spec

\* Every child is where its master looks for it: ngx_spawn_process overwrites no
\* entry whose process is still there, and ngx_process_get_status finds the entry
\* of every process it waits for.
THEOREM ChildrenKnown == Spec => []ChildrenAreKnown
<1>1. MasterInv => ChildrenAreKnown
  <2> SUFFICES ASSUME MasterInv
               PROVE  ChildrenAreKnown
    OBVIOUS
  <2>1. /\ Found \in State /\ Found.m = m /\ Found.os = os /\ Found.pending = pending
        /\ \A i \in Slots : IF i \in DOMAIN m.procs THEN EntryAgrees(Found, i)
                                                    ELSE os[i].life = "none"
    BY DEF MasterInv, Agrees, Found
  <2>2. MasterTypeOK
    BY <2>1 DEF MasterInv, MasterTypeOK, State, Memory, OsProcess
  <2>3. \A p \in Slots : os[p].life # "none" =>
           p \in DOMAIN m.procs /\ m.procs[p].used /\ ~m.procs[p].exited
    BY <2>1 DEF EntryAgrees
  <2> QED
    BY <2>2, <2>3 DEF ChildrenAreKnown
<1> QED
  BY <1>1, MasterInvariant, PTL

\* Except after a HUP that takes an upgrade back, a master that has left its loop,
\* or thinks it has no live child, leaves no worker behind.
THEOREM MasterLeavesLast == Spec => []NoOrphans
<1>1. MasterInv => NoOrphans
  BY DEF MasterInv, Staffed, Found, NoOrphans, Serving, Alive
<1> QED
  BY <1>1, MasterInvariant, PTL

\* After a reload no worker serves an old configuration for good, even one that
\* was just forked when the signal came.
THEOREM OldWorkersLeave == Spec => []OldWorkersTold
<1>1. MasterInv => OldWorkersTold
  <2> SUFFICES ASSUME MasterInv, NEW i \in DOMAIN m.procs,
                      m.procs[i].used, ~m.procs[i].exited, ~m.procs[i].detached
               PROVE  /\ os[i].cycle < m.cycle => m.procs[i].exiting
                      /\ m.procs[i].exiting => \/ os[i].life \in {"draining", "dying", "zombie"}
                                              \/ os[i].inbox \intersect {"QUIT", "TERM"} # {}
    BY DEF OldWorkersTold
  <2>1. i \in Slots
    BY Fields, MasterAssumption DEF MasterInv, Agrees, Found, Slots
  <2>2. EntryAgrees(Found, i)
    BY <2>1 DEF MasterInv, Agrees, Found
  <2> QED
    BY <2>2 DEF MasterInv, EntryAgrees, Settled, Old, Found
<1> QED
  BY <1>1, MasterInvariant, PTL

\* However reloads, deaths, respawns and reopenings interleave, no more than
\* worker_processes workers are meant to stay.
THEOREM WorkersAreBounded == Spec => []WorkersBounded
<1>1. MasterInv => WorkersBounded
  BY DEF MasterInv, Bounded, Staying, Found, WorkersBounded
<1> QED
  BY <1>1, MasterInvariant, PTL
==============================================================================
