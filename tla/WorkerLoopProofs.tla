-------------------------- MODULE WorkerLoopProofs ---------------------------
(***************************************************************************)
(* Proofs about a worker of the image and video server, for any number of  *)
(* slots, clients, pieces of requests and closed ends.                     *)
(*                                                                         *)
(* A handler changes one slot.  What it leaves alone is stated once, as    *)
(* Same, and what holds of the slot between two handlers as InOrder and    *)
(* Noted; the lemmas follow a handler from one to the other.               *)
(***************************************************************************)
EXTENDS WorkerLoop, FiniteSetTheorems, SequenceTheorems, WellFoundedInduction, TLAPS

Stages == {"top", "batch", "accept", "drain", "posted", "idle", "gone"}

Workers == [conn : [Slots -> Connection], free : Seq(Slots), reusable : Seq(Slots),
            posted : Seq(Slots), batch : Seq(Event), exiting : BOOLEAN,
            drain : Nat, stage : Stages]

States == [w : Workers, sock : [Slots -> Socket]]

\* No slot is twice in the free list or in a queue.
Once(s) == IsInjective(s.w.free) /\ IsInjective(s.w.reusable) /\ IsInjective(s.w.posted)

Free(s, k) == k \in ToSet(s.w.free)
Queued(s, k) == k \in ToSet(s.w.reusable)
Awaits(s, k) == k \in ToSet(s.w.posted)

IdlePhases == {"wait", "keepalive", "lingering"}

\* What a client has sent, and may still send, fits.
Fits(s, k) == s.w.conn[k].buffered + s.sock[k].unread + left.pieces <= MaxPieces

\* A slot between two handlers.
InOrder(s, k) ==
  LET c == s.w.conn[k]
  IN /\ Free(s, k) <=> c.phase = "closed"
     /\ Queued(s, k) <=> c.phase \in IdlePhases
     /\ Awaits(s, k) => c.phase \in {"reading", "keepalive"} /\ (c.buffered > 0 \/ c.ready)
     /\ c.phase # "closed" => c.timer \/ Awaits(s, k)
     /\ c.phase = "writing" => c.timer
     /\ c.phase = "closed" => c = FreeSlot(c.instance) /\ s.sock[k] = Quiet
     /\ Fits(s, k)

\* The batch still holds an event that tells slot k to read; or of its end.
ToRead(s, k) ==
  \E i \in DOMAIN s.w.batch :
    /\ s.w.batch[i].slot = k /\ s.w.batch[i].instance = s.w.conn[k].instance
    /\ s.w.batch[i].in

ToEnd(s, k) ==
  \E i \in DOMAIN s.w.batch :
    /\ s.w.batch[i].slot = k /\ s.w.batch[i].instance = s.w.conn[k].instance
    /\ s.w.batch[i].in /\ s.w.batch[i].hup

\* What is at the socket is known: to epoll, in ready and eof, or in the batch.
Known(s, k) ==
  LET c == s.w.conn[k]
      o == s.sock[k]
  IN /\ (o.unread > 0 \/ o.fin) =>
          \/ o.edge \/ ToRead(s, k)
          \/ c.ready /\ (c.phase = "writing" \/ Awaits(s, k))
     /\ o.fin => o.edge \/ c.eof \/ ToEnd(s, k)

\* The events of a batch are of different slots, of none that waits for its turn.
BatchOK(s) ==
  /\ \A i, j \in DOMAIN s.w.batch : s.w.batch[i].slot = s.w.batch[j].slot => i = j
  /\ \A i \in DOMAIN s.w.batch : ~Awaits(s, s.w.batch[i].slot)

\* What has been worked off where the worker stands.
Staged ==
  /\ w.stage \notin {"batch", "accept", "drain"} => w.batch = <<>>
  /\ w.stage \in {"top", "idle", "gone"} => w.posted = <<>>
  /\ w.stage = "drain" => w.drain > 0 /\ w.reusable # <<>>
  /\ w.stage = "gone" => "TERM" \in signals \/ \A k \in Slots : ~Open(Found, k)

RestTypes ==
  /\ signals \subseteq {"QUIT", "TERM"}
  /\ left \in [clients : Nat, pieces : Nat, reads : Nat, closes : Nat]
  /\ backlog \in Nat /\ backlog + left.clients <= MaxClients

WorkerInv ==
  /\ Found \in States /\ Once(Found) /\ RestTypes
  /\ \A k \in Slots : InOrder(Found, k) /\ Known(Found, k)
  /\ BatchOK(Found) /\ Staged

-----------------------------------------------------------------------------
(* Queues.                                                                 *)

\* ngx_queue_insert_head, and the free list.
LEMMA InFront ==
  ASSUME NEW S, NEW q \in Seq(S), IsInjective(q), NEW k \in S, k \notin ToSet(q)
  PROVE  /\ <<k>> \o q \in Seq(S)
         /\ IsInjective(<<k>> \o q)
         /\ ToSet(<<k>> \o q) = ToSet(q) \union {k}
<1> DEFINE r == <<k>> \o q
<1>1. /\ r \in Seq(S) /\ Len(r) = Len(q) + 1 /\ DOMAIN r = 1 .. Len(q) + 1
      /\ \A i \in 1 .. Len(r) : r[i] = IF i = 1 THEN k ELSE q[i - 1]
  OBVIOUS
<1>2. DOMAIN q = 1 .. Len(q) /\ Len(q) \in Nat
  OBVIOUS
<1> HIDE DEF r
<1>3. IsInjective(r)
  <2> SUFFICES ASSUME NEW a \in DOMAIN r, NEW b \in DOMAIN r, r[a] = r[b]
               PROVE  a = b
    BY DEF IsInjective
  <2>1. a \in 1 .. Len(r) /\ b \in 1 .. Len(r)
    BY <1>1
  <2>2. \A i \in 1 .. Len(r) : i # 1 => i - 1 \in DOMAIN q
    BY <1>1, <1>2
  <2>3. CASE a = 1
    BY <2>1, <2>2, <2>3, <1>1 DEF ToSet
  <2>4. CASE b = 1
    BY <2>1, <2>2, <2>4, <1>1 DEF ToSet
  <2>5. CASE a # 1 /\ b # 1
    <3>1. q[a - 1] = q[b - 1]
      BY <2>1, <2>5, <1>1
    <3>2. a - 1 = b - 1
      BY <3>1, <2>1, <2>2, <2>5 DEF IsInjective
    <3> QED BY <3>2, <2>1, <1>1, <1>2
  <2> QED BY <2>3, <2>4, <2>5
<1>4. ToSet(r) = ToSet(q) \union {k}
  <2>1. ASSUME NEW x \in ToSet(r) PROVE x \in ToSet(q) \union {k}
    <3>1. PICK i \in DOMAIN r : r[i] = x
      BY DEF ToSet
    <3> QED BY <3>1, <1>1, <1>2 DEF ToSet
  <2>2. k \in ToSet(r)
    <3>1. r[1] = k /\ 1 \in DOMAIN r
      BY <1>1, <1>2
    <3> QED BY <3>1 DEF ToSet
  <2>3. ASSUME NEW x \in ToSet(q) PROVE x \in ToSet(r)
    <3>1. PICK i \in DOMAIN q : q[i] = x
      BY DEF ToSet
    <3>2. i + 1 \in DOMAIN r /\ r[i + 1] = q[i]
      BY <1>1, <1>2
    <3> QED BY <3>1, <3>2 DEF ToSet
  <2> QED BY <2>1, <2>2, <2>3
<1> QED BY <1>1, <1>3, <1>4 DEF r

\* ngx_queue_insert_tail, for posted events.
LEMMA AtTheEnd ==
  ASSUME NEW S, NEW q \in Seq(S), IsInjective(q), NEW k \in S, k \notin ToSet(q)
  PROVE  /\ Append(q, k) \in Seq(S)
         /\ IsInjective(Append(q, k))
         /\ ToSet(Append(q, k)) = ToSet(q) \union {k}
<1> DEFINE r == Append(q, k)
<1>1. /\ r \in Seq(S) /\ Len(r) = Len(q) + 1 /\ DOMAIN r = 1 .. Len(q) + 1
      /\ \A i \in 1 .. Len(r) : r[i] = IF i = Len(q) + 1 THEN k ELSE q[i]
  OBVIOUS
<1>2. DOMAIN q = 1 .. Len(q) /\ Len(q) \in Nat
  OBVIOUS
<1> HIDE DEF r
<1>3. \A i \in DOMAIN r : i # Len(q) + 1 => i \in DOMAIN q /\ r[i] = q[i]
  BY <1>1, <1>2
<1>4. r[Len(q) + 1] = k /\ Len(q) + 1 \in DOMAIN r
  BY <1>1, <1>2
<1>5. \A i \in DOMAIN q : i \in DOMAIN r /\ r[i] = q[i]
  BY <1>1, <1>2
<1>6. IsInjective(r)
  BY <1>3, <1>4 DEF IsInjective, ToSet
<1>7. ToSet(r) = ToSet(q) \union {k}
  BY <1>3, <1>4, <1>5 DEF ToSet
<1> QED BY <1>1, <1>6, <1>7 DEF r

\* Taking the first of a queue.
LEMMA OffTheFront ==
  ASSUME NEW S, NEW q \in Seq(S), IsInjective(q), q # <<>>
  PROVE  /\ Tail(q) \in Seq(S) /\ Head(q) \in ToSet(q) /\ Head(q) \in S
         /\ IsInjective(Tail(q))
         /\ ToSet(Tail(q)) = ToSet(q) \ {Head(q)}
<1> DEFINE r == Tail(q)
<1>1. /\ r \in Seq(S) /\ Len(r) = Len(q) - 1 /\ DOMAIN r = 1 .. Len(q) - 1
      /\ \A i \in 1 .. Len(r) : r[i] = q[i + 1]
  OBVIOUS
<1>2. DOMAIN q = 1 .. Len(q) /\ Len(q) \in Nat \ {0} /\ Head(q) = q[1] /\ q[1] \in S
  OBVIOUS
<1> HIDE DEF r
<1>3. \A i \in DOMAIN r : i + 1 \in DOMAIN q /\ i + 1 # 1 /\ r[i] = q[i + 1] /\ i \in Int
  BY <1>1, <1>2
<1>4. \A i \in DOMAIN q : i # 1 => i - 1 \in DOMAIN r /\ r[i - 1] = q[i]
  <2> SUFFICES ASSUME NEW i \in DOMAIN q, i # 1
               PROVE  i - 1 \in DOMAIN r /\ r[i - 1] = q[i]
    OBVIOUS
  <2>1. i - 1 \in 1 .. Len(r) /\ (i - 1) + 1 = i
    BY <1>1, <1>2
  <2> QED BY <2>1, <1>1
<1>5. 1 \in DOMAIN q
  BY <1>2
<1>6. IsInjective(r)
  <2> SUFFICES ASSUME NEW a \in DOMAIN r, NEW b \in DOMAIN r, r[a] = r[b]
               PROVE  a = b
    BY DEF IsInjective
  <2>1. a + 1 = b + 1
    BY <1>3 DEF IsInjective
  <2> QED BY <2>1, <1>3
<1>7. ToSet(r) = ToSet(q) \ {Head(q)}
  <2>1. ASSUME NEW x \in ToSet(r) PROVE x \in ToSet(q) \ {Head(q)}
    <3>1. PICK i \in DOMAIN r : r[i] = x
      BY DEF ToSet
    <3>2. i + 1 \in DOMAIN q /\ q[i + 1] = x /\ i + 1 # 1
      BY <3>1, <1>3
    <3> QED BY <3>2, <1>2, <1>5 DEF ToSet, IsInjective
  <2>2. ASSUME NEW x \in ToSet(q), x # Head(q) PROVE x \in ToSet(r)
    <3>1. PICK i \in DOMAIN q : q[i] = x
      BY DEF ToSet
    <3> QED BY <3>1, <2>2, <1>2, <1>4 DEF ToSet
  <2> QED BY <2>1, <2>2
<1> QED BY <1>1, <1>2, <1>5, <1>6, <1>7 DEF r, ToSet

LEMMA LastIsIn ==
  ASSUME NEW S, NEW q \in Seq(S), q # <<>>
  PROVE  Last(q) \in ToSet(q) /\ Last(q) \in S
  BY DEF Last, ToSet

\* ngx_queue_remove
LEMMA TakenOut ==
  ASSUME NEW S, NEW q \in Seq(S), IsInjective(q), NEW k
  PROVE  /\ Without(q, k) \in Seq(S)
         /\ IsInjective(Without(q, k))
         /\ ToSet(Without(q, k)) = ToSet(q) \ {k}
<1>1. CASE k \notin ToSet(q)
  BY <1>1 DEF Without
<1>2. CASE k \in ToSet(q)
  <2>2. DOMAIN q = 1 .. Len(q) /\ Len(q) \in Nat
    OBVIOUS
  <2>1. PICK n \in 1 .. Len(q) : q[n] = k /\ Without(q, k) = RemoveAt(q, n)
    <3>1. \E i \in DOMAIN q : q[i] = k
      BY <1>2 DEF ToSet
    <3>2. q[CHOOSE i \in DOMAIN q : q[i] = k] = k /\ (CHOOSE i \in DOMAIN q : q[i] = k) \in DOMAIN q
      BY <3>1
    <3> QED BY <3>2, <1>2, <2>2, Zenon DEF Without
  <2> DEFINE r == RemoveAt(q, n)
  <2>3. n \in 1 .. Len(q) /\ n \in DOMAIN q
    BY <2>1, <2>2
  <2>4. /\ SubSeq(q, 1, n - 1) \in Seq(S) /\ Len(SubSeq(q, 1, n - 1)) = n - 1
        /\ \A i \in 1 .. n - 1 : SubSeq(q, 1, n - 1)[i] = q[i]
    BY <2>3, <2>2
  <2>5. /\ SubSeq(q, n + 1, Len(q)) \in Seq(S) /\ Len(SubSeq(q, n + 1, Len(q))) = Len(q) - n
        /\ \A i \in 1 .. Len(q) - n : SubSeq(q, n + 1, Len(q))[i] = q[n + i]
    <3> DEFINE b == SubSeq(q, n + 1, Len(q))
    <3>1. n + 1 \in Int /\ Len(q) \in Int /\ \A i \in n + 1 .. Len(q) : q[i] \in S
      BY <2>2, <2>3
    <3>2. /\ b \in Seq(S)
          /\ Len(b) = (IF n + 1 <= Len(q) THEN Len(q) - (n + 1) + 1 ELSE 0)
          /\ \A i \in 1 .. Len(q) - (n + 1) + 1 : b[i] = q[n + 1 + i - 1]
      BY <3>1, SubSeqProperties
    <3> HIDE DEF b
    <3>3. Len(b) = Len(q) - n
      <4>1. CASE n + 1 <= Len(q)
        BY <4>1, <3>2, <2>2, <2>3
      <4>2. CASE n = Len(q)
        BY <4>2, <3>2, <2>2, <2>3
      <4>3. n + 1 <= Len(q) \/ n = Len(q)
        BY <2>2, <2>3
      <4> QED BY <4>1, <4>2, <4>3
    <3>4. ASSUME NEW i \in 1 .. Len(q) - n PROVE b[i] = q[n + i]
      <4>1. i \in 1 .. Len(q) - (n + 1) + 1 /\ n + 1 + i - 1 = n + i
        BY <2>2, <2>3
      <4> QED BY <4>1, <3>2
    <3> QED BY <3>2, <3>3, <3>4 DEF b
  <2>6. /\ r \in Seq(S) /\ DOMAIN r = 1 .. Len(q) - 1
        /\ \A i \in 1 .. Len(q) - 1 : r[i] = IF i < n THEN q[i] ELSE q[i + 1]
    <3> DEFINE a == SubSeq(q, 1, n - 1)
               b == SubSeq(q, n + 1, Len(q))
    <3>1. r = a \o b
      BY DEF RemoveAt
    <3>2. /\ a \in Seq(S) /\ b \in Seq(S) /\ Len(a) = n - 1 /\ Len(b) = Len(q) - n
          /\ \A i \in 1 .. n - 1 : a[i] = q[i]
          /\ \A i \in 1 .. Len(q) - n : b[i] = q[n + i]
      BY <2>4, <2>5
    <3> HIDE DEF a, b, r
    <3>3. /\ a \o b \in Seq(S) /\ Len(a \o b) = Len(a) + Len(b)
          /\ \A i \in 1 .. Len(a) + Len(b) :
               (a \o b)[i] = IF i <= Len(a) THEN a[i] ELSE b[i - Len(a)]
      BY <3>2, ConcatProperties, Zenon
    <3>4. Len(a) + Len(b) = Len(q) - 1
      BY <3>2, <2>2, <2>3
    <3>5. ASSUME NEW i \in 1 .. Len(q) - 1
          PROVE  r[i] = IF i < n THEN q[i] ELSE q[i + 1]
      <4>1. CASE i < n
        <5>1. i \in 1 .. n - 1 /\ i <= Len(a) /\ i \in 1 .. Len(a) + Len(b)
          BY <4>1, <3>2, <3>4, <2>3
        <5> QED BY <5>1, <4>1, <3>1, <3>2, <3>3
      <4>2. CASE ~(i < n)
        <5>1. /\ i - (n - 1) \in 1 .. Len(q) - n /\ n + (i - (n - 1)) = i + 1
              /\ ~(i <= Len(a)) /\ i \in 1 .. Len(a) + Len(b)
          BY <4>2, <3>2, <3>4, <2>3, <2>2
        <5> QED BY <5>1, <4>2, <3>1, <3>2, <3>3
      <4> QED BY <4>1, <4>2
    <3>6. r \in Seq(S) /\ DOMAIN r = 1 .. Len(q) - 1
      BY <3>1, <3>3, <3>4
    <3> QED BY <3>5, <3>6
  <2>7. Without(q, k) = r
    BY <2>1
  <2> HIDE DEF r
  <2> DEFINE place(i) == IF i < n THEN i ELSE i + 1
  <2>8. \A i \in DOMAIN r : place(i) \in DOMAIN q /\ place(i) # n /\ r[i] = q[place(i)]
    BY <2>2, <2>3, <2>6
  <2>9. \A i, j \in DOMAIN r : place(i) = place(j) => i = j
    BY <2>2, <2>3, <2>6
  <2>10. ASSUME NEW i \in DOMAIN q, i # n
         PROVE  \E j \in DOMAIN r : place(j) = i
    <3>1. CASE i < n
      <4>1. i \in DOMAIN r /\ place(i) = i
        BY <3>1, <2>2, <2>3, <2>6
      <4> QED BY <4>1
    <3>2. CASE ~(i < n)
      <4>1. i - 1 \in DOMAIN r /\ place(i - 1) = i
        BY <3>2, <2>10, <2>2, <2>3, <2>6
      <4> QED BY <4>1
    <3> QED BY <3>1, <3>2
  <2> HIDE DEF place
  <2>11. IsInjective(r)
    BY <2>8, <2>9 DEF IsInjective
  <2>12. ToSet(r) = ToSet(q) \ {k}
    <3>1. ASSUME NEW x \in ToSet(r) PROVE x \in ToSet(q) \ {k}
      BY <2>1, <2>8 DEF ToSet, IsInjective
    <3>2. ASSUME NEW x \in ToSet(q), x # k PROVE x \in ToSet(r)
      <4>1. PICK i \in DOMAIN q : q[i] = x
        BY DEF ToSet
      <4>2. PICK j \in DOMAIN r : place(j) = i
        BY <4>1, <3>2, <2>1, <2>10
      <4> QED BY <4>1, <4>2, <2>8 DEF ToSet
    <3> QED BY <3>1, <3>2
  <2> QED BY <2>6, <2>7, <2>11, <2>12
<1> QED BY <1>1, <1>2

LEMMA NothingIn ==
  ASSUME NEW S, NEW q \in Seq(S), ToSet(q) = {}
  PROVE  q = <<>>
<1>1. q # <<>> => 1 \in DOMAIN q
  OBVIOUS
<1> QED BY <1>1 DEF ToSet

-----------------------------------------------------------------------------
(* What a handler of slot k leaves alone.                                  *)

Sound(s) == s \in States /\ Once(s)

\* Slot k is in the same queues in both.
SamePlace(s, t, k) ==
  /\ Free(t, k) <=> Free(s, k)
  /\ Queued(t, k) <=> Queued(s, k)
  /\ Awaits(t, k) <=> Awaits(s, k)

Same(s, t, k) ==
  /\ Sound(t)
  /\ \A j \in Slots : j # k =>
       t.w.conn[j] = s.w.conn[j] /\ t.sock[j] = s.sock[j] /\ SamePlace(s, t, j)
  /\ t.w.batch = s.w.batch /\ t.w.stage = s.w.stage /\ t.w.drain = s.w.drain
  /\ t.w.exiting = s.w.exiting

\* A handler after the other.
LEMMA SameTwice ==
  ASSUME NEW s, NEW t, NEW u, NEW k, Same(s, t, k), Same(t, u, k)
  PROVE  Same(s, u, k)
  BY DEF Same, SamePlace

LEMMA SameNot ==
  ASSUME NEW s, NEW k, Sound(s)
  PROVE  Same(s, s, k)
  BY DEF Same, SamePlace

\* No queue has changed.
InPlace(s, t, k) == Same(s, t, k) /\ SamePlace(s, t, k)

LEMMA InPlaceTwice ==
  ASSUME NEW s, NEW t, NEW u, NEW k, InPlace(s, t, k), InPlace(t, u, k)
  PROVE  InPlace(s, u, k)
  BY SameTwice DEF InPlace, SamePlace

\* Slot k has another connection record and another socket record.
Wrote(s, t, k, c, o) == InPlace(s, t, k) /\ t.w.conn[k] = c /\ t.sock[k] = o

LEMMA Writing ==
  ASSUME NEW s, Sound(s), NEW k \in Slots, NEW c \in Connection, NEW o \in Socket
  PROVE  Wrote(s, [s EXCEPT !.w.conn[k] = c, !.sock[k] = o], k, c, o)
<1> DEFINE t == [s EXCEPT !.w.conn[k] = c, !.sock[k] = o]
<1>1. /\ t \in States
      /\ t.w.conn = [s.w.conn EXCEPT ![k] = c] /\ t.sock = [s.sock EXCEPT ![k] = o]
      /\ t.w.free = s.w.free /\ t.w.reusable = s.w.reusable /\ t.w.posted = s.w.posted
      /\ t.w.batch = s.w.batch /\ t.w.stage = s.w.stage /\ t.w.drain = s.w.drain
      /\ t.w.exiting = s.w.exiting
  BY DEF Sound, States, Workers
<1>2. s.w.conn \in [Slots -> Connection] /\ s.sock \in [Slots -> Socket]
  BY DEF Sound, States, Workers
<1> HIDE DEF t
<1>3. Wrote(s, t, k, c, o)
  BY <1>1, <1>2 DEF Wrote, InPlace, Same, SamePlace, Sound, Once, Free, Queued, Awaits
<1> QED BY <1>3 DEF t

LEMMA InWrites ==
  ASSUME NEW s, Sound(s), NEW k \in Slots, NEW phase \in Phases
  PROVE  Wrote(s, In(s, k, phase), k, [s.w.conn[k] EXCEPT !.phase = phase], s.sock[k])
<1>1. s.w.conn[k] \in Connection /\ s.sock[k] \in Socket
  BY DEF Sound, States, Workers
<1>2. [s.w.conn[k] EXCEPT !.phase = phase] \in Connection
  BY <1>1 DEF Connection
<1>3. In(s, k, phase) = [s EXCEPT !.w.conn[k] = [s.w.conn[k] EXCEPT !.phase = phase],
                                  !.sock[k] = s.sock[k]]
  BY DEF In, Sound, States, Workers
<1>4. Wrote(s, [s EXCEPT !.w.conn[k] = [s.w.conn[k] EXCEPT !.phase = phase],
                         !.sock[k] = s.sock[k]], k, [s.w.conn[k] EXCEPT !.phase = phase], s.sock[k])
  BY <1>1, <1>2, Writing, Zenon
<1> QED BY <1>3, <1>4, Zenon

\* ngx_add_timer, ngx_del_timer
LEMMA TimedWrites ==
  ASSUME NEW s, Sound(s), NEW k \in Slots, NEW set \in BOOLEAN
  PROVE  Wrote(s, Timed(s, k, set), k, [s.w.conn[k] EXCEPT !.timer = set], s.sock[k])
<1> DEFINE c == [s.w.conn[k] EXCEPT !.timer = set]
           o == s.sock[k]
<1>1. s.w.conn[k] \in Connection /\ s.sock[k] \in Socket
  BY DEF Sound, States, Workers
<1>2. c \in Connection /\ o \in Socket
  BY <1>1 DEF Connection, Socket
<1>3. Timed(s, k, set) = [s EXCEPT !.w.conn[k] = c, !.sock[k] = o]
  BY DEF Timed, Sound, States, Workers
<1> HIDE DEF c, o
<1>4. Wrote(s, [s EXCEPT !.w.conn[k] = c, !.sock[k] = o], k, c, o)
  BY <1>2, Writing, Zenon
<1>5. Wrote(s, Timed(s, k, set), k, c, o)
  BY <1>3, <1>4, Zenon
<1> QED BY <1>5 DEF c, o

\* rev->ready
LEMMA ReadyWrites ==
  ASSUME NEW s, Sound(s), NEW k \in Slots, NEW ready \in BOOLEAN
  PROVE  Wrote(s, Ready(s, k, ready), k, [s.w.conn[k] EXCEPT !.ready = ready], s.sock[k])
<1> DEFINE c == [s.w.conn[k] EXCEPT !.ready = ready]
           o == s.sock[k]
<1>1. s.w.conn[k] \in Connection /\ s.sock[k] \in Socket
  BY DEF Sound, States, Workers
<1>2. c \in Connection /\ o \in Socket
  BY <1>1 DEF Connection, Socket
<1>3. Ready(s, k, ready) = [s EXCEPT !.w.conn[k] = c, !.sock[k] = o]
  BY DEF Ready, Sound, States, Workers
<1> HIDE DEF c, o
<1>4. Wrote(s, [s EXCEPT !.w.conn[k] = c, !.sock[k] = o], k, c, o)
  BY <1>2, Writing, Zenon
<1>5. Wrote(s, Ready(s, k, ready), k, c, o)
  BY <1>3, <1>4, Zenon
<1> QED BY <1>5 DEF c, o

\* What is left in header_in.
LEMMA BufferedWrites ==
  ASSUME NEW s, Sound(s), NEW k \in Slots, NEW n \in 0 .. MaxPieces
  PROVE  Wrote(s, Buffered(s, k, n), k, [s.w.conn[k] EXCEPT !.buffered = n], s.sock[k])
<1> DEFINE c == [s.w.conn[k] EXCEPT !.buffered = n]
           o == s.sock[k]
<1>1. s.w.conn[k] \in Connection /\ s.sock[k] \in Socket
  BY DEF Sound, States, Workers
<1>2. c \in Connection /\ o \in Socket
  BY <1>1 DEF Connection, Socket
<1>3. Buffered(s, k, n) = [s EXCEPT !.w.conn[k] = c, !.sock[k] = o]
  BY DEF Buffered, Sound, States, Workers
<1> HIDE DEF c, o
<1>4. Wrote(s, [s EXCEPT !.w.conn[k] = c, !.sock[k] = o], k, c, o)
  BY <1>2, Writing, Zenon
<1>5. Wrote(s, Buffered(s, k, n), k, c, o)
  BY <1>3, <1>4, Zenon
<1> QED BY <1>5 DEF c, o

\* ngx_handle_write_event
LEMMA WatchedWrites ==
  ASSUME NEW s, Sound(s), NEW k \in Slots
  PROVE  Wrote(s, Watched(s, k), k, [s.w.conn[k] EXCEPT !.watched = TRUE], [s.sock[k] EXCEPT !.room = FALSE,
             !.edge = s.sock[k].edge \/ (~s.w.conn[k].watched /\ (s.sock[k].unread > 0 \/ s.sock[k].fin))])
<1> DEFINE c == [s.w.conn[k] EXCEPT !.watched = TRUE]
           o == [s.sock[k] EXCEPT !.room = FALSE,
             !.edge = s.sock[k].edge \/ (~s.w.conn[k].watched /\ (s.sock[k].unread > 0 \/ s.sock[k].fin))]
<1>1. s.w.conn[k] \in Connection /\ s.sock[k] \in Socket
  BY DEF Sound, States, Workers
<1>2. c \in Connection /\ o \in Socket
  BY <1>1 DEF Connection, Socket
<1>3. Watched(s, k) = [s EXCEPT !.w.conn[k] = c, !.sock[k] = o]
  BY DEF Watched, Sound, States, Workers
<1> HIDE DEF c, o
<1>4. Wrote(s, [s EXCEPT !.w.conn[k] = c, !.sock[k] = o], k, c, o)
  BY <1>2, Writing, Zenon
<1>5. Wrote(s, Watched(s, k), k, c, o)
  BY <1>3, <1>4, Zenon
<1> QED BY <1>5 DEF c, o

\* ngx_unix_recv has read all.
LEMMA EmptiedWrites ==
  ASSUME NEW s, Sound(s), NEW k \in Slots
  PROVE  Wrote(s, Emptied(s, k), k, [s.w.conn[k] EXCEPT !.ready = s.w.conn[k].eof], [s.sock[k] EXCEPT !.unread = 0])
<1> DEFINE c == [s.w.conn[k] EXCEPT !.ready = s.w.conn[k].eof]
           o == [s.sock[k] EXCEPT !.unread = 0]
<1>1. s.w.conn[k] \in Connection /\ s.sock[k] \in Socket
  BY DEF Sound, States, Workers
<1>2. c \in Connection /\ o \in Socket
  BY <1>1, WorkerAssumption DEF Connection, Socket
<1>3. Emptied(s, k) = [s EXCEPT !.w.conn[k] = c, !.sock[k] = o]
  BY DEF Emptied, Ready, Sound, States, Workers
<1> HIDE DEF c, o
<1>4. Wrote(s, [s EXCEPT !.w.conn[k] = c, !.sock[k] = o], k, c, o)
  BY <1>2, Writing, Zenon
<1>5. Wrote(s, Emptied(s, k), k, c, o)
  BY <1>3, <1>4, Zenon
<1> QED BY <1>5 DEF c, o

\* What there is is put into the buffer.
LEMMA ReceivedWrites ==
  ASSUME NEW s, Sound(s), NEW k \in Slots, Fits(s, k), RestTypes
  PROVE  Wrote(s, Received(s, k), k,
               [s.w.conn[k] EXCEPT !.ready = s.w.conn[k].eof,
                                   !.buffered = s.w.conn[k].buffered + s.sock[k].unread],
               [s.sock[k] EXCEPT !.unread = 0])
<1> DEFINE n == s.w.conn[k].buffered + s.sock[k].unread
           c == [s.w.conn[k] EXCEPT !.ready = s.w.conn[k].eof]
           o == [s.sock[k] EXCEPT !.unread = 0]
           t == Emptied(s, k)
<1>1. Wrote(s, t, k, c, o)
  BY EmptiedWrites, Zenon
<1>2. n \in 0 .. MaxPieces
  BY WorkerAssumption DEF Fits, Sound, States, Workers, Connection, Socket, RestTypes
<1>3. Sound(t) /\ t.w.conn[k] = c /\ t.sock[k] = o
  BY <1>1 DEF Wrote, InPlace, Same
<1> HIDE DEF n, c, o, t
<1>4. Wrote(t, Buffered(t, k, n), k, [c EXCEPT !.buffered = n], o)
  BY <1>2, <1>3, BufferedWrites, Zenon
<1>5. Wrote(s, Buffered(t, k, n), k, [c EXCEPT !.buffered = n], o)
  BY <1>1, <1>4, InPlaceTwice DEF Wrote
<1>6. s.w.conn[k] \in Connection
  BY DEF Sound, States, Workers
<1>7. [c EXCEPT !.buffered = n] = [s.w.conn[k] EXCEPT !.ready = s.w.conn[k].eof, !.buffered = n]
  BY <1>6 DEF c, Connection
<1>8. Received(s, k) = Buffered(t, k, n)
  BY DEF Received, t, n
<1>9. Wrote(s, Received(s, k), k,
            [s.w.conn[k] EXCEPT !.ready = s.w.conn[k].eof, !.buffered = n], o)
  BY <1>5, <1>7, <1>8, Zenon
<1> QED BY <1>9 DEF n, o

-----------------------------------------------------------------------------
(* Queues of a state.                                                      *)

\* But for slot k, the same slots are in both queues.
Alike(q, r, k) == ToSet(q) \ {k} = ToSet(r) \ {k}

\* t is s with queues and a slot k of its own.
Requeued(s, t, k) ==
  /\ t \in States
  /\ \A j \in Slots : j # k => t.w.conn[j] = s.w.conn[j] /\ t.sock[j] = s.sock[j]
  /\ t.w.batch = s.w.batch /\ t.w.stage = s.w.stage /\ t.w.drain = s.w.drain
  /\ t.w.exiting = s.w.exiting

LEMMA Queueing ==
  ASSUME NEW s, NEW k \in Slots, NEW t, Requeued(s, t, k), Once(t),
         Alike(t.w.free, s.w.free, k), Alike(t.w.reusable, s.w.reusable, k),
         Alike(t.w.posted, s.w.posted, k)
  PROVE  Same(s, t, k)
<1>1. \A j \in Slots : j # k => SamePlace(s, t, j)
  BY DEF Alike, SamePlace, Free, Queued, Awaits
<1> QED BY <1>1 DEF Same, Requeued, Sound

LEMMA Queues ==
  ASSUME NEW s, Sound(s), NEW k \in Slots
  PROVE  /\ s.w.free \in Seq(Slots) /\ IsInjective(s.w.free)
         /\ s.w.reusable \in Seq(Slots) /\ IsInjective(s.w.reusable)
         /\ s.w.posted \in Seq(Slots) /\ IsInjective(s.w.posted)
         /\ s.w.conn[k] \in Connection /\ s.sock[k] \in Socket
  BY DEF Sound, Once, States, Workers

\* ngx_close_connection leaves the slot free, unqueued and clean.
LEMMA ClosedSlot ==
  ASSUME NEW s, Sound(s), NEW k \in Slots, ~Free(s, k)
  PROVE  LET t == Closed(s, k)
         IN /\ Same(s, t, k)
            /\ t.w.conn[k] = FreeSlot(s.w.conn[k].instance) /\ t.sock[k] = Quiet
            /\ Free(t, k) /\ ~Queued(t, k) /\ ~Awaits(t, k)
<1> DEFINE t == Closed(s, k)
           f == <<k>> \o s.w.free
           r == Without(s.w.reusable, k)
           p == Without(s.w.posted, k)
           c == FreeSlot(s.w.conn[k].instance)
<1>1. /\ f \in Seq(Slots) /\ IsInjective(f) /\ ToSet(f) = ToSet(s.w.free) \union {k}
      /\ r \in Seq(Slots) /\ IsInjective(r) /\ ToSet(r) = ToSet(s.w.reusable) \ {k}
      /\ p \in Seq(Slots) /\ IsInjective(p) /\ ToSet(p) = ToSet(s.w.posted) \ {k}
  <2>1. f \in Seq(Slots) /\ IsInjective(f) /\ ToSet(f) = ToSet(s.w.free) \union {k}
    BY Queues, InFront, Zenon DEF Free
  <2>2. r \in Seq(Slots) /\ IsInjective(r) /\ ToSet(r) = ToSet(s.w.reusable) \ {k}
    BY Queues, TakenOut, Zenon
  <2>3. p \in Seq(Slots) /\ IsInjective(p) /\ ToSet(p) = ToSet(s.w.posted) \ {k}
    BY Queues, TakenOut, Zenon
  <2> QED BY <2>1, <2>2, <2>3
<1>2. c \in Connection /\ Quiet \in Socket
  BY Queues, WorkerAssumption DEF Connection, Socket, FreeSlot, Quiet, Phases
<1>3. /\ Requeued(s, t, k) /\ t.w.conn[k] = c /\ t.sock[k] = Quiet
      /\ t.w.free = f /\ t.w.reusable = r /\ t.w.posted = p
  <2> HIDE DEF f, r, p, c
  <2>1. t = [s EXCEPT !.w.conn[k] = c, !.w.free = f, !.w.reusable = r, !.w.posted = p,
                      !.sock[k] = Quiet]
    BY DEF Closed, f, r, p, c
  <2> HIDE DEF t
  <2> QED BY <2>1, <1>1, <1>2 DEF Requeued, Sound, States, Workers
<1> HIDE DEF t, f, r, p, c
<1>4. Same(s, t, k)
  <2>1. Once(t)
    BY <1>3, <1>1, <1>2, Queues DEF Once
  <2>2. /\ Alike(t.w.free, s.w.free, k) /\ Alike(t.w.reusable, s.w.reusable, k)
        /\ Alike(t.w.posted, s.w.posted, k)
    BY <1>1, <1>3, <1>1, <1>2 DEF Alike
  <2> QED BY <2>1, <2>2, <1>3, Queueing
<1>5. Free(t, k) /\ ~Queued(t, k) /\ ~Awaits(t, k)
  BY <1>1, <1>3 DEF Free, Queued, Awaits
<1> QED BY <1>3, <1>4, <1>5 DEF t, c

\* ngx_reusable_connection, both ways.
LEMMA ReusableSlot ==
  ASSUME NEW s, Sound(s), NEW k \in Slots
  PROVE  LET t == Reusable(s, k)
         IN /\ Same(s, t, k) /\ t.w.conn[k] = s.w.conn[k] /\ t.sock[k] = s.sock[k]
            /\ Queued(t, k) /\ (Free(t, k) <=> Free(s, k)) /\ (Awaits(t, k) <=> Awaits(s, k))
<1> DEFINE t == Reusable(s, k)
           q == Without(s.w.reusable, k)
           r == <<k>> \o q
<1>1. q \in Seq(Slots) /\ IsInjective(q) /\ ToSet(q) = ToSet(s.w.reusable) \ {k}
  BY Queues, TakenOut, Zenon
<1>2. r \in Seq(Slots) /\ IsInjective(r) /\ ToSet(r) = ToSet(q) \union {k}
  <2>1. k \notin ToSet(q)
    BY <1>1
  <2> HIDE DEF q
  <2> QED BY <2>1, <1>1, InFront, Zenon
<1>3. /\ Requeued(s, t, k) /\ t.w.conn[k] = s.w.conn[k] /\ t.sock[k] = s.sock[k]
      /\ t.w.free = s.w.free /\ t.w.reusable = r /\ t.w.posted = s.w.posted
  <2> HIDE DEF r
  <2>1. t = [s EXCEPT !.w.reusable = r]
    BY DEF Reusable, r
  <2> HIDE DEF t
  <2> QED BY <2>1, <1>2 DEF Requeued, Sound, States, Workers
<1> HIDE DEF t, q, r
<1>4. Same(s, t, k)
  <2>1. Once(t)
    BY <1>3, <1>2, Queues DEF Once
  <2>2. /\ Alike(t.w.free, s.w.free, k) /\ Alike(t.w.reusable, s.w.reusable, k)
        /\ Alike(t.w.posted, s.w.posted, k)
    BY <1>1, <1>3, <1>2 DEF Alike
  <2> QED BY <2>1, <2>2, <1>3, Queueing
<1>5. Queued(t, k) /\ (Free(t, k) <=> Free(s, k)) /\ (Awaits(t, k) <=> Awaits(s, k))
  BY <1>2, <1>3 DEF Free, Queued, Awaits
<1> QED BY <1>3, <1>4, <1>5 DEF t

LEMMA NotReusableSlot ==
  ASSUME NEW s, Sound(s), NEW k \in Slots
  PROVE  LET t == NotReusable(s, k)
         IN /\ Same(s, t, k) /\ t.w.conn[k] = s.w.conn[k] /\ t.sock[k] = s.sock[k]
            /\ ~Queued(t, k) /\ (Free(t, k) <=> Free(s, k)) /\ (Awaits(t, k) <=> Awaits(s, k))
<1> DEFINE t == NotReusable(s, k)
           r == Without(s.w.reusable, k)
<1>1. r \in Seq(Slots) /\ IsInjective(r) /\ ToSet(r) = ToSet(s.w.reusable) \ {k}
  BY Queues, TakenOut, Zenon
<1>3. /\ Requeued(s, t, k) /\ t.w.conn[k] = s.w.conn[k] /\ t.sock[k] = s.sock[k]
      /\ t.w.free = s.w.free /\ t.w.reusable = r /\ t.w.posted = s.w.posted
  <2> HIDE DEF r
  <2>1. t = [s EXCEPT !.w.reusable = r]
    BY DEF NotReusable, r
  <2> HIDE DEF t
  <2> QED BY <2>1, <1>1 DEF Requeued, Sound, States, Workers
<1> HIDE DEF t, r
<1>4. Same(s, t, k)
  <2>1. Once(t)
    BY <1>3, <1>1, Queues DEF Once
  <2>2. /\ Alike(t.w.free, s.w.free, k) /\ Alike(t.w.reusable, s.w.reusable, k)
        /\ Alike(t.w.posted, s.w.posted, k)
    BY <1>1, <1>3, <1>1 DEF Alike
  <2> QED BY <2>1, <2>2, <1>3, Queueing
<1>5. ~Queued(t, k) /\ (Free(t, k) <=> Free(s, k)) /\ (Awaits(t, k) <=> Awaits(s, k))
  BY <1>1, <1>3 DEF Free, Queued, Awaits
<1> QED BY <1>3, <1>4, <1>5 DEF t

\* ngx_post_event
LEMMA PostedSlot ==
  ASSUME NEW s, Sound(s), NEW k \in Slots
  PROVE  LET t == Posted(s, k)
         IN /\ Same(s, t, k) /\ t.w.conn[k] = s.w.conn[k] /\ t.sock[k] = s.sock[k]
            /\ Awaits(t, k) /\ (Free(t, k) <=> Free(s, k)) /\ (Queued(t, k) <=> Queued(s, k))
<1> DEFINE t == Posted(s, k)
           p == IF k \in ToSet(s.w.posted) THEN s.w.posted ELSE Append(s.w.posted, k)
<1>1. p \in Seq(Slots) /\ IsInjective(p) /\ ToSet(p) = ToSet(s.w.posted) \union {k}
  <2>1. CASE k \in ToSet(s.w.posted)
    BY <2>1, Queues
  <2>2. CASE k \notin ToSet(s.w.posted)
    BY <2>2, Queues, AtTheEnd, Zenon
  <2> QED BY <2>1, <2>2
<1>3. /\ Requeued(s, t, k) /\ t.w.conn[k] = s.w.conn[k] /\ t.sock[k] = s.sock[k]
      /\ t.w.free = s.w.free /\ t.w.reusable = s.w.reusable /\ t.w.posted = p
  <2> HIDE DEF p
  <2>1. t = [s EXCEPT !.w.posted = p]
    BY DEF Posted, p
  <2> HIDE DEF t
  <2> QED BY <2>1, <1>1 DEF Requeued, Sound, States, Workers
<1> HIDE DEF t, p
<1>4. Same(s, t, k)
  <2>1. Once(t)
    BY <1>3, <1>1, Queues DEF Once
  <2>2. /\ Alike(t.w.free, s.w.free, k) /\ Alike(t.w.reusable, s.w.reusable, k)
        /\ Alike(t.w.posted, s.w.posted, k)
    BY <1>1, <1>3, <1>1 DEF Alike
  <2> QED BY <2>1, <2>2, <1>3, Queueing
<1>5. Awaits(t, k) /\ (Free(t, k) <=> Free(s, k)) /\ (Queued(t, k) <=> Queued(s, k))
  BY <1>1, <1>3 DEF Free, Queued, Awaits
<1> QED BY <1>3, <1>4, <1>5 DEF t

-----------------------------------------------------------------------------
(* What holds of a slot before its handler and after.                      *)

\* What is at the socket is known to epoll or to ready and eof.
Heard(s, k) ==
  LET c == s.w.conn[k]
      o == s.sock[k]
  IN /\ (o.unread > 0 \/ o.fin) => o.edge \/ c.ready
     /\ o.fin => o.edge \/ c.eof

\* And what ready remembers will be read.
Noted(s, k) ==
  LET c == s.w.conn[k]
      o == s.sock[k]
  IN /\ (o.unread > 0 \/ o.fin) => o.edge \/ (c.ready /\ (c.phase = "writing" \/ Awaits(s, k)))
     /\ o.fin => o.edge \/ c.eof

\* A handler of slot k has run.
Done(s, t, k) == Same(s, t, k) /\ InOrder(t, k) /\ Noted(t, k)

\* A connection whose handler runs, and that neither epoll nor a queue will run.
Running(s, k) ==
  /\ Sound(s) /\ Heard(s, k) /\ Fits(s, k)
  /\ ~Free(s, k) /\ ~Awaits(s, k) /\ Open(s, k)
  /\ Queued(s, k) <=> s.w.conn[k].phase \in IdlePhases

\* With a request.
Serving(s, k) == Running(s, k) /\ s.w.conn[k].phase \in {"reading", "writing"}

LEMMA DoneAfter ==
  ASSUME NEW s, NEW t, NEW u, NEW k, Same(s, t, k), Done(t, u, k)
  PROVE  Done(s, u, k)
  BY SameTwice DEF Done

\* A closed connection has nothing open.
LEMMA ClosedDone ==
  ASSUME NEW s, NEW k \in Slots, RestTypes, Sound(s), ~Free(s, k), Fits(s, k)
  PROVE  Done(s, Closed(s, k), k)
<1> DEFINE t == Closed(s, k)
<1>1. /\ Same(s, t, k)
      /\ t.w.conn[k] = FreeSlot(s.w.conn[k].instance) /\ t.sock[k] = Quiet
      /\ Free(t, k) /\ ~Queued(t, k) /\ ~Awaits(t, k)
  BY ClosedSlot
<1>2. left.pieces <= MaxPieces /\ left.pieces \in Nat
  <2>1. s.w.conn[k] \in Connection /\ s.sock[k] \in Socket
    BY Queues
  <2>2. s.w.conn[k].buffered \in Nat /\ s.sock[k].unread \in Nat
    BY <2>1, WorkerAssumption DEF Connection, Socket
  <2>3. left.pieces \in Nat
    BY DEF RestTypes
  <2> QED BY <2>2, <2>3, WorkerAssumption DEF Fits
<1> HIDE DEF t
<1>3. InOrder(t, k)
  BY <1>1, <1>2 DEF InOrder, FreeSlot, Quiet, Fits, IdlePhases
<1>4. Noted(t, k)
  BY <1>1 DEF Noted, FreeSlot, Quiet
<1> QED BY <1>1, <1>3, <1>4 DEF Done, t

\* A response that waits for the client's window has its timer.
LEMMA BlockedDone ==
  ASSUME NEW s, NEW k \in Slots, RestTypes, Serving(s, k)
  PROVE  Done(s, Blocked(s, k), k)
<1> DEFINE a == In(s, k, "writing")
           b == Timed(a, k, TRUE)
           t == Watched(b, k)
           c == s.w.conn[k]
           d == [c EXCEPT !.phase = "writing"]
           e == [d EXCEPT !.timer = TRUE]
<1>1. Sound(s) /\ c \in Connection /\ s.sock[k] \in Socket
  BY Queues DEF Serving, Running
<1>2. Wrote(s, a, k, d, s.sock[k])
  BY <1>1, InWrites DEF Phases
<1>3. Wrote(a, b, k, e, s.sock[k])
  <2>1. Sound(a) /\ a.w.conn[k] = d /\ a.sock[k] = s.sock[k]
    BY <1>2 DEF Wrote, InPlace, Same
  <2> HIDE DEF a, d
  <2> QED BY <2>1, TimedWrites
<1> DEFINE o == [s.sock[k] EXCEPT !.room = FALSE,
                   !.edge = s.sock[k].edge \/ (~e.watched /\ (s.sock[k].unread > 0 \/ s.sock[k].fin))]
<1>4. Wrote(b, t, k, [e EXCEPT !.watched = TRUE], o)
  <2>1. Sound(b) /\ b.w.conn[k] = e /\ b.sock[k] = s.sock[k]
    BY <1>3 DEF Wrote, InPlace, Same
  <2> HIDE DEF b, e
  <2> QED BY <2>1, WatchedWrites
<1>5. Wrote(s, t, k, [e EXCEPT !.watched = TRUE], o)
  <2> HIDE DEF a, b, t, d, e, o
  <2> QED BY <1>2, <1>3, <1>4, InPlaceTwice DEF Wrote
<1>6. t = Blocked(s, k)
  BY DEF Blocked
<1>7. InOrder(t, k) /\ Noted(t, k) /\ Same(s, t, k)
  <2> HIDE DEF t
  <2> QED BY <1>1, <1>5 DEF Wrote, InPlace, SamePlace, Serving, Running, InOrder, Noted, Heard, Fits,
                           Connection, Socket, IdlePhases
<1> QED BY <1>6, <1>7 DEF Done

LEMMA PipelinedWrites ==
  ASSUME NEW s, Sound(s), NEW k \in Slots
  PROVE  Wrote(s, [s EXCEPT !.w.conn[k].pipelined = TRUE], k,
               [s.w.conn[k] EXCEPT !.pipelined = TRUE], s.sock[k])
<1> DEFINE c == [s.w.conn[k] EXCEPT !.pipelined = TRUE]
           t == [s EXCEPT !.w.conn[k].pipelined = TRUE]
<1>1. s.w.conn[k] \in Connection /\ s.sock[k] \in Socket
  BY DEF Sound, States, Workers
<1>2. c \in Connection
  BY <1>1 DEF Connection
<1>3. t = [s EXCEPT !.w.conn[k] = c, !.sock[k] = s.sock[k]]
  BY DEF Sound, States, Workers
<1> HIDE DEF c
<1>4. Wrote(s, [s EXCEPT !.w.conn[k] = c, !.sock[k] = s.sock[k]], k, c, s.sock[k])
  BY <1>1, <1>2, Writing, Zenon
<1> HIDE DEF t
<1>5. Wrote(s, t, k, c, s.sock[k])
  BY <1>3, <1>4, Zenon
<1> QED BY <1>5 DEF c, t

\* A connection that is kept alive: the next request waits in the buffer and is posted,
\* or it waits for one, and reads at once what ready remembers.
LEMMA KeptAliveDone ==
  ASSUME NEW s, NEW k \in Slots, RestTypes, Serving(s, k)
  PROVE  Done(s, KeptAlive(s, k), k)
<1> DEFINE c == s.w.conn[k]
<1>1. Sound(s) /\ c \in Connection /\ s.sock[k] \in Socket
  BY Queues DEF Serving, Running
<1>2. CASE s.w.conn[k].buffered > 0
  <2> DEFINE a == In(s, k, "reading")
             b == [a EXCEPT !.w.conn[k].pipelined = TRUE]
             t == Posted(b, k)
             d == [c EXCEPT !.phase = "reading"]
  <2>1. Wrote(s, a, k, d, s.sock[k])
    BY <1>1, InWrites DEF Phases
  <2>2. Wrote(a, b, k, [d EXCEPT !.pipelined = TRUE], s.sock[k])
    <3>1. Sound(a) /\ a.w.conn[k] = d /\ a.sock[k] = s.sock[k]
      BY <2>1 DEF Wrote, InPlace, Same
    <3> HIDE DEF a, d
    <3> QED BY <3>1, PipelinedWrites
  <2>3. Wrote(s, b, k, [d EXCEPT !.pipelined = TRUE], s.sock[k])
    <3> HIDE DEF a, b, d
    <3> QED BY <2>1, <2>2, InPlaceTwice DEF Wrote
  <2>4. /\ Same(b, t, k) /\ t.w.conn[k] = b.w.conn[k] /\ t.sock[k] = b.sock[k]
        /\ Awaits(t, k) /\ (Free(t, k) <=> Free(b, k)) /\ (Queued(t, k) <=> Queued(b, k))
    <3>1. Sound(b)
      BY <2>3 DEF Wrote, InPlace, Same
    <3> HIDE DEF b
    <3> QED BY <3>1, PostedSlot
  <2>5. KeptAlive(s, k) = t
    BY <1>2 DEF KeptAlive
  <2>6. Same(s, t, k)
    <3> HIDE DEF t, b
    <3> QED BY <2>3, <2>4, SameTwice DEF Wrote, InPlace
  <2>7. InOrder(t, k) /\ Noted(t, k)
    <3> HIDE DEF t, b
    <3> QED BY <1>1, <1>2, <2>3, <2>4 DEF Wrote, InPlace, SamePlace, Serving, Running, InOrder,
                                         Noted, Heard, Fits, Connection, Socket, IdlePhases
  <2> QED BY <2>5, <2>6, <2>7 DEF Done
<1>3. CASE ~(s.w.conn[k].buffered > 0)
  <2> DEFINE a == In(s, k, "keepalive")
             b == Reusable(a, k)
             t == Timed(b, k, TRUE)
             u == Posted(t, k)
             d == [c EXCEPT !.phase = "keepalive"]
             e == [d EXCEPT !.timer = TRUE]
  <2>1. Wrote(s, a, k, d, s.sock[k])
    BY <1>1, InWrites DEF Phases
  <2>2. /\ Same(a, b, k) /\ b.w.conn[k] = d /\ b.sock[k] = s.sock[k]
        /\ Queued(b, k) /\ (Free(b, k) <=> Free(a, k)) /\ (Awaits(b, k) <=> Awaits(a, k))
    <3>1. Sound(a) /\ a.w.conn[k] = d /\ a.sock[k] = s.sock[k]
      BY <2>1 DEF Wrote, InPlace, Same
    <3> HIDE DEF a, d
    <3> QED BY <3>1, ReusableSlot
  <2>3. Wrote(b, t, k, e, s.sock[k])
    <3>1. Sound(b)
      BY <2>2 DEF Same
    <3> HIDE DEF b, d
    <3> QED BY <3>1, <2>2, TimedWrites
  <2>4. /\ Same(s, t, k) /\ t.w.conn[k] = e /\ t.sock[k] = s.sock[k]
        /\ Queued(t, k) /\ ~Free(t, k) /\ ~Awaits(t, k)
    <3> HIDE DEF a, b, t, d, e
    <3> QED BY <2>1, <2>2, <2>3, SameTwice DEF Wrote, InPlace, SamePlace, Serving, Running
  <2>5. CASE ~e.ready
    <3>1. KeptAlive(s, k) = t
      BY <1>3, <2>4, <2>5 DEF KeptAlive
    <3>2. InOrder(t, k) /\ Noted(t, k)
      <4> HIDE DEF t
      <4> QED BY <1>1, <1>3, <2>4, <2>5 DEF Serving, Running, InOrder, Noted, Heard, Fits,
                                           Connection, Socket, IdlePhases
    <3> QED BY <3>1, <3>2, <2>4 DEF Done
  <2>6. CASE e.ready
    <3>1. KeptAlive(s, k) = u
      BY <1>3, <2>4, <2>6 DEF KeptAlive
    <3>2. /\ Same(t, u, k) /\ u.w.conn[k] = e /\ u.sock[k] = s.sock[k]
          /\ Awaits(u, k) /\ ~Free(u, k) /\ Queued(u, k)
      <4>1. Sound(t)
        BY <2>4 DEF Same
      <4> HIDE DEF t, e
      <4> QED BY <4>1, <2>4, PostedSlot
    <3>3. Same(s, u, k)
      <4> HIDE DEF t, u
      <4> QED BY <3>2, <2>4, SameTwice
    <3>4. InOrder(u, k) /\ Noted(u, k)
      <4> HIDE DEF u, t
      <4> QED BY <1>1, <1>3, <3>2, <2>6 DEF Serving, Running, InOrder, Noted, Heard, Fits,
                                           Connection, Socket, IdlePhases
    <3> QED BY <3>1, <3>3, <3>4 DEF Done
  <2> QED BY <2>5, <2>6
<1> QED BY <1>2, <1>3

\* A connection that has nothing to read waits for epoll, or is closed at its end.
LEMMA StarvedDone ==
  ASSUME NEW s, NEW k \in Slots, RestTypes, Running(s, k), s.w.conn[k].phase # "writing",
         Recv(s, k) # "data"
  PROVE  Done(s, Starved(s, k), k)
<1> DEFINE c == s.w.conn[k]
<1>1. Sound(s) /\ c \in Connection /\ s.sock[k] \in Socket
  BY Queues DEF Running
<1>2. CASE Recv(s, k) = "end"
  BY <1>2, ClosedDone DEF Starved, Running
<1>3. CASE Recv(s, k) # "end"
  <2> DEFINE a == Ready(s, k, FALSE)
             t == Timed(a, k, TRUE)
             d == [c EXCEPT !.ready = FALSE]
             e == [d EXCEPT !.timer = TRUE]
  <2>1. Wrote(s, a, k, d, s.sock[k])
    BY <1>1, ReadyWrites
  <2>2. Wrote(a, t, k, e, s.sock[k])
    <3>1. Sound(a) /\ a.w.conn[k] = d /\ a.sock[k] = s.sock[k]
      BY <2>1 DEF Wrote, InPlace, Same
    <3> HIDE DEF a, d
    <3> QED BY <3>1, TimedWrites
  <2>3. Wrote(s, t, k, e, s.sock[k])
    <3> HIDE DEF a, t, d, e
    <3> QED BY <2>1, <2>2, InPlaceTwice DEF Wrote
  <2>4. Starved(s, k) = t
    BY <1>3 DEF Starved
  <2>5. ~c.ready \/ (s.sock[k].unread = 0 /\ ~s.sock[k].fin)
    <3>1. s.sock[k].unread \in Nat
      BY <1>1, WorkerAssumption DEF Socket
    <3> QED BY <3>1, <1>3 DEF Recv
  <2>6. InOrder(t, k) /\ Noted(t, k)
    <3> HIDE DEF t
    <3> QED BY <1>1, <2>3, <2>5, WorkerAssumption
            DEF Wrote, InPlace, SamePlace, Running, InOrder, Noted, Heard, Fits, Open,
                Connection, Socket, IdlePhases
  <2>7. Same(s, t, k)
    BY <2>3 DEF Wrote, InPlace
  <2> QED BY <2>4, <2>6, <2>7 DEF Done
<1> QED BY <1>2, <1>3

\* A lingering connection throws away what comes.
LEMMA LingeredDone ==
  ASSUME NEW s, NEW k \in Slots, RestTypes, Running(s, k), s.w.conn[k].phase = "lingering",
         NEW u \in Lingered(s, k)
  PROVE  Done(s, u, k)
<1> DEFINE t == IF Recv(s, k) = "data" THEN Emptied(s, k) ELSE s
<1>1. Same(s, t, k) /\ Running(t, k) /\ t.w.conn[k].phase = "lingering" /\ Recv(t, k) # "data"
  <2>1. CASE Recv(s, k) # "data"
    BY <2>1, SameNot DEF Running
  <2>2. CASE Recv(s, k) = "data"
    <3> DEFINE c == [s.w.conn[k] EXCEPT !.ready = s.w.conn[k].eof]
               o == [s.sock[k] EXCEPT !.unread = 0]
    <3>1. Wrote(s, t, k, c, o)
      BY <2>2, EmptiedWrites DEF Running
    <3>2. s.w.conn[k] \in Connection /\ s.sock[k] \in Socket
      BY Queues DEF Running
    <3> HIDE DEF t
    <3>3. Same(s, t, k) /\ Sound(t)
      BY <3>1 DEF Wrote, InPlace, Same
    <3>4. Heard(t, k) /\ Open(t, k) /\ t.w.conn[k].phase = "lingering" /\ t.sock[k].unread = 0
      BY <3>1, <3>2 DEF Wrote, Running, Heard, Open, Connection, Socket
    <3>5. Fits(t, k)
      <4>1. s.w.conn[k].buffered \in Nat /\ s.sock[k].unread \in Nat /\ left.pieces \in Nat
        BY <3>2, WorkerAssumption DEF Connection, Socket, RestTypes
      <4>2. t.w.conn[k].buffered = s.w.conn[k].buffered /\ t.sock[k].unread = 0
        BY <3>1, <3>2 DEF Wrote, Connection, Socket
      <4> QED BY <4>1, <4>2, WorkerAssumption DEF Running, Fits
    <3>6. ~Free(t, k) /\ ~Awaits(t, k) /\ Queued(t, k)
      BY <3>1 DEF Wrote, InPlace, SamePlace, Running, IdlePhases
    <3> QED BY <3>3, <3>4, <3>5, <3>6 DEF Running, IdlePhases, Recv
  <2> QED BY <2>1, <2>2
<1>2. u \in {Closed(t, k), Starved(t, k)}
  BY DEF Lingered
<1> HIDE DEF t
<1>3. Done(t, u, k)
  BY <1>1, <1>2, ClosedDone, StarvedDone DEF Running
<1> QED BY <1>1, <1>3, DoneAfter

\* ngx_http_set_lingering_close reads at once what ready remembers.
LEMMA SetLingeringDone ==
  ASSUME NEW s, NEW k \in Slots, RestTypes, Serving(s, k), NEW u \in SetLingering(s, k)
  PROVE  Done(s, u, k)
<1> DEFINE c == s.w.conn[k]
           a == In(s, k, "lingering")
           b == Reusable(a, k)
           t == Timed(b, k, TRUE)
           d == [c EXCEPT !.phase = "lingering"]
           e == [d EXCEPT !.timer = TRUE]
<1>1. Sound(s) /\ c \in Connection /\ s.sock[k] \in Socket
  BY Queues DEF Serving, Running
<1>2. Wrote(s, a, k, d, s.sock[k])
  BY <1>1, InWrites DEF Phases
<1>3. /\ Same(a, b, k) /\ b.w.conn[k] = d /\ b.sock[k] = s.sock[k]
      /\ Queued(b, k) /\ (Free(b, k) <=> Free(a, k)) /\ (Awaits(b, k) <=> Awaits(a, k))
  <2>1. Sound(a) /\ a.w.conn[k] = d /\ a.sock[k] = s.sock[k]
    BY <1>2 DEF Wrote, InPlace, Same
  <2> HIDE DEF a, d
  <2> QED BY <2>1, ReusableSlot
<1>4. Wrote(b, t, k, e, s.sock[k])
  <2>1. Sound(b)
    BY <1>3 DEF Same
  <2> HIDE DEF b, d
  <2> QED BY <2>1, <1>3, TimedWrites
<1>5. /\ Same(s, t, k) /\ t.w.conn[k] = e /\ t.sock[k] = s.sock[k]
      /\ Queued(t, k) /\ ~Free(t, k) /\ ~Awaits(t, k)
  <2> HIDE DEF a, b, t, d, e
  <2> QED BY <1>2, <1>3, <1>4, SameTwice DEF Wrote, InPlace, SamePlace, Serving, Running
<1>6. u \in IF t.w.conn[k].ready THEN Lingered(t, k) ELSE {t}
  BY DEF SetLingering
<1> HIDE DEF t
<1>7. Running(t, k) /\ t.w.conn[k].phase = "lingering"
  <2>1. Sound(t)
    BY <1>5 DEF Same
  <2> QED BY <2>1, <1>1, <1>5 DEF Serving, Running, Heard, Fits, Open, Connection, IdlePhases
<1>8. CASE t.w.conn[k].ready
  BY <1>5, <1>6, <1>7, <1>8, LingeredDone, DoneAfter
<1>9. CASE ~t.w.conn[k].ready
  <2>1. u = t
    BY <1>6, <1>9
  <2>2. InOrder(t, k) /\ Noted(t, k)
    BY <1>1, <1>5, <1>7, <1>9 DEF Running, InOrder, Noted, Heard, Connection, IdlePhases
  <2> QED BY <2>1, <2>2, <1>5 DEF Done
<1> QED BY <1>8, <1>9

\* ngx_http_finalize_connection
LEMMA CompletedDone ==
  ASSUME NEW s, NEW k \in Slots, RestTypes, Serving(s, k), NEW u \in Completed(s, k)
  PROVE  Done(s, u, k)
<1> DEFINE t == Timed(s, k, FALSE)
           c == [s.w.conn[k] EXCEPT !.timer = FALSE]
<1>1. s.w.conn[k] \in Connection /\ s.sock[k] \in Socket /\ Sound(s)
  BY Queues DEF Serving, Running
<1>2. Wrote(s, t, k, c, s.sock[k])
  BY <1>1, TimedWrites
<1>3. u = KeptAlive(t, k) \/ u \in SetLingering(t, k) \/ u = Closed(t, k)
  BY DEF Completed
<1> HIDE DEF t
<1>4. Same(s, t, k) /\ Sound(t)
  BY <1>2 DEF Wrote, InPlace, Same
<1>5. Serving(t, k)
  BY <1>1, <1>2, <1>4 DEF Wrote, InPlace, SamePlace, Serving, Running, Heard, Fits, Open, Connection
<1>6. Done(t, u, k)
  BY <1>3, <1>5, KeptAliveDone, SetLingeringDone, ClosedDone DEF Serving, Running
<1> QED BY <1>4, <1>6, DoneAfter

\* A response that is sent, stuck, or failed.
LEMMA WrittenDone ==
  ASSUME NEW s, NEW k \in Slots, RestTypes, Serving(s, k), NEW u \in Written(s, k)
  PROVE  Done(s, u, k)
<1>1. u = Blocked(s, k) \/ u \in Completed(s, k) \/ u = Closed(s, k)
  BY DEF Written
<1> QED BY <1>1, BlockedDone, CompletedDone, ClosedDone DEF Serving, Running

\* Fewer pieces in the buffer.
LEMMA FewerPieces ==
  ASSUME NEW s, NEW k \in Slots, RestTypes, Serving(s, k),
         NEW n \in 0 .. s.w.conn[k].buffered
  PROVE  LET t == Buffered(s, k, n)
         IN /\ Same(s, t, k) /\ Serving(t, k)
            /\ t.w.conn[k] = [s.w.conn[k] EXCEPT !.buffered = n] /\ t.sock[k] = s.sock[k]
<1> DEFINE t == Buffered(s, k, n)
           c == [s.w.conn[k] EXCEPT !.buffered = n]
<1>1. s.w.conn[k] \in Connection /\ s.sock[k] \in Socket /\ Sound(s)
  BY Queues DEF Serving, Running
<1>2. n \in 0 .. MaxPieces
  BY <1>1, WorkerAssumption DEF Connection
<1>3. Wrote(s, t, k, c, s.sock[k])
  BY <1>1, <1>2, BufferedWrites
<1> HIDE DEF t
<1>4. Same(s, t, k) /\ Sound(t)
  BY <1>3 DEF Wrote, InPlace, Same
<1>5. Fits(t, k)
  <2>1. /\ s.w.conn[k].buffered \in Nat /\ s.sock[k].unread \in Nat /\ left.pieces \in Nat
        /\ n \in Nat /\ n <= s.w.conn[k].buffered
    BY <1>1, WorkerAssumption DEF Connection, Socket, RestTypes
  <2>2. t.w.conn[k].buffered = n /\ t.sock[k] = s.sock[k]
    BY <1>1, <1>3 DEF Wrote, Connection
  <2> QED BY <2>1, <2>2, WorkerAssumption DEF Serving, Running, Fits
<1>6. Serving(t, k)
  BY <1>1, <1>3, <1>4, <1>5 DEF Wrote, InPlace, SamePlace, Serving, Running, Heard, Open, Connection
<1>7. Same(s, t, k) /\ Serving(t, k) /\ t.w.conn[k] = c /\ t.sock[k] = s.sock[k]
  BY <1>3, <1>4, <1>6 DEF Wrote
<1> QED BY <1>7 DEF t

LEMMA CompleteDone ==
  ASSUME NEW s, NEW k \in Slots, RestTypes, Serving(s, k), NEW u \in Complete(s, k)
  PROVE  Done(s, u, k)
<1>1. PICK n \in 0 .. s.w.conn[k].buffered - 1 : u \in Written(Buffered(s, k, n), k)
  BY DEF Complete
<1>2. n \in 0 .. s.w.conn[k].buffered
  <2>1. s.w.conn[k].buffered \in Nat
    BY Queues, WorkerAssumption DEF Serving, Running, Connection
  <2> QED BY <2>1
<1> DEFINE t == Buffered(s, k, n)
<1>3. Same(s, t, k) /\ Serving(t, k)
  BY <1>2, FewerPieces
<1> HIDE DEF t
<1>4. Done(t, u, k)
  BY <1>1, <1>3, WrittenDone DEF t
<1> QED BY <1>3, <1>4, DoneAfter

\* What is at the socket goes into the buffer.
LEMMA ReceivedServes ==
  ASSUME NEW s, NEW k \in Slots, RestTypes, Serving(s, k)
  PROVE  LET t == Received(s, k)
         IN /\ Same(s, t, k) /\ Serving(t, k)
            /\ t.w.conn[k].phase = s.w.conn[k].phase /\ t.sock[k].unread = 0
<1> DEFINE t == Received(s, k)
           c == [s.w.conn[k] EXCEPT !.ready = s.w.conn[k].eof,
                                    !.buffered = s.w.conn[k].buffered + s.sock[k].unread]
           o == [s.sock[k] EXCEPT !.unread = 0]
<1>1. s.w.conn[k] \in Connection /\ s.sock[k] \in Socket /\ Sound(s)
  BY Queues DEF Serving, Running
<1>2. Wrote(s, t, k, c, o)
  BY <1>1, ReceivedWrites DEF Serving, Running
<1> HIDE DEF t
<1>3. Same(s, t, k) /\ Sound(t)
  BY <1>2 DEF Wrote, InPlace, Same
<1>4. Fits(t, k)
  <2>1. s.w.conn[k].buffered \in Nat /\ s.sock[k].unread \in Nat /\ left.pieces \in Nat
    BY <1>1, WorkerAssumption DEF Connection, Socket, RestTypes
  <2>2. /\ t.w.conn[k].buffered = s.w.conn[k].buffered + s.sock[k].unread
        /\ t.sock[k].unread = 0
    BY <1>1, <1>2 DEF Wrote, Connection, Socket
  <2> QED BY <2>1, <2>2, WorkerAssumption DEF Serving, Running, Fits
<1>5. Heard(t, k) /\ Open(t, k) /\ t.w.conn[k].phase = s.w.conn[k].phase /\ t.sock[k].unread = 0
  BY <1>1, <1>2, WorkerAssumption DEF Wrote, Serving, Running, Heard, Open, Connection, Socket
<1>6. ~Free(t, k) /\ ~Awaits(t, k) /\ ~Queued(t, k)
  BY <1>2 DEF Wrote, InPlace, SamePlace, Serving, Running, IdlePhases
<1>7. Serving(t, k)
  BY <1>3, <1>4, <1>5, <1>6 DEF Serving, Running, IdlePhases
<1> QED BY <1>3, <1>5, <1>7 DEF t

\* A request is parsed until the buffer and the socket have no more.
LEMMA ParsedDone ==
  ASSUME NEW s, NEW k \in Slots, RestTypes, Serving(s, k), s.w.conn[k].phase = "reading",
         NEW u \in Parsed(s, k)
  PROVE  Done(s, u, k)
<1>1. CASE u \in Complete(s, k)
  BY <1>1, CompleteDone
<1> DEFINE hungry == Buffered(s, k, 0)
           again == Received(hungry, k)
           rest == Buffered(again, k, 0)
<1>2. CASE u \notin Complete(s, k)
  <2>1. IF Recv(hungry, k) = "data" THEN u \in Complete(again, k) \/ u = Starved(rest, k)
                                    ELSE u = Starved(hungry, k)
    BY <1>2 DEF Parsed
  <2>2. Same(s, hungry, k) /\ Serving(hungry, k) /\ hungry.w.conn[k].phase = "reading"
    <3>1. s.w.conn[k] \in Connection
      BY Queues DEF Serving, Running
    <3>2. 0 \in 0 .. s.w.conn[k].buffered
      BY <3>1, WorkerAssumption DEF Connection
    <3>3. /\ Same(s, hungry, k) /\ Serving(hungry, k)
          /\ hungry.w.conn[k] = [s.w.conn[k] EXCEPT !.buffered = 0]
      BY <3>2, FewerPieces
    <3> HIDE DEF hungry
    <3> QED BY <3>1, <3>3 DEF Connection
  <2> HIDE DEF hungry
  <2>3. CASE Recv(hungry, k) # "data"
    <3>1. Done(hungry, u, k)
      BY <2>1, <2>2, <2>3, StarvedDone DEF Serving
    <3> QED BY <3>1, <2>2, DoneAfter
  <2>4. CASE Recv(hungry, k) = "data"
    <3>1. /\ Same(hungry, again, k) /\ Serving(again, k)
          /\ again.w.conn[k].phase = "reading" /\ again.sock[k].unread = 0
      BY <2>2, ReceivedServes
    <3> HIDE DEF again
    <3>2. Same(s, again, k)
      BY <2>2, <3>1, SameTwice
    <3>3. CASE u \in Complete(again, k)
      BY <3>1, <3>2, <3>3, CompleteDone, DoneAfter
    <3>4. CASE u = Starved(rest, k)
      <4>1. again.w.conn[k] \in Connection
        BY <3>1, Queues DEF Serving, Running
      <4>2. 0 \in 0 .. again.w.conn[k].buffered
        BY <4>1, WorkerAssumption DEF Connection
      <4>3. /\ Same(again, rest, k) /\ Serving(rest, k) /\ rest.sock[k] = again.sock[k]
            /\ rest.w.conn[k] = [again.w.conn[k] EXCEPT !.buffered = 0]
        BY <3>1, <4>2, FewerPieces
      <4> HIDE DEF rest
      <4>4. rest.w.conn[k].phase = "reading" /\ Recv(rest, k) # "data"
        BY <3>1, <4>1, <4>3 DEF Connection, Recv
      <4>5. Done(rest, u, k)
        BY <3>4, <4>3, <4>4, StarvedDone DEF Serving
      <4> QED BY <3>2, <4>3, <4>5, DoneAfter
    <3> QED BY <2>1, <2>4, <3>3, <3>4
  <2> QED BY <2>3, <2>4
<1> QED BY <1>1, <1>2

\* The first request of a connection, or the next.
LEMMA WaitReadDone ==
  ASSUME NEW s, NEW k \in Slots, RestTypes, Running(s, k),
         s.w.conn[k].phase \in {"wait", "keepalive"}, NEW u \in WaitRead(s, k)
  PROVE  Done(s, u, k)
<1>1. CASE Recv(s, k) # "data"
  <2>1. u = Starved(s, k)
    BY <1>1 DEF WaitRead
  <2> QED BY <1>1, <2>1, StarvedDone
<1>2. CASE Recv(s, k) = "data"
  <2> DEFINE a == In(s, k, "reading")
             b == NotReusable(a, k)
             t == Received(b, k)
             c == [s.w.conn[k] EXCEPT !.phase = "reading"]
  <2>1. s.w.conn[k] \in Connection /\ s.sock[k] \in Socket /\ Sound(s)
    BY Queues DEF Running
  <2>2. Wrote(s, a, k, c, s.sock[k])
    BY <2>1, InWrites DEF Phases
  <2>3. Sound(a) /\ a.w.conn[k] = c /\ a.sock[k] = s.sock[k]
    BY <2>2 DEF Wrote, InPlace, Same
  <2>4. /\ Same(a, b, k) /\ b.w.conn[k] = c /\ b.sock[k] = s.sock[k]
        /\ ~Queued(b, k) /\ (Free(b, k) <=> Free(a, k)) /\ (Awaits(b, k) <=> Awaits(a, k))
    <3> HIDE DEF a, c
    <3> QED BY <2>3, NotReusableSlot
  <2>5. u \in Parsed(t, k)
    BY <1>2 DEF WaitRead
  <2> HIDE DEF a, b, c
  <2>6. Same(s, b, k) /\ Sound(b)
    BY <2>2, <2>4, SameTwice DEF Wrote, InPlace, Same
  <2>7. b.w.conn[k].phase = "reading"
    BY <2>1, <2>4 DEF c, Connection
  <2>8. Serving(b, k)
    <3>1. ~Free(b, k) /\ ~Awaits(b, k) /\ ~Queued(b, k)
      BY <2>2, <2>4 DEF Wrote, InPlace, SamePlace, Running
    <3>2. Heard(b, k) /\ Fits(b, k)
      BY <2>1, <2>4 DEF c, Running, Heard, Fits, Connection
    <3> QED BY <2>6, <2>7, <3>1, <3>2 DEF Serving, Running, Open, IdlePhases
  <2>9. Same(b, t, k) /\ Serving(t, k) /\ t.w.conn[k].phase = "reading"
    BY <2>7, <2>8, ReceivedServes
  <2> HIDE DEF t
  <2>10. Done(t, u, k)
    BY <2>5, <2>9, ParsedDone
  <2>11. Same(s, t, k)
    BY <2>6, <2>9, SameTwice
  <2> QED BY <2>10, <2>11, DoneAfter
<1> QED BY <1>1, <1>2

\* While a response waits to be sent, an event to read only tests for the client's end.
LEMMA TestedReadingDone ==
  ASSUME NEW s, NEW k \in Slots, RestTypes, Running(s, k), s.w.conn[k].phase = "writing",
         s.w.conn[k].timer, NEW u \in TestedReading(s, k)
  PROVE  Done(s, u, k)
<1>1. CASE u = Closed(s, k)
  BY <1>1, ClosedDone DEF Running
<1>2. CASE u = s
  <2>1. Same(s, s, k)
    BY SameNot DEF Running
  <2>2. InOrder(s, k) /\ Noted(s, k)
    BY <1>2 DEF Running, InOrder, Noted, Heard, IdlePhases
  <2> QED BY <1>2, <2>1, <2>2 DEF Done
<1> QED BY <1>1, <1>2 DEF TestedReading

\* Whatever a connection is about to do when it reads, it ends in order.
LEMMA ReadHandlerDone ==
  ASSUME NEW s, NEW k \in Slots, RestTypes, Running(s, k),
         s.w.conn[k].phase = "writing" => s.w.conn[k].timer,
         NEW u \in ReadHandler(s, k)
  PROVE  Done(s, u, k)
<1> DEFINE phase == s.w.conn[k].phase
<1>1. phase \in {"wait", "reading", "writing", "keepalive", "lingering"}
  BY Queues DEF Running, Open, Connection, Phases
<1>2. CASE phase = "wait"
  BY <1>2, WaitReadDone DEF ReadHandler
<1>3. CASE phase = "reading"
  BY <1>3, ParsedDone DEF ReadHandler, Serving
<1>4. CASE phase = "writing"
  BY <1>4, TestedReadingDone DEF ReadHandler
<1>5. CASE phase = "keepalive"
  BY <1>5, WaitReadDone DEF ReadHandler, KeepaliveRead
<1>6. CASE phase = "lingering"
  BY <1>6, LingeredDone DEF ReadHandler
<1> QED BY <1>1, <1>2, <1>3, <1>4, <1>5, <1>6

\* The client's window has room again.
LEMMA WriteHandlerDone ==
  ASSUME NEW s, NEW k \in Slots, RestTypes, Sound(s), InOrder(s, k), Noted(s, k),
         NEW u \in WriteHandler(s, k)
  PROVE  Done(s, u, k)
<1>1. CASE s.w.conn[k].phase # "writing"
  BY <1>1, SameNot DEF WriteHandler, Done
<1>2. CASE s.w.conn[k].phase = "writing"
  <2>1. Serving(s, k)
    BY <1>2 DEF InOrder, Noted, Serving, Running, Heard, Open, IdlePhases
  <2>2. u \in Written(s, k) \/ u = Blocked(s, k)
    BY <1>2 DEF WriteHandler
  <2> QED BY <2>1, <2>2, WrittenDone, BlockedDone
<1> QED BY <1>1, <1>2

-----------------------------------------------------------------------------
(* An event.                                                               *)

\* What is at the socket is known to epoll, to ready and eof, or the event tells it.
Tells(s, e) ==
  LET c == s.w.conn[e.slot]
      o == s.sock[e.slot]
  IN /\ (o.unread > 0 \/ o.fin) => o.edge \/ e.in \/ (c.ready /\ c.phase = "writing")
     /\ o.fin => o.edge \/ c.eof \/ (e.in /\ e.hup)

LEMMA AnnouncedWrites ==
  ASSUME NEW s, Sound(s), NEW e \in Event, e.slot \in Slots
  PROVE  Wrote(s, Announced(s, e), e.slot,
               [s.w.conn[e.slot] EXCEPT !.ready = TRUE, !.eof = s.w.conn[e.slot].eof \/ e.hup],
               s.sock[e.slot])
<1> DEFINE k == e.slot
           c == [s.w.conn[k] EXCEPT !.ready = TRUE, !.eof = s.w.conn[k].eof \/ e.hup]
           t == Announced(s, e)
<1>1. s.w.conn[k] \in Connection /\ s.sock[k] \in Socket
  BY Queues
<1>2. c \in Connection
  BY <1>1 DEF Connection, Event
<1>3. t = [s EXCEPT !.w.conn[k] = c, !.sock[k] = s.sock[k]]
  BY DEF Announced, Ready, Sound, States, Workers, Connection
<1> HIDE DEF c, t
<1>4. Wrote(s, [s EXCEPT !.w.conn[k] = c, !.sock[k] = s.sock[k]], k, c, s.sock[k])
  BY <1>1, <1>2, Writing, Zenon
<1>5. Wrote(s, t, k, c, s.sock[k])
  BY <1>3, <1>4, Zenon
<1> QED BY <1>5 DEF c, t

\* The reading of an event, and then its writing.
LEMMA ReadPartDone ==
  ASSUME NEW s, NEW e \in Event, e.slot \in Slots, RestTypes, Sound(s), InOrder(s, e.slot),
         Open(s, e.slot), ~Awaits(s, e.slot), Tells(s, e), NEW u \in ReadPart(s, e)
  PROVE  Done(s, u, e.slot)
<1> DEFINE k == e.slot
           t == Announced(s, e)
           c == [s.w.conn[k] EXCEPT !.ready = TRUE, !.eof = s.w.conn[k].eof \/ e.hup]
<1>1. CASE ~e.in
  <2>1. u = s
    BY <1>1 DEF ReadPart
  <2>2. Noted(s, k)
    BY <1>1 DEF Tells, Noted
  <2> QED BY <2>1, <2>2, SameNot DEF Done
<1>2. CASE e.in
  <2>1. u \in ReadHandler(t, k)
    BY <1>2 DEF ReadPart
  <2>2. Wrote(s, t, k, c, s.sock[k])
    BY AnnouncedWrites
  <2>3. s.w.conn[k] \in Connection /\ s.sock[k] \in Socket
    BY Queues
  <2> HIDE DEF t
  <2>4. Same(s, t, k) /\ Sound(t)
    BY <2>2 DEF Wrote, InPlace, Same
  <2>5. Heard(t, k) /\ Fits(t, k) /\ Open(t, k)
    BY <1>2, <2>2, <2>3 DEF Wrote, Tells, Heard, InOrder, Fits, Open, Connection
  <2>6. t.w.conn[k].phase = "writing" => t.w.conn[k].timer
    BY <2>2, <2>3 DEF Wrote, InOrder, Connection
  <2>7. ~Free(t, k) /\ ~Awaits(t, k) /\ (Queued(t, k) <=> t.w.conn[k].phase \in IdlePhases)
    BY <2>2, <2>3 DEF Wrote, InPlace, SamePlace, InOrder, Open, Connection
  <2>8. Running(t, k)
    BY <2>4, <2>5, <2>7 DEF Running
  <2>9. Done(t, u, k)
    BY <2>1, <2>6, <2>8, ReadHandlerDone
  <2> QED BY <2>4, <2>9, DoneAfter
<1> QED BY <1>1, <1>2

LEMMA ProcessedDone ==
  ASSUME NEW s, NEW e \in Event, e.slot \in Slots, RestTypes, Sound(s), InOrder(s, e.slot),
         ~Awaits(s, e.slot), Tells(s, e), Fresh(s, e), NEW u \in Processed(s, e)
  PROVE  Done(s, u, e.slot)
<1>1. PICK t \in ReadPart(s, e) : u \in WritePart(t, e)
  BY DEF Processed
<1>2. Done(s, t, e.slot)
  BY ReadPartDone DEF Fresh
<1>3. CASE u \in WriteHandler(t, e.slot)
  <2>1. Done(t, u, e.slot)
    BY <1>2, <1>3, WriteHandlerDone DEF Done, Same
  <2> QED BY <1>2, <2>1, DoneAfter DEF Done
<1>4. CASE u = t
  BY <1>2, <1>4
<1> QED BY <1>1, <1>3, <1>4 DEF WritePart

-----------------------------------------------------------------------------
(* All slots.                                                              *)

Ordered(s) ==
  /\ Sound(s)
  /\ \A k \in Slots : InOrder(s, k) /\ Known(s, k)
  /\ BatchOK(s)

LEMMA NowOrdered ==
  WorkerInv <=> Ordered(Found) /\ RestTypes /\ Staged
BY DEF WorkerInv, Ordered, Sound

\* A handler of slot k keeps the others in order; an event of slot k may follow unless
\* the slot waits for its turn.
LEMMA HandlerKeeps ==
  ASSUME NEW s, NEW t, NEW k \in Slots, RestTypes,
         \A j \in Slots : j # k => InOrder(s, j) /\ Known(s, j),
         BatchOK(s), Done(s, t, k),
         \A i \in DOMAIN s.w.batch : s.w.batch[i].slot = k => ~Awaits(t, k)
  PROVE  Ordered(t)
<1>1. Sound(t)
  BY DEF Done, Same
<1>2. ASSUME NEW j \in Slots PROVE InOrder(t, j) /\ Known(t, j)
  <2>1. CASE j = k
    BY <2>1 DEF Done, Noted, Known
  <2>2. CASE j # k
    <3>1. /\ t.w.conn[j] = s.w.conn[j] /\ t.sock[j] = s.sock[j] /\ SamePlace(s, t, j)
          /\ t.w.batch = s.w.batch /\ InOrder(s, j) /\ Known(s, j)
      BY <2>2 DEF Done, Same
    <3>2. InOrder(t, j)
      BY <3>1 DEF InOrder, SamePlace, Fits
    <3>3. (ToRead(t, j) <=> ToRead(s, j)) /\ (ToEnd(t, j) <=> ToEnd(s, j))
      BY <3>1 DEF ToRead, ToEnd
    <3>4. Known(t, j)
      BY <3>1, <3>3 DEF Known, SamePlace
    <3> QED BY <3>2, <3>4
  <2> QED BY <2>1, <2>2
<1>3. BatchOK(t)
  <2>1. t.w.batch = s.w.batch
    BY DEF Done, Same
  <2>2. ASSUME NEW i \in DOMAIN t.w.batch PROVE ~Awaits(t, t.w.batch[i].slot)
    <3>1. i \in DOMAIN s.w.batch /\ t.w.batch[i] = s.w.batch[i] /\ ~Awaits(s, s.w.batch[i].slot)
      BY <2>1 DEF BatchOK
    <3>2. CASE s.w.batch[i].slot = k
      BY <3>1, <3>2
    <3>3. CASE s.w.batch[i].slot \in Slots /\ s.w.batch[i].slot # k
      BY <3>1, <3>3 DEF Done, Same, SamePlace
    <3>4. CASE s.w.batch[i].slot \notin Slots
      <4>1. t.w.posted \in Seq(Slots)
        BY <1>1 DEF Sound, States, Workers
      <4>2. ToSet(t.w.posted) \subseteq Slots
        BY <4>1 DEF ToSet
      <4> QED BY <3>1, <3>4, <4>2 DEF Awaits
    <3> QED BY <3>2, <3>3, <3>4
  <2> QED BY <2>1, <2>2 DEF BatchOK
<1> QED BY <1>1, <1>2, <1>3 DEF Ordered

\* Where the worker stands, and what it has to do next, is of no matter to the slots.
LEMMA StandsElsewhere ==
  ASSUME NEW s, NEW t \in States, Ordered(s),
         t.w.conn = s.w.conn, t.sock = s.sock, t.w.batch = s.w.batch, t.w.free = s.w.free,
         t.w.reusable = s.w.reusable, t.w.posted = s.w.posted
  PROVE  Ordered(t)
<1>2. Once(t) /\ Sound(t)
  BY DEF Once, Sound, Ordered
<1>3. \A j \in Slots : SamePlace(s, t, j)
  BY DEF SamePlace, Free, Queued, Awaits
<1>4. \A j \in Slots : (ToRead(t, j) <=> ToRead(s, j)) /\ (ToEnd(t, j) <=> ToEnd(s, j))
  BY DEF ToRead, ToEnd
<1>5. \A j \in Slots : Known(t, j)
  BY <1>3, <1>4 DEF Known, Ordered, SamePlace
<1>6. \A j \in Slots : InOrder(t, j)
  BY <1>3 DEF InOrder, Ordered, SamePlace, Fits
<1>7. BatchOK(t)
  BY DEF BatchOK, Ordered, Awaits
<1> QED BY <1>2, <1>5, <1>6, <1>7 DEF Ordered

LEMMA StageKeeps ==
  ASSUME NEW s, NEW stage \in Stages, Ordered(s)
  PROVE  Ordered([w |-> [s.w EXCEPT !.stage = stage], sock |-> s.sock])
<1> DEFINE t == [w |-> [s.w EXCEPT !.stage = stage], sock |-> s.sock]
<1>1. /\ t \in States
      /\ t.w.conn = s.w.conn /\ t.sock = s.sock /\ t.w.batch = s.w.batch
      /\ t.w.free = s.w.free /\ t.w.reusable = s.w.reusable /\ t.w.posted = s.w.posted
  BY DEF Ordered, Sound, States, Workers
<1> HIDE DEF t
<1>2. Ordered(t)
  BY <1>1, StandsElsewhere
<1> QED BY <1>2 DEF t

\* An order that a state record has, the next state has.
LEMMA NextOrdered ==
  ASSUME NEW t, Ordered(t), t.w = w', t.sock = sock', left' = left
  PROVE  Ordered(Found)'
<1>0. Found'.w = t.w /\ Found'.sock = t.sock
  BY DEF Found
<1>1. Sound(Found)'
  BY <1>0 DEF Ordered, Sound, States, Once, Found
<1>2. ASSUME NEW k \in Slots PROVE InOrder(Found, k)'
  <2>1. InOrder(t, k)
    BY DEF Ordered
  <2> QED BY <1>0, <2>1 DEF InOrder, Free, Queued, Awaits, Fits
<1>3. ASSUME NEW k \in Slots PROVE Known(Found, k)'
  <2>1. Known(t, k)
    BY DEF Ordered
  <2> QED BY <1>0, <2>1 DEF Known, ToRead, ToEnd, Awaits
<1>4. BatchOK(Found)'
  BY <1>0 DEF Ordered, BatchOK, Awaits
<1> QED BY <1>1, <1>2, <1>3, <1>4 DEF Ordered

\* Going on to a stage.
LEMMA GotoKeeps ==
  ASSUME NEW s, NEW stage \in Stages, Ordered(s), Goto(s, stage), left' = left
  PROVE  Ordered(Found)' /\ w' = [s.w EXCEPT !.stage = stage] /\ sock' = s.sock
<1> DEFINE t == [w |-> [s.w EXCEPT !.stage = stage], sock |-> s.sock]
<1>1. Ordered(t)
  BY StageKeeps
<1>2. t.w = w' /\ t.sock = sock'
  BY DEF Goto
<1> HIDE DEF t
<1>3. Ordered(Found)'
  BY <1>1, <1>2, NextOrdered
<1> QED BY <1>3 DEF Goto

-----------------------------------------------------------------------------
(* The first state, and the steps of the worker one by one.                *)

\* ngx_event_process_init
LEMMA StartsInOrder == Init => WorkerInv
<1> SUFFICES ASSUME Init PROVE WorkerInv
  OBVIOUS
<1>1. /\ w.conn = [k \in Slots |-> FreeSlot(TRUE)] /\ w.free = [i \in Slots |-> i]
      /\ w.reusable = <<>> /\ w.posted = <<>> /\ w.batch = <<>>
      /\ w.exiting = FALSE /\ w.drain = 0 /\ w.stage = "top"
      /\ sock = [k \in Slots |-> Quiet] /\ Found.w = w /\ Found.sock = sock
      /\ Found = [w |-> w, sock |-> sock]
  BY DEF Init, Found
<1>2. FreeSlot(TRUE) \in Connection /\ Quiet \in Socket
  BY WorkerAssumption DEF Connection, Socket, FreeSlot, Quiet, Phases
<1>3. w.free \in Seq(Slots) /\ IsInjective(w.free) /\ ToSet(w.free) = Slots
  <2>1. w.free \in [1 .. ConnectionN -> Slots] /\ ConnectionN \in Nat
    BY <1>1, WorkerAssumption DEF Slots
  <2>2. w.free \in Seq(Slots)
    BY <2>1
  <2>3. DOMAIN w.free = Slots /\ \A i \in Slots : w.free[i] = i
    BY <1>1
  <2> QED BY <2>2, <2>3 DEF IsInjective, ToSet
<1>4. ToSet(w.reusable) = {} /\ ToSet(w.posted) = {}
  BY <1>1 DEF ToSet
<1>5. w \in Workers
  <2> DEFINE c == [k \in Slots |-> FreeSlot(TRUE)]
             f == [i \in Slots |-> i]
             e == <<>>
  <2>1. w = [conn |-> c, free |-> f, reusable |-> e, posted |-> e, batch |-> e,
             exiting |-> FALSE, drain |-> 0, stage |-> "top"]
    BY DEF Init
  <2>2. c \in [Slots -> Connection]
    BY <1>2
  <2>3. f \in Seq(Slots)
    BY <1>1, <1>3
  <2>4. e \in Seq(Slots) /\ e \in Seq(Event)
    OBVIOUS
  <2> HIDE DEF c, f, e
  <2> QED BY <2>1, <2>2, <2>3, <2>4 DEF Workers, Stages
<1>6. Sound(Found)
  <2>1. Found \in States
    BY <1>1, <1>2, <1>5 DEF States
  <2>2. IsInjective(w.reusable) /\ IsInjective(w.posted)
    BY <1>1 DEF IsInjective
  <2> QED BY <1>1, <1>3, <2>1, <2>2 DEF Sound, Once
<1>7. ASSUME NEW k \in Slots PROVE InOrder(Found, k) /\ Known(Found, k)
  <2>1. w.conn[k] = FreeSlot(TRUE) /\ sock[k] = Quiet
    BY <1>1
  <2>2. Free(Found, k) /\ ~Queued(Found, k) /\ ~Awaits(Found, k)
    BY <1>1, <1>3, <1>4 DEF Free, Queued, Awaits
  <2>3. left.pieces = MaxPieces /\ MaxPieces \in Nat
    BY WorkerAssumption DEF Init
  <2>4. /\ w.conn[k].phase = "closed" /\ w.conn[k].instance = TRUE /\ w.conn[k].buffered = 0
        /\ sock[k].unread = 0
    BY <2>1 DEF FreeSlot, Quiet
  <2>5. InOrder(Found, k)
    <3>1. Found.w.conn[k] = FreeSlot(TRUE) /\ Found.sock[k] = Quiet
      BY <1>1, <2>1
    <3>2. Fits(Found, k)
      BY <2>3, <2>4, <3>1 DEF Fits, FreeSlot, Quiet
    <3>3. FreeSlot(TRUE).phase = "closed" /\ FreeSlot(FreeSlot(TRUE).instance) = FreeSlot(TRUE)
      BY DEF FreeSlot
    <3> QED BY <2>2, <3>1, <3>2, <3>3 DEF InOrder, IdlePhases
  <2>6. Known(Found, k)
    <3>1. Found.sock[k].unread = 0 /\ Found.sock[k].fin = FALSE
      BY <1>1, <2>1 DEF Quiet
    <3> QED BY <3>1 DEF Known
  <2> QED BY <2>5, <2>6
<1>8. BatchOK(Found)
  BY <1>1 DEF BatchOK
<1>9. RestTypes
  BY WorkerAssumption DEF Init, RestTypes
<1>10. Staged
  BY <1>1 DEF Staged
<1> QED BY <1>6, <1>7, <1>8, <1>9, <1>10, NowOrdered DEF Ordered

\* A step of the worker on its way through a batch.
LEMMA OnTheWay ==
  ASSUME RestTypes, UNCHANGED <<backlog, signals, left>>, NEW s, Ordered(s),
         NEW stage \in {"batch", "accept"}, Goto(s, stage)
  PROVE  WorkerInv' /\ w'.conn = s.w.conn /\ w'.stage = stage
<1>1. Ordered(Found)' /\ w' = [s.w EXCEPT !.stage = stage] /\ sock' = s.sock
  BY GotoKeeps DEF Stages
<1>2. s.w \in Workers
  BY DEF Ordered, Sound, States
<1>3. w'.stage = stage /\ w'.conn = s.w.conn
  BY <1>1, <1>2 DEF Workers
<1>4. RestTypes'
  BY DEF RestTypes
<1>5. Staged'
  BY <1>3 DEF Staged
<1>6. WorkerInv'
  BY <1>1, <1>4, <1>5 DEF WorkerInv, Ordered, Sound
<1> QED BY <1>3, <1>6

\* The batch without its first event.
LEMMA RestedFacts ==
  ASSUME WorkerInv, w.batch # <<>>
  PROVE  LET e == Head(w.batch)
         IN /\ e \in Event
            /\ Sound(Rested) /\ Rested.w.conn = w.conn /\ Rested.sock = sock
            /\ BatchOK(Rested)
            /\ \A i \in DOMAIN Rested.w.batch : Rested.w.batch[i].slot # e.slot
            /\ ~Awaits(Rested, e.slot)
            /\ \A k \in Slots : InOrder(Rested, k)
            /\ \A k \in Slots : k # e.slot => Known(Rested, k)
            /\ e.slot \in Slots /\ e.instance = w.conn[e.slot].instance => Tells(Rested, e)
            /\ e.slot \in Slots /\ e.instance # w.conn[e.slot].instance => Known(Rested, e.slot)
<1> DEFINE e == Head(w.batch)
           r == Rested
           q == w.batch
<1>1. Ordered(Found) /\ RestTypes /\ Staged
  BY NowOrdered
<1>2. w \in Workers /\ sock \in [Slots -> Socket] /\ Found.w = w /\ Found.sock = sock
  BY <1>1 DEF Ordered, Sound, States, Found
<1>3. q \in Seq(Event)
  BY <1>2 DEF Workers
<1>4. /\ e \in Event /\ e = q[1] /\ 1 \in DOMAIN q /\ Tail(q) \in Seq(Event)
      /\ \A i \in DOMAIN Tail(q) : i \in Nat /\ i + 1 \in DOMAIN q /\ i + 1 # 1 /\ Tail(q)[i] = q[i + 1]
      /\ \A i \in DOMAIN q : i # 1 => i - 1 \in DOMAIN Tail(q) /\ Tail(q)[i - 1] = q[i]
  BY <1>3
<1>5. /\ r \in States /\ r.w.conn = w.conn /\ r.sock = sock /\ r.w.batch = Tail(q)
      /\ r.w.free = w.free /\ r.w.reusable = w.reusable /\ r.w.posted = w.posted
  BY <1>2, <1>4 DEF Rested, Found, States, Workers
<1> HIDE DEF e, r, q
<1>6. Sound(r)
  BY <1>1, <1>2, <1>5 DEF Sound, Ordered, Once
<1>7. \A k : SamePlace(Found, r, k)
  BY <1>2, <1>5 DEF SamePlace, Free, Queued, Awaits
<1>8. \A i \in DOMAIN r.w.batch : i + 1 \in DOMAIN q /\ i + 1 # 1 /\ r.w.batch[i] = q[i + 1] /\ i \in Nat
  BY <1>4, <1>5
<1>9. /\ \A i, j \in DOMAIN q : q[i].slot = q[j].slot => i = j
      /\ \A i \in DOMAIN q : ~Awaits(Found, q[i].slot)
  BY <1>1, <1>2 DEF Ordered, BatchOK, q
<1>10. BatchOK(r)
  <2>1. ASSUME NEW i \in DOMAIN r.w.batch, NEW j \in DOMAIN r.w.batch,
               r.w.batch[i].slot = r.w.batch[j].slot
        PROVE  i = j
    <3>1. i + 1 = j + 1
      BY <1>8, <1>9, <2>1
    <3> QED BY <3>1, <1>8
  <2>2. ASSUME NEW i \in DOMAIN r.w.batch PROVE ~Awaits(r, r.w.batch[i].slot)
    BY <1>7, <1>8, <1>9 DEF SamePlace
  <2> QED BY <2>1, <2>2 DEF BatchOK
<1>11. \A i \in DOMAIN r.w.batch : r.w.batch[i].slot # e.slot
  BY <1>4, <1>8, <1>9
<1>12. ~Awaits(r, e.slot)
  BY <1>4, <1>7, <1>9 DEF SamePlace
<1>13. \A k \in Slots : InOrder(r, k)
  BY <1>1, <1>2, <1>5, <1>7 DEF Ordered, InOrder, SamePlace, Fits
<1>14. ASSUME NEW k \in Slots, k # e.slot \/ w.conn[k].instance # e.instance
       PROVE  Known(r, k)
  <2> DEFINE Of(f) == f.slot = k /\ f.instance = w.conn[k].instance /\ f.in
  <2>0. ~Of(q[1])
    BY <1>4, <1>14
  <2>1. ASSUME ToRead(Found, k) PROVE ToRead(r, k)
    <3>1. PICK i \in DOMAIN q : Of(q[i])
      BY <1>2, <2>1 DEF ToRead, q
    <3>2. i - 1 \in DOMAIN r.w.batch /\ Of(r.w.batch[i - 1])
      BY <1>4, <1>5, <2>0, <3>1
    <3> QED BY <1>5, <3>2 DEF ToRead
  <2>2. ASSUME ToEnd(Found, k) PROVE ToEnd(r, k)
    <3>1. PICK i \in DOMAIN q : Of(q[i]) /\ q[i].hup
      BY <1>2, <2>2 DEF ToEnd, q
    <3>2. i - 1 \in DOMAIN r.w.batch /\ Of(r.w.batch[i - 1]) /\ r.w.batch[i - 1].hup
      BY <1>4, <1>5, <2>0, <3>1
    <3> QED BY <1>5, <3>2 DEF ToEnd
  <2> QED BY <1>1, <1>2, <1>5, <1>7, <2>1, <2>2 DEF Ordered, Known, SamePlace
<1>15. ASSUME e.slot \in Slots PROVE Tells(r, e)
  <2> DEFINE k == e.slot
  <2>1. Known(Found, k) /\ ~Awaits(Found, k)
    BY <1>1, <1>4, <1>9, <1>15 DEF Ordered
  <2>2. ToRead(Found, k) => e.in
    BY <1>2, <1>4, <1>9 DEF ToRead, q
  <2>3. ToEnd(Found, k) => e.in /\ e.hup
    BY <1>2, <1>4, <1>9 DEF ToEnd, q
  <2> QED BY <1>2, <1>5, <2>1, <2>2, <2>3 DEF Known, Tells
<1> QED BY <1>4, <1>5, <1>6, <1>10, <1>11, <1>12, <1>13, <1>14, <1>15 DEF e, r

\* One event of the batch: of a listening socket, stale, or handled.
LEMMA HandleEventStep ==
  ASSUME WorkerInv, HandleEvent
  PROVE  WorkerInv' /\ \A k \in Slots : w'.conn[k] # w.conn[k] => Head(w.batch).slot = k
<1> DEFINE e == Head(w.batch)
<1>1. /\ w.batch # <<>> /\ UNCHANGED <<backlog, signals, left>>
      /\ IF e.slot = Listening THEN Goto(Rested, "accept")
         ELSE \E s \in Processed(Rested, e) : Goto(s, "batch")
  BY DEF HandleEvent
<1>2. RestTypes
  BY DEF WorkerInv
<1> DEFINE r == Rested
<1>3. /\ e \in Event
      /\ Sound(r) /\ r.w.conn = w.conn /\ r.sock = sock
      /\ BatchOK(r)
      /\ \A i \in DOMAIN r.w.batch : r.w.batch[i].slot # e.slot
      /\ ~Awaits(r, e.slot)
      /\ \A k \in Slots : InOrder(r, k)
      /\ \A k \in Slots : k # e.slot => Known(r, k)
      /\ e.slot \in Slots /\ e.instance = w.conn[e.slot].instance => Tells(r, e)
      /\ e.slot \in Slots /\ e.instance # w.conn[e.slot].instance => Known(r, e.slot)
  BY <1>1, RestedFacts, Zenon
<1> HIDE DEF e, r
<1>4. e.slot \in Slots \/ (e.slot = Listening /\ e.slot \notin Slots)
  BY <1>3 DEF Event, Listening, Slots
<1>5. CASE e.slot \notin Slots
  <2>1. Ordered(r)
    BY <1>3, <1>5 DEF Ordered
  <2>2. Goto(r, "accept")
    BY <1>1, <1>4, <1>5 DEF r
  <2> QED BY <1>1, <1>2, <1>3, <2>1, <2>2, OnTheWay
<1>6. CASE e.slot \in Slots
  <2>1. e.slot # Listening
    BY <1>6 DEF Slots, Listening
  <2>2. PICK s \in Processed(r, e) : Goto(s, "batch")
    BY <1>1, <2>1 DEF r
  <2>3. CASE ~Fresh(r, e)
    <3>1. s = r
      BY <2>2, <2>3 DEF Processed
    <3>2. Known(r, e.slot)
      <4>1. CASE e.instance # w.conn[e.slot].instance
        BY <1>3, <1>6, <4>1
      <4>2. CASE r.w.conn[e.slot].phase = "closed"
        <5>1. r.sock[e.slot] = Quiet
          BY <1>3, <1>6, <4>2 DEF InOrder
        <5>2. r.sock[e.slot].unread = 0 /\ r.sock[e.slot].fin = FALSE
          BY <5>1 DEF Quiet
        <5> QED BY <5>2 DEF Known
      <4> QED BY <1>3, <2>3, <4>1, <4>2 DEF Fresh, Open
    <3>3. Ordered(r)
      BY <1>3, <3>2 DEF Ordered
    <3> QED BY <1>1, <1>2, <1>3, <2>2, <3>1, <3>3, OnTheWay
  <2>4. CASE Fresh(r, e)
    <3>1. e.instance = w.conn[e.slot].instance
      BY <1>3, <2>4 DEF Fresh
    <3>2. Done(r, s, e.slot)
      BY <1>2, <1>3, <1>6, <2>2, <2>4, <3>1, ProcessedDone
    <3>3. Ordered(s)
      BY <1>2, <1>3, <1>6, <3>2, HandlerKeeps
    <3>4. WorkerInv' /\ w'.conn = s.w.conn
      BY <1>1, <1>2, <2>2, <3>3, OnTheWay
    <3>5. \A k \in Slots : k # e.slot => w'.conn[k] = w.conn[k]
      BY <1>3, <3>2, <3>4 DEF Done, Same
    <3> QED BY <3>4, <3>5 DEF e
  <2> QED BY <2>3, <2>4
<1> QED BY <1>5, <1>6

\* A timer that is due closes its connection.
LEMMA ExpireStep ==
  ASSUME WorkerInv, NEW k \in Slots, Expire(k)
  PROVE  WorkerInv' /\ \A j \in Slots : w'.conn[j] # w.conn[j] => j = k
<1> DEFINE s == Closed(Found, k)
<1>1. /\ w.batch = <<>> /\ w.conn[k].timer /\ UNCHANGED <<backlog, signals, left>>
      /\ Goto(s, "batch")
  BY DEF Expire
<1>2. Ordered(Found) /\ RestTypes /\ Found.w = w
  BY NowOrdered DEF Found
<1>3. Sound(Found) /\ InOrder(Found, k)
  BY <1>2 DEF Ordered
<1>4. ~Free(Found, k) /\ Fits(Found, k)
  <2>1. w.conn[k].phase # "closed"
    <3>1. ~FreeSlot(w.conn[k].instance).timer
      BY DEF FreeSlot
    <3> QED BY <1>1, <1>2, <1>3, <3>1 DEF InOrder
  <2> QED BY <1>2, <1>3, <2>1 DEF InOrder
<1>5. Done(Found, s, k)
  BY <1>2, <1>3, <1>4, ClosedDone
<1> HIDE DEF s
<1>6. Ordered(s)
  BY <1>1, <1>2, <1>5, HandlerKeeps DEF Ordered
<1>7. WorkerInv' /\ w'.conn = s.w.conn
  BY <1>1, <1>2, <1>6, OnTheWay
<1> QED BY <1>2, <1>5, <1>7 DEF Done, Same

\* A step of the worker to a stage where the batch is worked off.
LEMMA Ahead ==
  ASSUME RestTypes, RestTypes', left' = left, NEW s, Ordered(s), s.w.batch = <<>>,
         NEW stage \in {"top", "posted", "idle", "gone"}, Goto(s, stage),
         stage # "posted" => s.w.posted = <<>>,
         stage = "gone" => "TERM" \in signals' \/ \A k \in Slots : ~Open(s, k)
  PROVE  WorkerInv' /\ w'.conn = s.w.conn /\ w'.stage = stage
<1>1. Ordered(Found)' /\ w' = [s.w EXCEPT !.stage = stage] /\ sock' = s.sock
  BY GotoKeeps DEF Stages
<1>2. s.w \in Workers
  BY DEF Ordered, Sound, States
<1>3. w'.stage = stage /\ w'.conn = s.w.conn /\ w'.batch = <<>> /\ w'.posted = s.w.posted
  BY <1>1, <1>2 DEF Workers
<1>4. Staged'
  BY <1>3 DEF Staged, Open, Found
<1>5. WorkerInv'
  BY <1>1, <1>4 DEF WorkerInv, Ordered, Sound
<1> QED BY <1>3, <1>5

LEMMA TimersDoneStep ==
  ASSUME WorkerInv, TimersDone
  PROVE  WorkerInv' /\ w'.conn = w.conn
<1>1. Ordered(Found) /\ RestTypes /\ Found.w = w
  BY NowOrdered DEF Found
<1>2. /\ w.batch = <<>> /\ Goto(Found, "posted") /\ UNCHANGED <<backlog, signals, left>>
      /\ left' = left
  BY DEF TimersDone
<1>3. RestTypes'
  BY <1>1, <1>2 DEF RestTypes
<1> QED BY <1>1, <1>2, <1>3, Ahead

\* While exiting, without timers: whatever is open has one.
LEMMA LeaveStep ==
  ASSUME WorkerInv, Leave
  PROVE  WorkerInv' /\ w'.conn = w.conn
<1>1. Ordered(Found) /\ RestTypes /\ Staged /\ Found.w = w
  BY NowOrdered DEF Found
<1>2. /\ w.stage = "top" /\ NoTimersLeft /\ Goto(Found, "gone")
      /\ UNCHANGED <<backlog, signals, left>> /\ left' = left
  BY DEF Leave
<1>3. RestTypes'
  BY <1>1, <1>2 DEF RestTypes
<1>4. w.batch = <<>> /\ w.posted = <<>>
  BY <1>1, <1>2 DEF Staged
<1>5. ASSUME NEW k \in Slots PROVE ~Open(Found, k)
  <2>1. ~Awaits(Found, k)
    BY <1>1, <1>4 DEF Awaits, ToSet
  <2> QED BY <1>1, <1>2, <2>1 DEF Ordered, InOrder, Open, NoTimersLeft
<1> QED BY <1>1, <1>2, <1>3, <1>4, <1>5, Ahead

\* The first posted event: its connection reads what is in the buffer, or what ready
\* remembers.
LEMMA HandlePostedStep ==
  ASSUME WorkerInv, HandlePosted
  PROVE  WorkerInv' /\ \A j \in Slots : w'.conn[j] # w.conn[j] => j = Head(w.posted)
<1> DEFINE k == Head(w.posted)
           r == [Found EXCEPT !.w.posted = Tail(@)]
           p == Tail(w.posted)
<1>1. /\ w.stage = "posted" /\ w.posted # <<>> /\ UNCHANGED <<backlog, signals, left>>
      /\ left' = left
  BY DEF HandlePosted
<1>2. PICK s \in ReadHandler(r, k) : Goto(s, "posted")
  BY DEF HandlePosted
<1>3. Ordered(Found) /\ RestTypes /\ Staged /\ Found.w = w /\ Found.sock = sock
  BY NowOrdered DEF Found
<1>4. w.batch = <<>>
  BY <1>1, <1>3 DEF Staged
<1>5. /\ p \in Seq(Slots) /\ k \in ToSet(w.posted) /\ k \in Slots
      /\ IsInjective(p) /\ ToSet(p) = ToSet(w.posted) \ {k}
  <2>1. w.posted \in Seq(Slots) /\ IsInjective(w.posted)
    BY <1>3 DEF Ordered, Sound, Once, States, Workers
  <2> QED BY <1>1, <2>1, OffTheFront, Zenon
<1>6. /\ r \in States /\ r.w.conn = w.conn /\ r.sock = sock /\ r.w.batch = <<>>
      /\ r.w.free = w.free /\ r.w.reusable = w.reusable /\ r.w.posted = p
  <2> HIDE DEF p
  <2>1. r = [Found EXCEPT !.w.posted = p]
    BY DEF p, Found
  <2> HIDE DEF r
  <2> QED BY <1>3, <1>4, <1>5, <2>1 DEF Ordered, Sound, States, Workers
<1> HIDE DEF r, p, k
<1>7. Sound(r)
  BY <1>3, <1>5, <1>6 DEF Ordered, Sound, Once
<1>8. /\ \A j \in Slots : (Free(r, j) <=> Free(Found, j)) /\ (Queued(r, j) <=> Queued(Found, j))
      /\ \A j \in Slots : j # k => (Awaits(r, j) <=> Awaits(Found, j))
      /\ ~Awaits(r, k) /\ Awaits(Found, k)
  BY <1>3, <1>5, <1>6 DEF Free, Queued, Awaits
<1>9. \A j \in Slots : ~ToRead(Found, j) /\ ~ToEnd(Found, j)
  BY <1>3, <1>4 DEF ToRead, ToEnd
<1>10. ASSUME NEW j \in Slots, j # k PROVE InOrder(r, j) /\ Known(r, j)
  <2>1. InOrder(Found, j) /\ Known(Found, j)
    BY <1>3 DEF Ordered
  <2>2. InOrder(r, j)
    BY <1>3, <1>6, <1>8, <1>10, <2>1 DEF InOrder, Fits
  <2>3. Known(r, j)
    BY <1>3, <1>6, <1>8, <1>9, <1>10, <2>1 DEF Known
  <2> QED BY <2>2, <2>3
<1>11. Running(r, k) /\ r.w.conn[k].phase # "writing"
  <2>1. InOrder(Found, k) /\ Known(Found, k)
    BY <1>3, <1>5 DEF Ordered
  <2>2. Heard(r, k)
    BY <1>3, <1>5, <1>6, <1>9, <2>1 DEF Known, Heard
  <2>3. w.conn[k].phase \in {"reading", "keepalive"}
    BY <1>3, <1>8, <2>1 DEF InOrder
  <2> QED BY <1>3, <1>5, <1>6, <1>7, <1>8, <2>1, <2>2, <2>3 DEF Running, InOrder, Fits, Open
<1>12. BatchOK(r)
  BY <1>6 DEF BatchOK
<1>13. Done(r, s, k)
  BY <1>2, <1>3, <1>5, <1>11, ReadHandlerDone
<1>14. Ordered(s)
  BY <1>3, <1>5, <1>6, <1>10, <1>12, <1>13, HandlerKeeps
<1>15. s.w.batch = <<>> /\ \A j \in Slots : j # k => s.w.conn[j] = w.conn[j]
  BY <1>6, <1>13 DEF Done, Same
<1>16. RestTypes'
  BY <1>1, <1>3 DEF RestTypes
<1>17. WorkerInv' /\ w'.conn = s.w.conn
  BY <1>1, <1>2, <1>3, <1>14, <1>15, <1>16, Ahead
<1> QED BY <1>15, <1>17 DEF k

\* ngx_terminate and ngx_quit are looked at when all is worked off.
LEMMA LoopEndsStep ==
  ASSUME WorkerInv, LoopEnds
  PROVE  WorkerInv' /\ w'.conn = w.conn
<1>1. /\ w.stage = "posted" /\ w.posted = <<>> /\ UNCHANGED <<backlog, left>>
      /\ left' = left
  BY DEF LoopEnds
<1>2. Ordered(Found) /\ RestTypes /\ Staged /\ Found.w = w /\ Found.sock = sock
  BY NowOrdered DEF Found
<1>3. w.batch = <<>>
  BY <1>1, <1>2 DEF Staged
<1>4. RestTypes'
  <2>1. signals' \subseteq signals
    BY DEF LoopEnds
  <2> QED BY <1>1, <1>2, <2>1 DEF RestTypes
<1>5. CASE "TERM" \in signals
  <2>1. Goto(Found, "gone") /\ "TERM" \in signals'
    BY <1>5 DEF LoopEnds
  <2> QED BY <1>1, <1>2, <1>3, <1>4, <2>1, Ahead
<1>6. CASE Goto(Found, "top")
  BY <1>1, <1>2, <1>3, <1>4, <1>6, Ahead
<1>7. CASE Goto([Found EXCEPT !.w.exiting = TRUE], "idle")
  <2> DEFINE t == [Found EXCEPT !.w.exiting = TRUE]
  <2>1. /\ t \in States
        /\ t.w.conn = w.conn /\ t.sock = sock /\ t.w.batch = w.batch /\ t.w.free = w.free
        /\ t.w.reusable = w.reusable /\ t.w.posted = w.posted
    BY <1>2 DEF Ordered, Sound, States, Workers
  <2>2. Goto(t, "idle")
    BY <1>7
  <2> HIDE DEF t
  <2>3. Ordered(t)
    BY <1>2, <2>1, StandsElsewhere
  <2> QED BY <1>1, <1>2, <1>3, <1>4, <2>1, <2>2, <2>3, Ahead
<1> QED BY <1>5, <1>6, <1>7 DEF LoopEnds

\* A set of slots that is not empty has a first one.
LEMMA FirstSlot ==
  ASSUME NEW S \in SUBSET Slots, S # {}
  PROVE  \E k \in S : \A j \in S : k <= j
<1>1. S \subseteq Nat
  BY DEF Slots
<1>2. PICK k \in S : \A j \in S : ~(<<j, k>> \in OpToRel(<, Nat))
  BY <1>1, NatLessThanWellFounded, WFMin
<1>3. \A j \in S : k <= j
  <2> SUFFICES ASSUME NEW j \in S PROVE k <= j
    OBVIOUS
  <2>1. k \in Nat /\ j \in Nat
    BY <1>1
  <2>2. <<j, k>> \in Nat \X Nat
    BY <2>1
  <2>3. ~(j < k)
    BY <1>2, <2>2, ZenonT(30) DEF OpToRel
  <2> QED BY <2>1, <2>3
<1> QED BY <1>3

\* ngx_quit closes the connections that are kept alive.
LEMMA CloseIdleStep ==
  ASSUME WorkerInv, CloseIdle
  PROVE  WorkerInv' /\ \A j \in Slots : w'.conn[j] # w.conn[j] => w.conn[j].phase = "keepalive"
<1>1. w.stage = "idle" /\ UNCHANGED <<backlog, signals, left>> /\ left' = left
  BY DEF CloseIdle
<1>2. Ordered(Found) /\ RestTypes /\ Staged /\ Found.w = w /\ Found.sock = sock
  BY NowOrdered DEF Found
<1>3. w.batch = <<>> /\ w.posted = <<>>
  BY <1>1, <1>2 DEF Staged
<1>4. RestTypes'
  BY <1>1, <1>2 DEF RestTypes
<1>5. CASE KeptIdle = {}
  <2>1. Goto(Found, "top")
    BY <1>5 DEF CloseIdle
  <2> QED BY <1>1, <1>2, <1>3, <1>4, <2>1, Ahead
<1>6. CASE KeptIdle # {}
  <2>1. PICK k \in KeptIdle : Goto(Closed(Found, k), "idle")
    <3>1. \E k \in KeptIdle : \A j \in KeptIdle : k <= j
      BY <1>6, FirstSlot DEF KeptIdle
    <3> DEFINE first == CHOOSE k \in KeptIdle : \A j \in KeptIdle : k <= j
    <3>2. first \in KeptIdle
      BY <3>1, Zenon
    <3>3. Goto(Closed(Found, first), "idle")
      BY <1>6, Zenon DEF CloseIdle
    <3> QED BY <3>2, <3>3, Zenon
  <2> DEFINE s == Closed(Found, k)
  <2>2. k \in Slots /\ w.conn[k].phase = "keepalive"
    BY DEF KeptIdle
  <2>3. Sound(Found) /\ InOrder(Found, k)
    BY <1>2, <2>2 DEF Ordered
  <2>4. ~Free(Found, k) /\ Fits(Found, k)
    BY <1>2, <2>2, <2>3 DEF InOrder
  <2>5. Done(Found, s, k)
    BY <1>2, <2>2, <2>3, <2>4, ClosedDone
  <2>6. ToSet(s.w.posted) \subseteq ToSet(w.posted)
    <3>1. s.w.posted = Without(w.posted, k)
      BY <1>2, <2>3 DEF Closed, Sound, States, Workers
    <3>2. w.posted \in Seq(Slots) /\ IsInjective(w.posted)
      BY <1>2, <2>3 DEF Sound, Once, States, Workers
    <3>3. ToSet(Without(w.posted, k)) = ToSet(w.posted) \ {k}
      BY <3>2, TakenOut, Zenon
    <3> QED BY <3>1, <3>3
  <2> HIDE DEF s
  <2>7. s.w.batch = <<>> /\ s.w.posted = <<>>
    <3>1. s.w.batch = w.batch /\ s.w.posted \in Seq(Slots)
      BY <1>2, <2>5 DEF Done, Same, Sound, States, Workers
    <3>2. ToSet(s.w.posted) = {}
      <4>1. ToSet(w.posted) = {}
        BY <1>3 DEF ToSet
      <4> QED BY <2>6, <4>1
    <3> QED BY <1>3, <3>1, <3>2, NothingIn
  <2>8. Ordered(s)
    BY <1>2, <1>3, <2>2, <2>5, HandlerKeeps DEF Ordered
  <2>9. Goto(s, "idle")
    BY <2>1 DEF s
  <2>10. WorkerInv' /\ w'.conn = s.w.conn
    BY <1>1, <1>2, <1>4, <2>7, <2>8, <2>9, Ahead
  <2> QED BY <1>2, <2>2, <2>5, <2>10 DEF Done, Same
<1> QED BY <1>5, <1>6

-----------------------------------------------------------------------------
(* Accepting.                                                              *)

\* ngx_get_connection and ngx_http_init_connection: a slot of the free list waits for
\* its first request.  Events of the slot's last connection tell it by their instance.
LEMMA TakenKeeps ==
  ASSUME NEW s, RestTypes, Ordered(s), s.w.free # <<>>
  PROVE  LET k == Head(s.w.free)
         IN /\ Ordered(Taken(s)) /\ k \in Slots /\ s.w.conn[k].phase = "closed"
            /\ Same(s, Taken(s), k)
<1> DEFINE k == Head(s.w.free)
           f == Tail(s.w.free)
           b == ~s.w.conn[k].instance
           c == [FreeSlot(b) EXCEPT !.phase = "wait", !.timer = TRUE]
           a == [s EXCEPT !.w.free = f, !.w.conn[k] = c]
           t == Reusable(a, k)
<1>1. Sound(s)
  BY DEF Ordered
<1>2. /\ f \in Seq(Slots) /\ IsInjective(f) /\ k \in Slots /\ k \in ToSet(s.w.free)
      /\ ToSet(f) = ToSet(s.w.free) \ {k}
  <2>1. s.w.free \in Seq(Slots) /\ IsInjective(s.w.free)
    BY <1>1 DEF Sound, Once, States, Workers
  <2> QED BY <2>1, OffTheFront, Zenon
<1>3. Taken(s) = t
  BY <1>2 DEF Taken, Ordered, Sound, States, Workers
<1> HIDE DEF k, f, t
<1>4. s.w.conn[k].instance \in BOOLEAN /\ s.sock[k] \in Socket
  BY <1>1, <1>2, Queues DEF Connection
<1>5. /\ c \in Connection /\ c.phase = "wait" /\ c.timer = TRUE /\ c.buffered = 0
  <2>1. b \in BOOLEAN
    BY <1>4
  <2> HIDE DEF b
  <2> DEFINE d == FreeSlot(b)
  <2>2. d \in Connection /\ d.buffered = 0
    BY <2>1, WorkerAssumption DEF FreeSlot, Connection, Phases
  <2> HIDE DEF d
  <2>3. c = [d EXCEPT !.phase = "wait", !.timer = TRUE]
    BY DEF d
  <2> HIDE DEF c
  <2> QED BY <2>2, <2>3 DEF Connection, Phases
<1> HIDE DEF b, c
<1>6. /\ Requeued(s, a, k) /\ a.w.conn[k] = c /\ a.sock[k] = s.sock[k]
      /\ a.w.free = f /\ a.w.reusable = s.w.reusable /\ a.w.posted = s.w.posted
  BY <1>1, <1>2, <1>5 DEF Requeued, Sound, States, Workers
<1> HIDE DEF a
<1>7. Same(s, a, k)
  <2>1. Once(a)
    BY <1>1, <1>2, <1>6 DEF Once, Sound
  <2>2. /\ Alike(a.w.free, s.w.free, k) /\ Alike(a.w.reusable, s.w.reusable, k)
        /\ Alike(a.w.posted, s.w.posted, k)
    BY <1>2, <1>6 DEF Alike
  <2> QED BY <1>2, <1>6, <2>1, <2>2, Queueing
<1>8. InOrder(s, k) /\ Free(s, k) /\ s.w.conn[k].phase = "closed" /\ s.sock[k] = Quiet
  <2>1. InOrder(s, k) /\ Free(s, k)
    BY <1>2 DEF Ordered, Free
  <2> QED BY <2>1 DEF InOrder
<1>9. ~Awaits(s, k)
  BY <1>8 DEF InOrder
<1>10. /\ Same(a, t, k) /\ t.w.conn[k] = c /\ t.sock[k] = Quiet
       /\ Queued(t, k) /\ ~Free(t, k) /\ ~Awaits(t, k)
  <2>1. /\ Same(a, t, k) /\ t.w.conn[k] = a.w.conn[k] /\ t.sock[k] = a.sock[k]
        /\ Queued(t, k) /\ (Free(t, k) <=> Free(a, k)) /\ (Awaits(t, k) <=> Awaits(a, k))
    BY <1>2, <1>7, ReusableSlot DEF Same, t
  <2>2. ~Free(a, k) /\ ~Awaits(a, k)
    BY <1>2, <1>6, <1>9 DEF Free, Awaits
  <2> QED BY <1>6, <1>8, <2>1, <2>2
<1>11. InOrder(t, k)
  <2>1. Fits(t, k)
    <3>1. s.w.conn[k].buffered \in Nat /\ left.pieces \in Nat /\ s.sock[k].unread = 0
      <4>1. s.w.conn[k] \in Connection
        BY <1>1, <1>2, Queues
      <4> QED BY <1>8, <4>1, WorkerAssumption DEF RestTypes, Connection, Quiet
    <3>2. left.pieces <= MaxPieces
      BY <1>8, <3>1, WorkerAssumption DEF InOrder, Fits
    <3>3. t.w.conn[k].buffered = 0 /\ t.sock[k].unread = 0
      BY <1>5, <1>10 DEF Quiet
    <3> QED BY <3>1, <3>2, <3>3 DEF Fits
  <2> QED BY <1>5, <1>10, <2>1 DEF InOrder, IdlePhases
<1>12. Noted(t, k)
  <2>1. t.sock[k].unread = 0 /\ t.sock[k].fin = FALSE
    BY <1>10 DEF Quiet
  <2> QED BY <2>1 DEF Noted
<1>13. Same(s, t, k)
  BY <1>7, <1>10, SameTwice
<1>14. Ordered(t)
  BY <1>2, <1>10, <1>11, <1>12, <1>13, HandlerKeeps DEF Done, Ordered
<1> QED BY <1>2, <1>3, <1>8, <1>13, <1>14 DEF k

\* One connection is seated, or turned away.
LEMMA SeatKeeps ==
  ASSUME NEW s, RestTypes, RestTypes', left' = left, Ordered(s), Seat(s)
  PROVE  /\ WorkerInv'
         /\ \A k \in Slots : w'.conn[k] # s.w.conn[k] => s.w.conn[k].phase = "closed"
         /\ w'.stage = "batch" => s.w.free = <<>>
<1> DEFINE t == IF s.w.free = <<>> THEN s ELSE Taken(s)
           stage == IF s.w.free = <<>> THEN "batch" ELSE "accept"
<1>1. Goto(t, stage) /\ stage \in Stages /\ (stage = "batch" <=> s.w.free = <<>>)
      /\ stage \in {"batch", "accept"}
  BY DEF Seat, Stages
<1>2. Ordered(t) /\ \A k \in Slots : t.w.conn[k] # s.w.conn[k] => s.w.conn[k].phase = "closed"
  <2>1. CASE s.w.free = <<>>
    BY <2>1
  <2>2. CASE s.w.free # <<>>
    BY <2>2, TakenKeeps DEF Same
  <2> QED BY <2>1, <2>2
<1> HIDE DEF t, stage
<1>3. Ordered(Found)' /\ w' = [t.w EXCEPT !.stage = stage]
  BY <1>1, <1>2, GotoKeeps
<1>4. w'.stage = stage /\ w'.conn = t.w.conn
  BY <1>2, <1>3 DEF Ordered, Sound, States, Workers
<1>5. Staged'
  BY <1>1, <1>4 DEF Staged
<1>6. WorkerInv'
  BY <1>3, <1>5 DEF WorkerInv, Ordered, Sound
<1> QED BY <1>1, <1>2, <1>4, <1>6

LEMMA DrainsSome ==
  ASSUME NEW n \in Nat
  PROVE  ReusedAtOnce(n) \in Nat /\ ReusedAtOnce(n) > 0
<1>1. CASE n < 16
  BY <1>1 DEF ReusedAtOnce
<1>2. CASE n >= 16 /\ n < 256
  <2>1. n \div 8 \in Nat /\ n \div 8 > 0
    BY <1>2
  <2> QED BY <1>2, <2>1 DEF ReusedAtOnce
<1>3. CASE n >= 256
  BY <1>3 DEF ReusedAtOnce
<1> QED BY <1>1, <1>2, <1>3

\* One passage of the loop of ngx_event_accept.
LEMMA AcceptStep ==
  ASSUME WorkerInv, Accept
  PROVE  /\ WorkerInv'
         /\ \A k \in Slots : w'.conn[k] # w.conn[k] => w.conn[k].phase = "closed"
         /\ w'.stage = "batch" => Busy = Slots
<1>1. /\ backlog > 0 /\ backlog' = backlog - 1 /\ UNCHANGED <<signals, left>> /\ left' = left
      /\ IF Shortage
           THEN Goto([Found EXCEPT !.w.drain = ReusedAtOnce(Len(w.reusable))], "drain")
           ELSE Seat(Found)
  BY DEF Accept
<1>2. Ordered(Found) /\ RestTypes /\ Staged /\ Found.w = w /\ Found.sock = sock
  BY NowOrdered DEF Found
<1>3. RestTypes'
  <2>1. backlog \in Nat /\ left \in [clients : Nat, pieces : Nat, reads : Nat, closes : Nat]
        /\ backlog + left.clients <= MaxClients /\ MaxClients \in Nat
    BY <1>2, WorkerAssumption DEF RestTypes
  <2>2. backlog' \in Nat /\ backlog' + left.clients <= MaxClients
    BY <1>1, <2>1
  <2> QED BY <1>1, <1>2, <2>2 DEF RestTypes
<1>4. w \in Workers /\ w.reusable \in Seq(Slots) /\ w.free \in Seq(Slots)
  BY <1>2 DEF Ordered, Sound, States, Workers
<1>5. CASE Shortage
  <2> DEFINE n == ReusedAtOnce(Len(w.reusable))
             t == [Found EXCEPT !.w.drain = n]
  <2>1. n \in Nat /\ n > 0 /\ w.reusable # <<>>
    <3>1. Len(w.reusable) \in Nat
      BY <1>4
    <3> QED BY <1>5, <3>1, DrainsSome DEF Shortage
  <2>2. Goto(t, "drain")
    BY <1>1, <1>5
  <2> HIDE DEF n
  <2>3. /\ t \in States
        /\ t.w.conn = w.conn /\ t.sock = sock /\ t.w.batch = w.batch /\ t.w.free = w.free
        /\ t.w.reusable = w.reusable /\ t.w.posted = w.posted /\ t.w.drain = n
    BY <1>2, <2>1 DEF Ordered, Sound, States, Workers
  <2> HIDE DEF t
  <2>4. Ordered(t)
    BY <1>2, <2>3, StandsElsewhere
  <2>5. Ordered(Found)' /\ w' = [t.w EXCEPT !.stage = "drain"]
    BY <1>1, <2>2, <2>4, GotoKeeps DEF Stages
  <2>6. /\ w'.stage = "drain" /\ w'.conn = w.conn /\ w'.drain = n
        /\ w'.reusable = w.reusable
    BY <2>3, <2>5 DEF States, Workers
  <2>7. Staged'
    BY <2>1, <2>6 DEF Staged
  <2>8. WorkerInv'
    BY <1>3, <2>5, <2>7 DEF WorkerInv, Ordered, Sound
  <2> QED BY <2>6, <2>8
<1>6. CASE ~Shortage
  <2>1. /\ WorkerInv'
        /\ \A k \in Slots : w'.conn[k] # w.conn[k] => w.conn[k].phase = "closed"
        /\ w'.stage = "batch" => w.free = <<>>
    BY <1>1, <1>2, <1>3, <1>6, SeatKeeps
  <2>2. ASSUME w.free = <<>>, NEW k \in Slots PROVE k \in Busy
    <3>1. w.reusable = <<>>
      <4>1. Len(w.free) = 0
        BY <2>2
      <4>2. 0 <= ConnectionN \div 16
        BY WorkerAssumption
      <4> QED BY <1>6, <4>1, <4>2 DEF Shortage
    <3>2. ToSet(w.free) = {} /\ ToSet(w.reusable) = {}
      BY <2>2, <3>1 DEF ToSet
    <3>3. InOrder(Found, k) /\ w.conn[k] \in Connection
      BY <1>2, <1>4 DEF Ordered, Workers
    <3>4. w.conn[k].phase # "closed" /\ w.conn[k].phase \notin IdlePhases
      BY <1>2, <3>2, <3>3 DEF InOrder, Free, Queued
    <3> QED BY <3>3, <3>4 DEF Busy, Connection, Phases, IdlePhases
  <2> QED BY <2>1, <2>2 DEF Busy
<1> QED BY <1>5, <1>6

\* One connection that waits gives way, and in the end the new one is seated.
LEMMA DrainStep ==
  ASSUME WorkerInv, Drain
  PROVE  /\ WorkerInv'
         /\ \A k \in Slots : w'.conn[k] # w.conn[k] => w.conn[k].phase \in IdlePhases \union {"closed"}
         /\ w'.stage # "batch"
<1> DEFINE k == Last(w.reusable)
           c == Closed(Found, k)
           s == [c EXCEPT !.w.drain = @ - 1]
<1>1. /\ w.stage = "drain" /\ UNCHANGED <<backlog, signals, left>> /\ left' = left
      /\ IF s.w.drain > 0 /\ s.w.reusable # <<>> THEN Goto(s, "drain") ELSE Seat(s)
  BY DEF Drain
<1>2. Ordered(Found) /\ RestTypes /\ Staged /\ Found.w = w /\ Found.sock = sock
  BY NowOrdered DEF Found
<1>3. RestTypes'
  BY <1>1, <1>2 DEF RestTypes
<1>4. w.drain \in Nat /\ w.drain > 0 /\ w.reusable \in Seq(Slots) /\ w.reusable # <<>>
  BY <1>1, <1>2 DEF Staged, Ordered, Sound, States, Workers
<1>5. k \in Slots /\ k \in ToSet(w.reusable)
  BY <1>4, LastIsIn
<1> HIDE DEF k, s, c
<1>6. Sound(Found) /\ InOrder(Found, k) /\ BatchOK(Found)
  BY <1>2, <1>5 DEF Ordered
<1>7. w.conn[k].phase \in IdlePhases /\ ~Free(Found, k) /\ Fits(Found, k)
  BY <1>2, <1>5, <1>6 DEF InOrder, Queued, IdlePhases
<1>8. Done(Found, c, k) /\ Free(c, k) /\ ~Awaits(c, k)
  <2>1. Done(Found, c, k)
    BY <1>2, <1>5, <1>6, <1>7, ClosedDone DEF c
  <2>2. Free(c, k) /\ ~Awaits(c, k)
    BY <1>5, <1>6, <1>7, ClosedSlot DEF c
  <2> QED BY <2>1, <2>2
<1>9. Ordered(c)
  BY <1>2, <1>5, <1>8, HandlerKeeps DEF Ordered
<1>10. c.w.drain = w.drain /\ \A j \in Slots : j # k => c.w.conn[j] = w.conn[j]
  BY <1>2, <1>8 DEF Done, Same
<1>11. /\ s \in States
       /\ s.w.conn = c.w.conn /\ s.sock = c.sock /\ s.w.batch = c.w.batch /\ s.w.free = c.w.free
       /\ s.w.reusable = c.w.reusable /\ s.w.posted = c.w.posted /\ s.w.drain = w.drain - 1
  <2>1. w.drain - 1 \in Nat
    BY <1>4
  <2>2. s = [c EXCEPT !.w.drain = w.drain - 1]
    BY <1>10 DEF s
  <2> QED BY <1>9, <2>1, <2>2 DEF Ordered, Sound, States, Workers
<1>12. Ordered(s)
  BY <1>9, <1>11, StandsElsewhere
<1>13. s.w.free # <<>>
  BY <1>8, <1>11 DEF Free, ToSet
<1>14. CASE s.w.drain > 0 /\ s.w.reusable # <<>>
  <2>1. Goto(s, "drain")
    BY <1>1, <1>14
  <2>2. Ordered(Found)' /\ w' = [s.w EXCEPT !.stage = "drain"]
    BY <1>1, <1>12, <2>1, GotoKeeps DEF Stages
  <2>3. /\ w'.stage = "drain" /\ w'.conn = s.w.conn /\ w'.drain = s.w.drain
        /\ w'.reusable = s.w.reusable
    BY <1>11, <2>2 DEF States, Workers
  <2>4. Staged'
    BY <1>14, <2>3 DEF Staged
  <2>5. WorkerInv'
    BY <1>3, <2>2, <2>4 DEF WorkerInv, Ordered, Sound
  <2> QED BY <1>7, <1>10, <1>11, <2>3, <2>5
<1>15. CASE ~(s.w.drain > 0 /\ s.w.reusable # <<>>)
  <2>1. /\ WorkerInv'
        /\ \A j \in Slots : w'.conn[j] # s.w.conn[j] => s.w.conn[j].phase = "closed"
        /\ w'.stage = "batch" => s.w.free = <<>>
    BY <1>1, <1>2, <1>3, <1>12, <1>15, SeatKeeps
  <2> QED BY <1>7, <1>10, <1>11, <1>13, <2>1
<1> QED BY <1>14, <1>15

LEMMA AcceptDoneStep ==
  ASSUME WorkerInv, AcceptDone
  PROVE  WorkerInv' /\ w'.conn = w.conn
<1>1. Goto(Found, "batch") /\ UNCHANGED <<backlog, signals, left>>
  BY DEF AcceptDone
<1>2. Ordered(Found) /\ RestTypes /\ Found.w = w
  BY NowOrdered DEF Found
<1> QED BY <1>1, <1>2, OnTheWay

-----------------------------------------------------------------------------
(* epoll_wait.                                                             *)

\* A sequence of all of a finite set.
LEMMA InAnyOrder ==
  ASSUME NEW S, IsFiniteSet(S), NEW q \in SetToSeqs(S)
  PROVE  q \in Seq(S) /\ IsInjective(q) /\ ToSet(q) = S
<1> DEFINE D == 1 .. Cardinality(S)
<1>1. q \in [D -> S] /\ \A i, j \in D : i # j => q[i] # q[j]
  BY DEF SetToSeqs
<1>2. Cardinality(S) \in Nat
  BY FS_CardinalityType
<1>3. q \in Injection(D, S)
  BY <1>1 DEF Injection, IsInjective
<1>4. Cardinality(D) = Cardinality(S)
  BY <1>2, FS_Interval
<1>5. q \in Surjection(D, S)
  BY <1>3, <1>4, FS_Injection
<1>6. ToSet(q) = S
  BY <1>1, <1>5 DEF Surjection, ToSet
<1>7. q \in Seq(S)
  BY <1>1, <1>2
<1> QED BY <1>3, <1>6, <1>7 DEF Injection

\* What is reported is one event for each slot, and one for the listening sockets.
LEMMA ReportedFacts ==
  ASSUME WorkerInv
  PROVE  /\ Reported \in SUBSET Event /\ IsFiniteSet(Reported)
         /\ \A e, f \in Reported : e.slot = f.slot => e = f
         /\ \A e \in Reported : e.slot \in Slots => sock[e.slot].edge
         /\ \A k \in Slots : sock[k].edge =>
              \E e \in Reported : /\ e.slot = k /\ e.instance = w.conn[k].instance
                                  /\ e.in <=> (sock[k].unread > 0 \/ sock[k].fin)
                                  /\ e.hup <=> sock[k].fin
<1> DEFINE Of(k) == [slot |-> k, instance |-> w.conn[k].instance,
                     in |-> sock[k].unread > 0 \/ sock[k].fin, hup |-> sock[k].fin,
                     out |-> w.conn[k].watched /\ sock[k].room]
           new == [slot |-> Listening, instance |-> FALSE, in |-> TRUE, hup |-> FALSE, out |-> FALSE]
<1>1. w.conn \in [Slots -> Connection] /\ sock \in [Slots -> Socket]
  BY DEF WorkerInv, Found, States, Workers
<1>2. ASSUME NEW k \in Slots PROVE Of(k) \in Event /\ Of(k).slot = k
  <2>1. w.conn[k] \in Connection /\ sock[k] \in Socket
    BY <1>1
  <2>2. /\ w.conn[k].instance \in BOOLEAN /\ w.conn[k].watched \in BOOLEAN
        /\ sock[k].fin \in BOOLEAN /\ sock[k].room \in BOOLEAN
    BY <2>1 DEF Connection, Socket
  <2> QED BY <2>2 DEF Event
<1>3. new \in Event /\ new.slot = Listening /\ Listening \notin Slots /\ Listening = 0
  BY DEF Event, Listening, Slots
<1>4. \A e \in Reported : (\E k \in Slots : sock[k].edge /\ e = Of(k)) \/ e = new
  BY DEF Reported
<1>5. \A k \in Slots : sock[k].edge => Of(k) \in Reported
  BY DEF Reported
<1>6. ASSUME NEW k \in Slots
      PROVE  /\ Of(k).instance = w.conn[k].instance
             /\ Of(k).in <=> (sock[k].unread > 0 \/ sock[k].fin)
             /\ Of(k).hup <=> sock[k].fin
  OBVIOUS
<1> HIDE DEF Of, new, Reported
<1>7. Reported \in SUBSET Event
  BY <1>2, <1>3, <1>4
<1>8. \A e, f \in Reported : e.slot = f.slot => e = f
  BY <1>2, <1>3, <1>4
<1>9. \A e \in Reported : e.slot \in Slots => sock[e.slot].edge
  BY <1>2, <1>3, <1>4
<1>10. IsFiniteSet(Reported)
  <2> DEFINE g == [e \in Reported |-> e.slot]
  <2>1. \A e \in Reported : e.slot \in 0 .. ConnectionN
    BY <1>2, <1>3, <1>4, WorkerAssumption DEF Slots
  <2>2. g \in [Reported -> 0 .. ConnectionN]
    BY <2>1
  <2>3. g \in Injection(Reported, 0 .. ConnectionN)
    BY <1>8, <2>2 DEF Injection, IsInjective
  <2>4. IsFiniteSet(0 .. ConnectionN)
    BY FS_Interval, WorkerAssumption
  <2> HIDE DEF g
  <2> QED BY <2>3, <2>4, FS_Injection
<1> QED BY <1>2, <1>5, <1>6, <1>7, <1>8, <1>9, <1>10

\* What epoll has to tell is in the batch.
LEMMA WaitStep ==
  ASSUME WorkerInv, Wait
  PROVE  WorkerInv' /\ w'.conn = w.conn
<1>1. w.stage = "top" /\ UNCHANGED <<backlog, signals, left>>
  BY DEF Wait
<1> DEFINE dull == [k \in Slots |-> [sock[k] EXCEPT !.edge = FALSE]]
<1>2. PICK q \in SetToSeqs(Reported) : Goto([w |-> [w EXCEPT !.batch = q], sock |-> dull], "batch")
  BY DEF Wait
<1> DEFINE t == [w |-> [w EXCEPT !.batch = q], sock |-> dull]
<1>3. Ordered(Found) /\ RestTypes /\ Staged /\ Found.w = w /\ Found.sock = sock
  BY NowOrdered DEF Found
<1>4. w.batch = <<>> /\ w.posted = <<>>
  BY <1>1, <1>3 DEF Staged
<1>5. q \in Seq(Event) /\ IsInjective(q) /\ ToSet(q) = Reported
  <2>1. q \in Seq(Reported) /\ IsInjective(q) /\ ToSet(q) = Reported /\ Reported \in SUBSET Event
    BY InAnyOrder, ReportedFacts
  <2> QED BY <2>1
<1>6. w \in Workers /\ sock \in [Slots -> Socket]
  BY <1>3 DEF Ordered, Sound, States
<1>7. dull \in [Slots -> Socket]
  BY <1>6 DEF Socket
<1>8. ASSUME NEW k \in Slots
      PROVE  /\ dull[k] = [sock[k] EXCEPT !.edge = FALSE]
             /\ dull[k].unread = sock[k].unread /\ dull[k].fin = sock[k].fin
             /\ sock[k] = Quiet => dull[k] = Quiet
  <2>1. dull[k] = [sock[k] EXCEPT !.edge = FALSE] /\ sock[k] \in Socket
    BY <1>6
  <2>2. ASSUME NEW o \in Socket, NEW d, d = [o EXCEPT !.edge = FALSE]
        PROVE  d.unread = o.unread /\ d.fin = o.fin
    BY <2>2 DEF Socket
  <2>3. ASSUME NEW o \in Socket, NEW d, d = [o EXCEPT !.edge = FALSE], o.edge = FALSE
        PROVE  d = o
    BY <2>3 DEF Socket
  <2>4. Quiet.edge = FALSE
    BY DEF Quiet
  <2> HIDE DEF dull
  <2> QED BY <2>1, <2>2, <2>3, <2>4
<1> HIDE DEF dull
<1>9. /\ t \in States /\ t.w.conn = w.conn /\ t.sock = dull /\ t.w.batch = q
      /\ t.w.free = w.free /\ t.w.reusable = w.reusable /\ t.w.posted = w.posted
  BY <1>5, <1>6, <1>7 DEF States, Workers
<1>10. Goto(t, "batch")
  BY <1>2
<1> HIDE DEF t
<1>11. Sound(t)
  BY <1>3, <1>9 DEF Ordered, Sound, Once
<1>12. \A k : SamePlace(Found, t, k) /\ ~Awaits(t, k) /\ ~Awaits(Found, k)
  BY <1>3, <1>4, <1>9 DEF SamePlace, Free, Queued, Awaits, ToSet
<1>13. ASSUME NEW k \in Slots PROVE InOrder(t, k)
  <2>1. InOrder(Found, k)
    BY <1>3 DEF Ordered
  <2>2. t.w.conn[k] = Found.w.conn[k] /\ t.sock[k] = dull[k] /\ SamePlace(Found, t, k)
    BY <1>3, <1>9, <1>12
  <2>3. Fits(t, k)
    BY <1>3, <1>8, <2>1, <2>2 DEF InOrder, Fits
  <2> QED BY <1>3, <1>8, <2>1, <2>2, <2>3 DEF InOrder, SamePlace
<1>14. ASSUME NEW k \in Slots PROVE Known(t, k)
  <2>1. Known(Found, k) /\ ~ToRead(Found, k) /\ ~ToEnd(Found, k)
    BY <1>3, <1>4 DEF Ordered, ToRead, ToEnd
  <2>2. CASE ~sock[k].edge
    BY <1>3, <1>8, <1>9, <1>12, <2>1, <2>2 DEF Known
  <2>3. CASE sock[k].edge
    <3>1. PICK e \in Reported : /\ e.slot = k /\ e.instance = w.conn[k].instance
                                /\ e.in <=> (sock[k].unread > 0 \/ sock[k].fin)
                                /\ e.hup <=> sock[k].fin
      BY <2>3, ReportedFacts
    <3>2. PICK i \in DOMAIN q : q[i] = e
      BY <1>5 DEF ToSet
    <3>3. (sock[k].unread > 0 \/ sock[k].fin) => ToRead(t, k)
      BY <1>9, <3>1, <3>2 DEF ToRead
    <3>4. sock[k].fin => ToEnd(t, k)
      BY <1>9, <3>1, <3>2 DEF ToEnd
    <3> QED BY <1>8, <1>9, <3>3, <3>4 DEF Known
  <2> QED BY <2>2, <2>3
<1>15. BatchOK(t)
  <2>1. ASSUME NEW i \in DOMAIN q, NEW j \in DOMAIN q, q[i].slot = q[j].slot PROVE i = j
    <3>1. q[i] \in Reported /\ q[j] \in Reported
      BY <1>5 DEF ToSet
    <3>2. q[i] = q[j]
      BY <2>1, <3>1, ReportedFacts
    <3> QED BY <1>5, <3>2 DEF IsInjective
  <2> QED BY <1>9, <1>12, <2>1 DEF BatchOK
<1>16. Ordered(t)
  BY <1>11, <1>13, <1>14, <1>15 DEF Ordered
<1> QED BY <1>1, <1>3, <1>9, <1>10, <1>16, OnTheWay

-----------------------------------------------------------------------------
(* The clients and the master.                                             *)

\* Something happens at an open socket, and epoll notes it.
LEMMA SocketChanges ==
  ASSUME WorkerInv, w' = w, w.stage # "gone", NEW k \in Slots, Open(Found, k),
         NEW o \in Socket, o.edge, sock' = [sock EXCEPT ![k] = o],
         RestTypes', left'.pieces <= left.pieces,
         o.unread + left'.pieces <= sock[k].unread + left.pieces
  PROVE  WorkerInv'
<1>1. Ordered(Found) /\ RestTypes /\ Staged /\ Found.w = w /\ Found.sock = sock
  BY NowOrdered DEF Found
<1>2. w \in Workers /\ sock \in [Slots -> Socket]
  BY <1>1 DEF Ordered, Sound, States
<1>3. Found'.w = w /\ Found'.sock = sock' /\ sock' \in [Slots -> Socket]
  BY <1>2 DEF Found
<1>4. Sound(Found)'
  <2>1. Found' \in States
    BY <1>2, <1>3 DEF States, Found
  <2> QED BY <1>1, <1>3, <2>1 DEF Ordered, Sound, Once, States, Workers
<1>5. ASSUME NEW j \in Slots PROVE InOrder(Found, j)' /\ Known(Found, j)'
  <2>1. InOrder(Found, j) /\ Known(Found, j)
    BY <1>1 DEF Ordered
  <2>2. w.conn[j].buffered \in Nat /\ sock[j].unread \in Nat /\ sock'[j].unread \in Nat
        /\ left.pieces \in Nat /\ left'.pieces \in Nat
    <3>1. w.conn[j] \in Connection /\ sock[j] \in Socket /\ sock'[j] \in Socket
      BY <1>2, <1>3 DEF Workers
    <3> QED BY <3>1, <1>1, WorkerAssumption DEF Connection, Socket, RestTypes
  <2>3. sock'[j].unread + left'.pieces <= sock[j].unread + left.pieces
    <3>1. CASE j = k
      BY <1>2, <3>1
    <3>2. CASE j # k
      <4>1. sock'[j] = sock[j]
        BY <1>2, <3>2
      <4> QED BY <2>2, <4>1
    <3> QED BY <3>1, <3>2
  <2>4. Fits(Found, j)'
    <3>1. w.conn[j].buffered + sock[j].unread + left.pieces <= MaxPieces
      BY <1>1, <2>1 DEF InOrder, Fits
    <3>2. w.conn[j].buffered + sock'[j].unread + left'.pieces <= MaxPieces
      BY <2>2, <2>3, <3>1, WorkerAssumption
    <3> QED BY <1>3, <3>2 DEF Fits
  <2>5. sock'[j] = IF j = k THEN o ELSE sock[j]
    BY <1>2
  <2>6. InOrder(Found, j)'
    BY <1>1, <1>3, <2>1, <2>4, <2>5 DEF InOrder, Free, Queued, Awaits, Open
  <2>7. Known(Found, j)'
    BY <1>1, <1>3, <2>1, <2>5 DEF Known, ToRead, ToEnd, Awaits
  <2> QED BY <2>6, <2>7
<1>6. BatchOK(Found)'
  BY <1>1, <1>3 DEF Ordered, BatchOK, Awaits
<1>7. Staged'
  BY <1>1 DEF Staged
<1> QED BY <1>4, <1>5, <1>6, <1>7 DEF WorkerInv, Sound

LEMMA SendPieceStep ==
  ASSUME WorkerInv, NEW k \in Slots, SendPiece(k)
  PROVE  WorkerInv'
<1> DEFINE o == [sock[k] EXCEPT !.unread = sock[k].unread + 1, !.edge = TRUE]
<1>1. /\ w.stage # "gone" /\ Open(Found, k) /\ left.pieces > 0 /\ UNCHANGED <<w, backlog, signals>>
      /\ sock' = [sock EXCEPT ![k].unread = sock[k].unread + 1, ![k].edge = TRUE]
      /\ left' = [left EXCEPT !.pieces = @ - 1]
  BY DEF SendPiece
<1>2. Ordered(Found) /\ RestTypes /\ Found.w = w /\ Found.sock = sock
  BY NowOrdered DEF Found
<1>3. w.conn[k] \in Connection /\ sock[k] \in Socket /\ Fits(Found, k) /\ sock \in [Slots -> Socket]
  BY <1>2 DEF Ordered, Sound, States, Workers, InOrder
<1>4. left \in [clients : Nat, pieces : Nat, reads : Nat, closes : Nat]
  BY <1>2 DEF RestTypes
<1>5. left.pieces \in Nat /\ left'.pieces = left.pieces - 1 /\ left'.clients = left.clients
      /\ left' \in [clients : Nat, pieces : Nat, reads : Nat, closes : Nat]
  BY <1>1, <1>4
<1>6. sock[k].unread + 1 \in 0 .. MaxPieces
  <2>1. w.conn[k].buffered \in Nat /\ sock[k].unread \in Nat
    BY <1>3, WorkerAssumption DEF Connection, Socket
  <2>2. w.conn[k].buffered + sock[k].unread + left.pieces <= MaxPieces
    BY <1>2, <1>3 DEF Fits
  <2> QED BY <1>1, <1>5, <2>1, <2>2, WorkerAssumption
<1>7. o \in Socket /\ o.edge /\ o.unread = sock[k].unread + 1
  BY <1>3, <1>6 DEF Socket
<1>8. sock' = [sock EXCEPT ![k] = o]
  BY <1>1, <1>3
<1> HIDE DEF o
<1>9. RestTypes'
  BY <1>1, <1>2, <1>5 DEF RestTypes
<1>10. o.unread + left'.pieces <= sock[k].unread + left.pieces /\ left'.pieces <= left.pieces
  BY <1>5, <1>6, <1>7, <1>3, WorkerAssumption DEF Socket
<1> QED BY <1>1, <1>7, <1>8, <1>9, <1>10, SocketChanges

LEMMA CloseEndStep ==
  ASSUME WorkerInv, NEW k \in Slots, CloseEnd(k)
  PROVE  WorkerInv'
<1> DEFINE o == [sock[k] EXCEPT !.fin = TRUE, !.edge = TRUE]
<1>1. /\ w.stage # "gone" /\ Open(Found, k) /\ left.closes > 0 /\ UNCHANGED <<w, backlog, signals>>
      /\ sock' = [sock EXCEPT ![k].fin = TRUE, ![k].edge = TRUE]
      /\ left' = [left EXCEPT !.closes = @ - 1]
  BY DEF CloseEnd
<1>2. Ordered(Found) /\ RestTypes /\ Found.w = w /\ Found.sock = sock
  BY NowOrdered DEF Found
<1>3. sock[k] \in Socket /\ sock \in [Slots -> Socket]
  BY <1>2 DEF Ordered, Sound, States
<1>4. left \in [clients : Nat, pieces : Nat, reads : Nat, closes : Nat]
  BY <1>2 DEF RestTypes
<1>5. left.pieces \in Nat /\ left'.pieces = left.pieces /\ left'.clients = left.clients
      /\ left' \in [clients : Nat, pieces : Nat, reads : Nat, closes : Nat]
  BY <1>1, <1>4
<1>7. o \in Socket /\ o.edge /\ o.unread = sock[k].unread /\ sock[k].unread \in Nat
  <2>1. sock[k].unread \in Nat
    BY <1>3, WorkerAssumption DEF Socket
  <2>2. o \in Socket
    BY <1>3 DEF Socket
  <2>3. o.edge = TRUE /\ o.unread = sock[k].unread
    BY <1>3 DEF Socket
  <2> QED BY <2>1, <2>2, <2>3
<1>8. sock' = [sock EXCEPT ![k] = o]
  BY <1>1, <1>3
<1> HIDE DEF o
<1>9. RestTypes'
  BY <1>1, <1>2, <1>5 DEF RestTypes
<1>10. o.unread + left'.pieces <= sock[k].unread + left.pieces /\ left'.pieces <= left.pieces
  BY <1>5, <1>7
<1> QED BY <1>1, <1>7, <1>8, <1>9, <1>10, SocketChanges

LEMMA ReadMoreStep ==
  ASSUME WorkerInv, NEW k \in Slots, ReadMore(k)
  PROVE  WorkerInv'
<1> DEFINE o == [sock[k] EXCEPT !.room = TRUE, !.edge = TRUE]
<1>1. /\ w.stage # "gone" /\ ~sock[k].room /\ left.reads > 0 /\ UNCHANGED <<w, backlog, signals>>
      /\ sock' = [sock EXCEPT ![k].room = TRUE, ![k].edge = TRUE]
      /\ left' = [left EXCEPT !.reads = @ - 1]
  BY DEF ReadMore
<1>2. Ordered(Found) /\ RestTypes /\ Found.w = w /\ Found.sock = sock
  BY NowOrdered DEF Found
<1>3. sock[k] \in Socket /\ sock \in [Slots -> Socket]
  BY <1>2 DEF Ordered, Sound, States
<1>4. left \in [clients : Nat, pieces : Nat, reads : Nat, closes : Nat]
  BY <1>2 DEF RestTypes
<1>5. left.pieces \in Nat /\ left'.pieces = left.pieces /\ left'.clients = left.clients
      /\ left' \in [clients : Nat, pieces : Nat, reads : Nat, closes : Nat]
  BY <1>1, <1>4
<1>6. Open(Found, k)
  <2>1. sock[k] # Quiet
    <3>1. Quiet.room = TRUE
      BY DEF Quiet
    <3> QED BY <1>1, <3>1
  <2> QED BY <1>2, <2>1 DEF Ordered, InOrder, Open
<1>7. o \in Socket /\ o.edge /\ o.unread = sock[k].unread /\ sock[k].unread \in Nat
  <2>1. sock[k].unread \in Nat
    BY <1>3, WorkerAssumption DEF Socket
  <2>2. o \in Socket
    BY <1>3 DEF Socket
  <2>3. o.edge = TRUE /\ o.unread = sock[k].unread
    BY <1>3 DEF Socket
  <2> QED BY <2>1, <2>2, <2>3
<1>8. sock' = [sock EXCEPT ![k] = o]
  BY <1>1, <1>3
<1> HIDE DEF o
<1>9. RestTypes'
  BY <1>1, <1>2, <1>5 DEF RestTypes
<1>10. o.unread + left'.pieces <= sock[k].unread + left.pieces /\ left'.pieces <= left.pieces
  BY <1>5, <1>7
<1> QED BY <1>1, <1>6, <1>7, <1>8, <1>9, <1>10, SocketChanges

\* What the master says, and who wants to connect, changes no connection.
LEMMA TakesNote ==
  ASSUME WorkerInv, w' = w, sock' = sock, left'.pieces = left.pieces, RestTypes',
         w.stage # "gone"
  PROVE  WorkerInv'
<1>1. Ordered(Found) /\ Staged
  BY NowOrdered
<1>2. Found' = Found
  BY DEF Found
<1>3. Sound(Found)' /\ BatchOK(Found)'
  BY <1>1, <1>2 DEF Ordered, Sound, Once, States, Workers, BatchOK, Awaits
<1>4. ASSUME NEW j \in Slots PROVE InOrder(Found, j)' /\ Known(Found, j)'
  <2>1. InOrder(Found, j) /\ Known(Found, j)
    BY <1>1 DEF Ordered
  <2> QED BY <1>2, <2>1 DEF InOrder, Known, Free, Queued, Awaits, Fits, ToRead, ToEnd
<1>5. Staged'
  BY <1>1 DEF Staged
<1> QED BY <1>3, <1>4, <1>5 DEF WorkerInv, Sound

LEMMA ToldStep ==
  ASSUME WorkerInv, NEW sig \in {"QUIT", "TERM"}, Told(sig)
  PROVE  WorkerInv'
<1>1. w.stage # "gone" /\ signals' = signals \union {sig} /\ UNCHANGED <<w, sock, backlog, left>>
  BY DEF Told
<1>2. RestTypes'
  BY <1>1 DEF WorkerInv, RestTypes
<1> QED BY <1>1, <1>2, TakesNote

LEMMA ConnectStep ==
  ASSUME WorkerInv, Connect
  PROVE  WorkerInv'
<1>1. /\ w.stage # "gone" /\ left.clients > 0 /\ backlog' = backlog + 1
      /\ left' = [left EXCEPT !.clients = @ - 1] /\ UNCHANGED <<w, sock, signals>>
  BY DEF Connect
<1>2. /\ left \in [clients : Nat, pieces : Nat, reads : Nat, closes : Nat]
      /\ backlog \in Nat /\ backlog + left.clients <= MaxClients /\ RestTypes
  BY DEF WorkerInv, RestTypes
<1>3. /\ left' \in [clients : Nat, pieces : Nat, reads : Nat, closes : Nat]
      /\ left'.pieces = left.pieces /\ left'.clients = left.clients - 1 /\ left.clients \in Nat
  BY <1>1, <1>2
<1>4. RestTypes'
  <2>1. backlog' \in Nat /\ backlog' + left'.clients <= MaxClients
    BY <1>1, <1>2, <1>3, WorkerAssumption
  <2> QED BY <1>1, <1>2, <1>3, <2>1 DEF RestTypes
<1> QED BY <1>1, <1>3, <1>4, TakesNote

-----------------------------------------------------------------------------
(* All steps.                                                              *)

LEMMA NothingHappens ==
  ASSUME WorkerInv, UNCHANGED vars
  PROVE  WorkerInv'
<1>1. UNCHANGED <<w, sock, backlog, signals, left>>
  BY DEF vars
<1>2. Ordered(Found) /\ RestTypes /\ Staged
  BY NowOrdered
<1>3. Found' = Found
  BY <1>1 DEF Found
<1>4. Sound(Found)' /\ BatchOK(Found)'
  BY <1>2, <1>3 DEF Ordered, Sound, Once, States, Workers, BatchOK, Awaits
<1>5. ASSUME NEW j \in Slots PROVE InOrder(Found, j)' /\ Known(Found, j)'
  <2>1. InOrder(Found, j) /\ Known(Found, j)
    BY <1>2 DEF Ordered
  <2> QED BY <1>1, <1>3, <2>1 DEF InOrder, Known, Free, Queued, Awaits, Fits, ToRead, ToEnd
<1>6. Staged' /\ RestTypes'
  BY <1>1, <1>2, <1>3 DEF Staged, RestTypes, Open
<1> QED BY <1>4, <1>5, <1>6 DEF WorkerInv, Sound

LEMMA StaysInOrder == WorkerInv /\ [Next]_vars => WorkerInv'
<1> SUFFICES ASSUME WorkerInv, [Next]_vars PROVE WorkerInv'
  OBVIOUS
<1>1. CASE Leave BY <1>1, LeaveStep
<1>2. CASE Wait BY <1>2, WaitStep
<1>3. CASE HandleEvent BY <1>3, HandleEventStep
<1>4. CASE Accept BY <1>4, AcceptStep
<1>5. CASE Drain BY <1>5, DrainStep
<1>6. CASE AcceptDone BY <1>6, AcceptDoneStep
<1>7. CASE TimersDone BY <1>7, TimersDoneStep
<1>8. CASE HandlePosted BY <1>8, HandlePostedStep
<1>9. CASE LoopEnds BY <1>9, LoopEndsStep
<1>10. CASE CloseIdle BY <1>10, CloseIdleStep
<1>11. CASE Connect BY <1>11, ConnectStep
<1>12. CASE \E sig \in {"QUIT", "TERM"} : Told(sig) BY <1>12, ToldStep
<1>13. ASSUME NEW k \in Slots, Expire(k) PROVE WorkerInv' BY <1>13, ExpireStep
<1>14. ASSUME NEW k \in Slots, SendPiece(k) PROVE WorkerInv' BY <1>14, SendPieceStep
<1>15. ASSUME NEW k \in Slots, CloseEnd(k) PROVE WorkerInv' BY <1>15, CloseEndStep
<1>16. ASSUME NEW k \in Slots, ReadMore(k) PROVE WorkerInv' BY <1>16, ReadMoreStep
<1>17. CASE UNCHANGED vars BY <1>17, NothingHappens
<1> QED
  BY <1>1, <1>2, <1>3, <1>4, <1>5, <1>6, <1>7, <1>8, <1>9, <1>10, <1>11, <1>12, <1>13,
     <1>14, <1>15, <1>16, <1>17 DEF Next, Worker

\* Between any two handlers of a worker: every slot is in its queues, has its timer, and
\* what its client has sent is known (WorkerInv says how).
THEOREM WorkerInvariant == Spec => []WorkerInv
<1>1. Init => WorkerInv
  BY StartsInOrder
<1>2. WorkerInv /\ [Next]_vars => WorkerInv'
  BY StaysInOrder
<1> QED BY <1>1, <1>2, PTL DEF Spec

\* The pool of connections: the free list holds the closed slots, the queue of reusable
\* connections those without a request, each once, and whatever is posted has
\* something to read.
THEOREM PoolStaysConsistent == Spec => []PoolConsistent
<1>1. ASSUME WorkerInv PROVE PoolConsistent
  <2>1. Ordered(Found) /\ RestTypes /\ Found.w = w /\ Found.sock = sock
    BY <1>1, NowOrdered DEF Found
  <2>2. w \in Workers /\ sock \in [Slots -> Socket] /\ Once(Found)
    BY <2>1 DEF Ordered, Sound, States
  <2>3. WorkerTypeOK
    <3>1. backlog \in 0 .. MaxClients
      <4>1. backlog \in Nat /\ left.clients \in Nat /\ backlog + left.clients <= MaxClients
        BY <2>1 DEF RestTypes
      <4> QED BY <4>1, WorkerAssumption
    <3> QED BY <2>1, <2>2, <3>1 DEF WorkerTypeOK, Workers, Stages, RestTypes
  <2>4. /\ w.free \in Seq(Slots) /\ w.reusable \in Seq(Slots) /\ w.posted \in Seq(Slots)
        /\ IsInjective(w.free) /\ IsInjective(w.reusable)
    BY <2>1, <2>2 DEF Workers, Once
  <2>5. ToSet(w.free) \subseteq Slots /\ ToSet(w.reusable) \subseteq Slots /\ ToSet(w.posted) \subseteq Slots
    BY <2>4 DEF ToSet
  <2>6. \A k \in Slots : InOrder(Found, k)
    BY <2>1 DEF Ordered
  <2>7. ToSet(w.free) = {k \in Slots : ~Open(Found, k)}
    BY <2>1, <2>5, <2>6 DEF InOrder, Free, Open
  <2>8. ToSet(w.reusable) = Idle
    BY <2>1, <2>5, <2>6 DEF InOrder, Queued, Idle, IdlePhases
  <2>9. \A k \in ToSet(w.posted) : w.conn[k].buffered > 0 \/ w.conn[k].ready
    BY <2>1, <2>5, <2>6 DEF InOrder, Awaits
  <2> QED BY <2>3, <2>4, <2>7, <2>8, <2>9 DEF PoolConsistent
<1> QED BY <1>1, WorkerInvariant, PTL

\* Whoever waits in epoll_wait has a timer, and a worker that leaves gracefully leaves no
\* socket open.
THEOREM NothingStaysOpen == Spec => []NothingLeftOpen
<1>1. ASSUME WorkerInv PROVE NothingLeftOpen
  <2>1. Ordered(Found) /\ Staged /\ Found.w = w
    BY <1>1, NowOrdered DEF Found
  <2>2. ASSUME w.stage = "top", NEW k \in Slots, Open(Found, k) PROVE w.conn[k].timer
    <3>1. w.posted = <<>>
      BY <2>1, <2>2 DEF Staged
    <3>2. ~Awaits(Found, k)
      BY <2>1, <3>1 DEF Awaits, ToSet
    <3> QED BY <2>1, <2>2, <3>2 DEF Ordered, InOrder, Open
  <2> QED BY <2>1, <2>2 DEF NothingLeftOpen, Staged
<1> QED BY <1>1, WorkerInvariant, PTL

\* What a client has sent before the worker waits again is reported, or remembered for
\* what reads next.
THEOREM NoEventIsLost == Spec => []NoLostEvent
<1>1. ASSUME WorkerInv PROVE NoLostEvent
  <2>1. Ordered(Found) /\ Staged /\ Found.w = w /\ Found.sock = sock
    BY <1>1, NowOrdered DEF Found
  <2>2. ASSUME w.stage = "top", NEW k \in Slots, sock[k].unread > 0 \/ sock[k].fin
        PROVE  sock[k].edge \/ (w.conn[k].phase = "writing" /\ w.conn[k].ready)
    <3>1. w.posted = <<>> /\ w.batch = <<>>
      BY <2>1, <2>2 DEF Staged
    <3>2. ~Awaits(Found, k) /\ ~ToRead(Found, k)
      BY <2>1, <3>1 DEF Awaits, ToSet, ToRead
    <3> QED BY <2>1, <2>2, <3>2 DEF Ordered, Known
  <2> QED BY <2>2 DEF NoLostEvent
<1> QED BY <1>1, WorkerInvariant, PTL

\* What a step may do to connections with a request, and to a client that is not seated.
LEMMA KeepsBusy ==
  ASSUME WorkerInv, [Next]_vars
  PROVE  /\ \A k \in Busy : w'.conn[k] # w.conn[k] => OwnTurn(k)
         /\ ((backlog' < backlog \/ w.stage = "drain") /\ w'.stage = "batch") => Busy = Slots
<1> DEFINE Own == \A k \in Busy : w'.conn[k] # w.conn[k] => OwnTurn(k)
           Full == ((backlog' < backlog \/ w.stage = "drain") /\ w'.stage = "batch") => Busy = Slots
<1>1. /\ backlog \in Nat /\ Busy \subseteq Slots
      /\ \A k \in Busy : w.conn[k].phase \notin IdlePhases \union {"closed"}
  BY DEF WorkerInv, RestTypes, Busy, IdlePhases
<1>2. ASSUME w' = w, backlog' >= backlog, backlog' \in Nat PROVE Own /\ Full
  BY <1>1, <1>2
<1>3. ASSUME w'.conn = w.conn, backlog' = backlog, w.stage # "drain" PROVE Own /\ Full
  BY <1>1, <1>3
<1>4. CASE Leave
  BY <1>3, <1>4, LeaveStep DEF Leave
<1>5. CASE Wait
  BY <1>3, <1>5, WaitStep DEF Wait
<1>6. CASE AcceptDone
  BY <1>3, <1>6, AcceptDoneStep DEF AcceptDone
<1>7. CASE TimersDone
  BY <1>3, <1>7, TimersDoneStep DEF TimersDone
<1>8. CASE LoopEnds
  BY <1>3, <1>8, LoopEndsStep DEF LoopEnds
<1>9. CASE HandleEvent
  <2>1. w.stage = "batch" /\ w.batch # <<>> /\ backlog' = backlog
    BY <1>9 DEF HandleEvent
  <2>2. \A k \in Slots : w'.conn[k] # w.conn[k] => Head(w.batch).slot = k
    BY <1>9, HandleEventStep
  <2> QED BY <1>1, <2>1, <2>2 DEF OwnTurn
<1>10. CASE Accept
  <2>1. w.stage = "accept"
    BY <1>10 DEF Accept
  <2>2. /\ \A k \in Slots : w'.conn[k] # w.conn[k] => w.conn[k].phase = "closed"
        /\ w'.stage = "batch" => Busy = Slots
    BY <1>10, AcceptStep
  <2> QED BY <1>1, <2>2
<1>11. CASE Drain
  <2>1. /\ \A k \in Slots : w'.conn[k] # w.conn[k] => w.conn[k].phase \in IdlePhases \union {"closed"}
        /\ w'.stage # "batch"
    BY <1>11, DrainStep
  <2> QED BY <1>1, <2>1
<1>12. CASE HandlePosted
  <2>1. w.stage = "posted" /\ backlog' = backlog
    BY <1>12 DEF HandlePosted
  <2>2. \A k \in Slots : w'.conn[k] # w.conn[k] => k = Head(w.posted)
    BY <1>12, HandlePostedStep
  <2> QED BY <1>1, <2>1, <2>2 DEF OwnTurn
<1>13. CASE CloseIdle
  <2>1. w.stage = "idle" /\ backlog' = backlog
    BY <1>13 DEF CloseIdle
  <2>2. \A k \in Slots : w'.conn[k] # w.conn[k] => w.conn[k].phase = "keepalive"
    BY <1>13, CloseIdleStep
  <2> QED BY <1>1, <2>1, <2>2 DEF IdlePhases
<1>14. ASSUME NEW j \in Slots, Expire(j) PROVE Own /\ Full
  <2>1. w.stage = "batch" /\ w.batch = <<>> /\ w.conn[j].timer /\ backlog' = backlog
    BY <1>14 DEF Expire
  <2>2. \A k \in Slots : w'.conn[k] # w.conn[k] => k = j
    BY <1>14, ExpireStep
  <2> QED BY <1>1, <2>1, <2>2 DEF OwnTurn
<1>15. CASE Connect
  BY <1>1, <1>2, <1>15 DEF Connect
<1>16. ASSUME NEW sig \in {"QUIT", "TERM"}, Told(sig) PROVE Own /\ Full
  BY <1>1, <1>2, <1>16 DEF Told
<1>17. ASSUME NEW k \in Slots, SendPiece(k) \/ CloseEnd(k) \/ ReadMore(k) PROVE Own /\ Full
  BY <1>1, <1>2, <1>17 DEF SendPiece, CloseEnd, ReadMore
<1>18. CASE UNCHANGED vars
  BY <1>1, <1>2, <1>18 DEF vars
<1> QED
  BY <1>4, <1>5, <1>6, <1>7, <1>8, <1>9, <1>10, <1>11, <1>12, <1>13, <1>14, <1>15, <1>16,
     <1>17, <1>18 DEF Next, Worker

\* A connection with a request is touched by its own event, timer or posted event only,
\* and a client is turned away only when every slot has a request.
THEOREM BusyStaysKept == Spec => BusyKept
<1> DEFINE A == /\ \A k \in Busy : w'.conn[k] # w.conn[k] => OwnTurn(k)
                /\ ((backlog' < backlog \/ w.stage = "drain") /\ w'.stage = "batch") => Busy = Slots
<1>1. WorkerInv /\ [Next]_vars => [A]_vars
  BY KeepsBusy
<1>2. Spec => [][A]_vars
  BY <1>1, WorkerInvariant, PTL DEF Spec
<1> QED BY <1>2 DEF BusyKept

=============================================================================
