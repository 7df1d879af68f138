--------------------------- MODULE LoggingProofs ----------------------------
(***************************************************************************)
(* Safety of Logging for a ring of any capacity, any number of events, of  *)
(* loggers, of reconfigurations and of rotations.                          *)
(***************************************************************************)
EXTENDS Logging, Integers, SequenceTheorems, TLAPS

(* Next, one disjunct per action. *)
LEMMA NextCases ==
  ASSUME [Next]_vars
  PROVE  \/ \E g \in Loggers : Log(g) \/ Enqueue(g)
         \/ \E id \in IDs : Park(id) \/ Stop(id) \/ Collect(id) \/ Write(id)
         \/ \E pc \in {"configure", "close"} : CallStop(pc) /\ (pc = "configure" => gen < MaxGen)
         \/ ConfigureRest \/ Warn \/ CloseRest
         \/ \E g \in Gens : Rotate(g) \/ Reopen(g) \/ EndWatcher(g)
         \/ UNCHANGED vars
  BY DEF Next, WorkerStep, CallerStep, WatcherStep, Rest, Configure, Close

LEMMA Division ==
  ASSUME NEW a \in Nat, NEW c \in Nat \ {0}
  PROVE  a = c * (a \div c) + (a % c)
BY SMT

LEMMA Remainder ==
  ASSUME NEW a \in Nat, NEW c \in Nat \ {0}
  PROVE  a % c \in 0 .. c - 1 /\ a \div c \in Int
BY SMT

(* Numbers less than c apart are in different slots of a ring of c. *)
LEMMA DifferentSlots ==
  ASSUME NEW c \in Nat \ {0}, NEW a \in Nat, NEW b \in Nat, a < b, b < a + c
  PROVE  a % c # b % c
<1> SUFFICES ASSUME a % c = b % c PROVE FALSE
  OBVIOUS
<1>1. PICK q \in Int, p \in Int, r \in Int : q = a \div c /\ p = b \div c /\ r = a % c
  <2>1. a \div c \in Int /\ b \div c \in Int /\ a % c \in Int
    BY Remainder
  <2> QED BY <2>1
<1>2. a = c * q + r /\ b = c * p + r
  <2>1. a = c * q + r
    BY <1>1, Division
  <2>2. b = c * p + r
    BY <1>1, Division
  <2> QED BY <2>1, <2>2
<1>3. c * (p - q) = c * p - c * q
  OBVIOUS
<1>4. PICK k \in Int : b - a = c * k
  BY <1>2, <1>3
<1>5. CASE k <= 0
  <2>1. c * k <= 0
    BY <1>5
  <2> QED BY <1>4, <2>1
<1>6. CASE k >= 1
  <2>1. c * k >= c
    BY <1>6
  <2> QED BY <1>4, <2>1
<1> QED BY <1>5, <1>6
-----------------------------------------------------------------------------
LEMMA InitInv == Init => LogInv
<1> SUFFICES ASSUME Init PROVE LogInv
  OBVIOUS
<1> USE LoggingAssumption
<1>1. <<1, "console">> \in IDs
  BY DEF IDs, Gens, Sinks
<1>2. <<>> \in Seq(Nat)
  OBVIOUS
<1>3. worker \in [IDs -> Worker] /\ \A id \in IDs : /\ worker[id].pc \in {"none", "wait"}
                                                    /\ worker[id].batch = <<>>
                                                    /\ worker[id].goal = 0 /\ worker[id].next = 0
                                                    /\ worker[id].missed = 0 /\ worker[id].start = 0
                                                    /\ worker[id].taken = 0
  <2>1. PICK w1 : w1 = [pc |-> "wait", next |-> 0, missed |-> 0, batch |-> <<>>, file |-> 0,
                        start |-> 0, taken |-> 0, goal |-> 0]
    OBVIOUS
  <2>2. NoWorker \in Worker /\ w1 \in Worker
    BY <1>2, <2>1 DEF NoWorker, Worker
  <2>3. w1 = [NoWorker EXCEPT !.pc = "wait"]
    BY <2>1 DEF NoWorker
  <2>4. worker = [id \in IDs |-> IF id \in workers THEN w1 ELSE NoWorker]
    BY <2>3 DEF Init
  <2> QED BY <2>1, <2>2, <2>4 DEF NoWorker
<1>4. TypeOK
  <2>1. out \in [Sinks -> Seq(Nat)]
    BY <1>2 DEF Init
  <2>2. workers \subseteq IDs /\ gen \in Gens /\ 0 .. Cap - 1 = 0 .. Cap - 1
    BY <1>1 DEF Init, Gens
  <2>3. config \in [sinks : SUBSET Sinks, rotate : BOOLEAN]
    BY DEF Init, Sinks
  <2>4. caller \in [pc : {"idle", "configure", "warn", "close", "closed"}, wait : SUBSET IDs]
    BY DEF Init
  <2>5. watcher \in [Gens -> {"none", "on", "reopen", "stuck", "ended"}]
        /\ logger \in [Loggers -> {"idle", "enqueue"}]
        /\ buf \in [0 .. Cap - 1 -> Nat \cup {NoEvent}]
    BY DEF Init
  <2> QED BY <1>3, <2>1, <2>2, <2>3, <2>4, <2>5 DEF Init, TypeOK
<1>5. RingInv /\ CallerInv
  BY DEF Init, RingInv, RingHoldsWindow, CallerInv
<1>6. WorkerInv
  <2>1. head = 0 /\ workersDone = FALSE /\ workers \subseteq IDs
    BY <1>1 DEF Init
  <2>2. ASSUME NEW id \in IDs PROVE WorkerOK(worker[id])
    <3>1. worker[id].pc # "write" /\ worker[id].pc # "stopped" /\ worker[id].batch = <<>>
      BY <1>3
    <3>2. worker[id].goal <= head
      BY <1>3, <2>1
    <3> QED BY <3>1, <3>2 DEF WorkerOK
  <2>3. \A id \in workers : worker[id].pc # "stopped"
    BY <1>3, <2>1
  <2> QED BY <2>1, <2>2, <2>3 DEF WorkerInv
<1>7. MissedCountsLosses
  BY <1>3 DEF Init, MissedCountsLosses, Skipped, Overrun
<1> QED BY <1>4, <1>5, <1>6, <1>7 DEF LogInv

(* push: the window moves on, and the new event is found in it. *)
LEMMA PushRing ==
  ASSUME LogInv, Push
  PROVE  /\ RingInv' /\ head' = head + 1
         /\ buf' \in [0 .. Cap - 1 -> Nat \cup {NoEvent}] /\ head' \in Nat /\ tail' \in Nat
         /\ tail' = IF Full THEN tail + 1 ELSE tail
<1> USE LoggingAssumption
<1>1. /\ head \in Nat /\ tail \in Nat /\ tail <= head /\ head - tail <= Cap
      /\ buf \in [0 .. Cap - 1 -> Nat \cup {NoEvent}]
      /\ \A seq \in tail .. head - 1 : buf[seq % Cap] = seq
  BY DEF LogInv, TypeOK, RingInv, RingHoldsWindow
<1>2. head % Cap \in 0 .. Cap - 1
  BY <1>1, Remainder
<1>3. /\ head' = head + 1 /\ tail' = (IF Full THEN tail + 1 ELSE tail)
      /\ buf' = [buf EXCEPT ![head % Cap] = head]
  BY DEF Push
<1>4. tail' \in Nat /\ tail <= tail' /\ tail' <= head /\ head' - tail' <= Cap
  BY <1>1, <1>3 DEF Full
<1>5. \A seq \in tail' .. head' - 1 : buf'[seq % Cap] = seq
  <2> TAKE seq \in tail' .. head' - 1
  <2>1. CASE seq = head
    BY <1>1, <1>2, <1>3, <2>1
  <2>2. CASE seq # head
    <3>1. seq \in Nat /\ seq \in tail .. head - 1 /\ seq < head /\ head < seq + Cap
      BY <1>1, <1>3, <1>4, <2>2
    <3>2. seq % Cap # head % Cap /\ seq % Cap \in 0 .. Cap - 1
      BY <1>1, <3>1, DifferentSlots, Remainder
    <3> QED BY <1>1, <1>2, <1>3, <3>1, <3>2
  <2> QED BY <2>1, <2>2
<1> QED BY <1>1, <1>2, <1>3, <1>4, <1>5 DEF RingInv, RingHoldsWindow

(* What the counters of a worker must cover. *)
Covered(w, listed) ==
  /\ w.missed >= w.next - w.start - w.taken
  /\ listed => w.missed >= w.next - w.start - w.taken + (IF w.next < tail THEN tail - w.next ELSE 0)

LEMMA WorkersFit ==
  ASSUME LogInv, NEW id \in IDs
  PROVE  /\ worker[id] \in Worker /\ WorkerOK(worker[id]) /\ Covered(worker[id], id \in workers)
         /\ id \in workers => worker[id].pc # "stopped"
  BY DEF LogInv, TypeOK, WorkerInv, MissedCountsLosses, Skipped, Overrun, Covered

LEMMA WorkersGood ==
  ASSUME worker' \in [IDs -> Worker], (workersDone => workers = {})', (workers \subseteq IDs)',
         \A id \in IDs : /\ WorkerOK(worker[id])' /\ Covered(worker[id], id \in workers)'
                         /\ (id \in workers => worker[id].pc # "stopped")'
  PROVE  WorkerInv' /\ MissedCountsLosses'
  BY DEF WorkerInv, MissedCountsLosses, Skipped, Overrun, Covered

(* The step of a single worker. *)
LEMMA OneWorker ==
  ASSUME LogInv, NEW id \in IDs, NEW w \in Worker, worker' = [worker EXCEPT ![id] = w],
         UNCHANGED <<head, tail, workers, workersDone>>,
         WorkerOK(w), Covered(w, id \in workers), id \in workers => w.pc # "stopped"
  PROVE  worker' \in [IDs -> Worker] /\ WorkerInv' /\ MissedCountsLosses'
<1>1. worker' \in [IDs -> Worker] /\ worker'[id] = w /\ \A x \in IDs \ {id} : worker'[x] = worker[x]
  BY DEF LogInv, TypeOK
<1>2. (workersDone => workers = {})' /\ (workers \subseteq IDs)'
  BY DEF LogInv, WorkerInv, TypeOK
<1>3. ASSUME NEW x \in IDs
      PROVE  /\ WorkerOK(worker[x])' /\ Covered(worker[x], x \in workers)'
             /\ (x \in workers => worker[x].pc # "stopped")'
  <2>1. CASE x = id
    BY <1>1, <2>1 DEF WorkerOK, Covered
  <2>2. CASE x # id
    BY <1>1, <2>2, WorkersFit DEF WorkerOK, Covered
  <2> QED BY <2>1, <2>2
<1> QED BY <1>1, <1>2, <1>3, WorkersGood

(* push counts the overwritten event for every worker that had not read it. *)
LEMMA PushWorkers ==
  ASSUME LogInv, Push, UNCHANGED <<workers, workersDone>>
  PROVE  worker' \in [IDs -> Worker] /\ WorkerInv' /\ MissedCountsLosses'
<1>0. head \in Nat /\ tail \in Nat /\ head' = head + 1 /\ tail' = IF Full THEN tail + 1 ELSE tail
  BY PushRing DEF LogInv, TypeOK
<1>1. ASSUME NEW id \in IDs
      PROVE  /\ worker'[id] \in Worker
             /\ WorkerOK(worker[id])' /\ Covered(worker[id], id \in workers)'
             /\ (id \in workers => worker[id].pc # "stopped")'
  <2>1. PICK w \in Worker : w = worker[id]
    BY WorkersFit
  <2>2. WorkerOK(w) /\ Covered(w, id \in workers) /\ (id \in workers => w.pc # "stopped")
    BY <2>1, WorkersFit
  <2>3. PICK m \in Nat : m = IF Missing(id) THEN w.missed + 1 ELSE w.missed
    BY DEF Worker
  <2>4. PICK pc \in {"none", "wait", "write", "stopped"} :
          pc = IF w.pc = "parked" THEN "wait" ELSE w.pc
    BY DEF Worker
  <2>5. worker'[id] = [w EXCEPT !.missed = m, !.pc = pc]
    <3>1. worker'[id] = IF Missing(id) THEN Woken([w EXCEPT !.missed = @ + 1]) ELSE Woken(w)
      BY <2>1 DEF Push
    <3>2. CASE Missing(id)
      BY <2>3, <2>4, <3>1, <3>2 DEF Woken, Worker
    <3>3. CASE ~Missing(id)
      BY <2>3, <2>4, <3>1, <3>3 DEF Woken, Worker
    <3> QED BY <3>2, <3>3
  <2>6. PICK new : new = [w EXCEPT !.missed = m, !.pc = pc]
    OBVIOUS
  <2>7. /\ new \in Worker /\ new.missed = m /\ new.pc = pc /\ new.next = w.next /\ new.goal = w.goal
        /\ new.start = w.start /\ new.taken = w.taken /\ new.batch = w.batch
    BY <2>6 DEF Worker
  <2>8. m >= w.missed /\ m \in Nat /\ w.missed \in Nat /\ w.next \in Nat /\ w.start \in Nat
        /\ w.taken \in Nat /\ w.goal \in Nat
    BY <2>3 DEF Worker
  <2>9. WorkerOK(worker[id])'
    <3>1. (new.pc = "write" <=> new.batch # <<>>) /\ new.goal <= head + 1
          /\ (new.pc = "stopped" => new.next >= new.goal)
      BY <1>0, <2>2, <2>4, <2>7, <2>8 DEF WorkerOK
    <3> QED BY <1>0, <2>5, <2>6, <3>1 DEF WorkerOK
  <2>10. m >= w.next - w.start - w.taken
    BY <2>2, <2>8 DEF Covered
  <2>11. id \in workers =>
           m >= w.next - w.start - w.taken + (IF w.next < tail' THEN tail' - w.next ELSE 0)
    <3> SUFFICES ASSUME id \in workers
                 PROVE  m >= w.next - w.start - w.taken + (IF w.next < tail' THEN tail' - w.next ELSE 0)
      OBVIOUS
    <3>1. w.missed >= w.next - w.start - w.taken + (IF w.next < tail THEN tail - w.next ELSE 0)
      BY <2>2 DEF Covered
    <3>2. CASE Full /\ w.next <= tail
      <4>1. m = w.missed + 1
        BY <2>1, <2>3, <3>2 DEF Missing
      <4> QED BY <1>0, <2>8, <3>1, <3>2, <4>1
    <3>3. CASE ~(Full /\ w.next <= tail)
      BY <1>0, <2>8, <3>1, <3>3
    <3> QED BY <3>2, <3>3
  <2>12. Covered(worker[id], id \in workers)'
    BY <2>5, <2>6, <2>7, <2>10, <2>11 DEF Covered
  <2> QED BY <2>2, <2>4, <2>5, <2>6, <2>7, <2>9, <2>12
<1>2. worker' \in [IDs -> Worker]
  BY <1>1 DEF Push
<1>3. (workersDone => workers = {})' /\ (workers \subseteq IDs)'
  BY DEF LogInv, WorkerInv, TypeOK
<1> QED BY <1>1, <1>2, <1>3, WorkersGood
-----------------------------------------------------------------------------
(* What the actions that leave the ring and the workers alone preserve. *)
LEMMA KeepsWorkers ==
  ASSUME LogInv, UNCHANGED <<ring, worker, workers>>, workersDone' \in {workersDone, FALSE}
  PROVE  /\ RingInv' /\ WorkerInv' /\ MissedCountsLosses'
         /\ worker' \in [IDs -> Worker] /\ (workers \subseteq IDs)'
         /\ buf' \in [0 .. Cap - 1 -> Nat \cup {NoEvent}] /\ head' \in Nat /\ tail' \in Nat
<1>1. RingInv' /\ worker' \in [IDs -> Worker] /\ (workers \subseteq IDs)'
      /\ buf' \in [0 .. Cap - 1 -> Nat \cup {NoEvent}] /\ head' \in Nat /\ tail' \in Nat
  BY DEF LogInv, TypeOK, RingInv, RingHoldsWindow, ring
<1>2. (workersDone => workers = {})'
  BY DEF LogInv, WorkerInv
<1>3. ASSUME NEW id \in IDs
      PROVE  /\ WorkerOK(worker[id])' /\ Covered(worker[id], id \in workers)'
             /\ (id \in workers => worker[id].pc # "stopped")'
  BY WorkersFit DEF WorkerOK, Covered, ring
<1> QED BY <1>1, <1>2, <1>3, WorkersGood

LEMMA LogStep ==
  ASSUME LogInv, NEW g \in Loggers, Log(g)
  PROVE  LogInv'
<1>1. UNCHANGED <<ring, worker, workers>> /\ workersDone' = workersDone
  BY DEF Log
<1>2. RingInv' /\ WorkerInv' /\ MissedCountsLosses'
  BY <1>1, KeepsWorkers
<1>3. TypeOK' /\ CallerInv'
  BY DEF LogInv, TypeOK, CallerInv, Log, ring, fileVs
<1> QED BY <1>2, <1>3 DEF LogInv

LEMMA EnqueueStep ==
  ASSUME LogInv, NEW g \in Loggers, Enqueue(g)
  PROVE  LogInv'
<1>1. Push /\ UNCHANGED <<workers, workersDone>>
  BY DEF Enqueue
<1>2. RingInv' /\ buf' \in [0 .. Cap - 1 -> Nat \cup {NoEvent}] /\ head' \in Nat /\ tail' \in Nat
  BY <1>1, PushRing
<1>3. worker' \in [IDs -> Worker] /\ WorkerInv' /\ MissedCountsLosses'
  BY <1>1, PushWorkers
<1>4. TypeOK' /\ CallerInv'
  BY <1>2, <1>3 DEF LogInv, TypeOK, CallerInv, Enqueue, fileVs
<1> QED BY <1>2, <1>3, <1>4 DEF LogInv

LEMMA WarnStep ==
  ASSUME LogInv, Warn
  PROVE  LogInv'
<1>1. Push /\ UNCHANGED <<workers, workersDone>>
  BY DEF Warn
<1>2. RingInv' /\ buf' \in [0 .. Cap - 1 -> Nat \cup {NoEvent}] /\ head' \in Nat /\ tail' \in Nat
  BY <1>1, PushRing
<1>3. worker' \in [IDs -> Worker] /\ WorkerInv' /\ MissedCountsLosses'
  BY <1>1, PushWorkers
<1>4. caller' \in [pc : {"idle", "configure", "warn", "close", "closed"}, wait : SUBSET IDs]
      /\ caller'.pc = "idle"
  BY DEF LogInv, TypeOK, Warn
<1>5. TypeOK' /\ CallerInv'
  BY <1>2, <1>3, <1>4 DEF LogInv, TypeOK, CallerInv, Warn, fileVs
<1> QED BY <1>2, <1>3, <1>5 DEF LogInv

(* A step of a worker that leaves its counters and its goal consistent. *)
LEMMA WorkerMoves ==
  ASSUME LogInv, NEW id \in IDs, NEW w \in Worker, worker' = [worker EXCEPT ![id] = w],
         WorkerOnly, out' \in [Sinks -> Seq(Nat)],
         WorkerOK(w), Covered(w, id \in workers), id \in workers => w.pc # "stopped"
  PROVE  LogInv'
<1>1. UNCHANGED <<head, tail, workers, workersDone>>
  BY DEF WorkerOnly, ring
<1>2. worker' \in [IDs -> Worker] /\ WorkerInv' /\ MissedCountsLosses'
  BY <1>1, OneWorker
<1>3. TypeOK' /\ RingInv' /\ CallerInv'
  BY <1>2 DEF LogInv, TypeOK, RingInv, RingHoldsWindow, CallerInv, WorkerOnly, ring, fileVs
<1> QED BY <1>2, <1>3 DEF LogInv

LEMMA ParkStep ==
  ASSUME LogInv, NEW id \in IDs, Park(id)
  PROVE  LogInv'
<1>1. PICK w \in Worker : w = worker[id]
  BY WorkersFit
<1>2. WorkerOK(w) /\ Covered(w, id \in workers) /\ w.pc = "wait"
  BY <1>1, WorkersFit DEF Park, Awake
<1>3. PICK new : new = [w EXCEPT !.pc = "parked"]
  OBVIOUS
<1>4. /\ new \in Worker /\ new.pc = "parked" /\ new.missed = w.missed /\ new.next = w.next
      /\ new.goal = w.goal /\ new.start = w.start /\ new.taken = w.taken /\ new.batch = w.batch
  BY <1>3 DEF Worker
<1>5. worker' = [worker EXCEPT ![id] = new]
  BY <1>1, <1>3 DEF Park
<1>6. WorkerOK(new) /\ Covered(new, id \in workers)
  BY <1>2, <1>4 DEF WorkerOK, Covered
<1>7. WorkerOnly /\ out' \in [Sinks -> Seq(Nat)]
  BY DEF Park, LogInv, TypeOK
<1> QED BY <1>4, <1>5, <1>6, <1>7, WorkerMoves

LEMMA StopStep ==
  ASSUME LogInv, NEW id \in IDs, Stop(id)
  PROVE  LogInv'
<1>1. PICK w \in Worker : w = worker[id]
  BY WorkersFit
<1>2. WorkerOK(w) /\ Covered(w, id \in workers) /\ w.pc = "wait"
  BY <1>1, WorkersFit DEF Stop, Awake
<1>3. PICK new : new = [w EXCEPT !.pc = "stopped"]
  OBVIOUS
<1>4. /\ new \in Worker /\ new.pc = "stopped" /\ new.missed = w.missed /\ new.next = w.next
      /\ new.goal = w.goal /\ new.start = w.start /\ new.taken = w.taken /\ new.batch = w.batch
  BY <1>3 DEF Worker
<1>5. worker' = [worker EXCEPT ![id] = new]
  BY <1>1, <1>3 DEF Stop
<1>6. w.next >= w.goal
  <2>1. w.next >= head /\ w.goal <= head /\ w.next \in Nat /\ w.goal \in Nat /\ head \in Nat
    BY <1>1, <1>2 DEF Stop, WorkerOK, Worker, LogInv, TypeOK
  <2> QED BY <2>1
<1>7. WorkerOK(new) /\ Covered(new, id \in workers)
  BY <1>2, <1>4, <1>6 DEF WorkerOK, Covered
<1>8. id \notin workers
  BY DEF Stop, LogInv, WorkerInv
<1>9. WorkerOnly /\ out' \in [Sinks -> Seq(Nat)]
  BY DEF Stop, LogInv, TypeOK
<1> QED BY <1>4, <1>5, <1>7, <1>8, <1>9, WorkerMoves

(* What a worker collects are the numbers from where it is to the head. *)
LEMMA BatchIsWindow ==
  ASSUME LogInv, NEW from \in Nat, tail <= from, from < head,
         NEW batch, batch = [i \in 1 .. head - from |-> buf[(from + i - 1) % Cap]]
  PROVE  /\ batch \in Seq(Nat) /\ batch # <<>>
         /\ Len(batch) = head - from /\ \A i \in 1 .. Len(batch) : batch[i] = from + i - 1
<1> USE LoggingAssumption
<1>1. head \in Nat /\ tail \in Nat /\ \A seq \in tail .. head - 1 : buf[seq % Cap] = seq
  BY DEF LogInv, TypeOK, RingInv, RingHoldsWindow
<1>2. PICK n \in Nat : n = head - from /\ n > 0
  BY <1>1
<1>3. ASSUME NEW i \in 1 .. n
      PROVE  buf[(from + i - 1) % Cap] = from + i - 1 /\ from + i - 1 \in Nat
  <2>1. from + i - 1 \in tail .. head - 1 /\ from + i - 1 \in Nat
    BY <1>1, <1>2
  <2> QED BY <1>1, <2>1
<1>4. batch \in [1 .. n -> Nat] /\ \A i \in 1 .. n : batch[i] = from + i - 1
  <2>1. batch = [i \in 1 .. n |-> buf[(from + i - 1) % Cap]]
    BY <1>2
  <2>2. \A i \in 1 .. n : batch[i] = buf[(from + i - 1) % Cap]
    BY <2>1
  <2>3. \A i \in 1 .. n : batch[i] = from + i - 1 /\ batch[i] \in Nat
    BY <1>3, <2>2
  <2> QED BY <2>1, <2>3
<1>5. batch \in Seq(Nat)
  <2>1. Seq(Nat) = UNION {[1 .. k -> Nat] : k \in Nat}
    BY SeqDef, Zenon
  <2> QED BY <1>2, <1>4, <2>1, Zenon
<1>6. batch # <<>>
  <2>1. 1 \in DOMAIN batch /\ DOMAIN batch = 1 .. Len(batch)
    BY <1>2, <1>4, <1>5, LenProperties
  <2> QED BY <2>1, EmptySeq
<1>7. Len(batch) = n
  BY <1>2, <1>4, <1>5, LenProperties
<1> QED BY <1>2, <1>4, <1>5, <1>6, <1>7

LEMMA CollectStep ==
  ASSUME LogInv, NEW id \in IDs, Collect(id)
  PROVE  LogInv'
<1>1. PICK w \in Worker : w = worker[id]
  BY WorkersFit
<1>2. /\ WorkerOK(w) /\ Covered(w, id \in workers) /\ w.pc = "wait"
      /\ w.next \in Nat /\ w.start \in Nat /\ w.taken \in Nat /\ w.missed \in Nat /\ w.goal \in Nat
      /\ head \in Nat /\ tail \in Nat /\ w.next < head /\ tail < head
  <2>1. WorkerOK(w) /\ Covered(w, id \in workers)
    BY <1>1, WorkersFit
  <2>2. w.next \in Nat /\ w.start \in Nat /\ w.taken \in Nat /\ w.missed \in Nat /\ w.goal \in Nat
    BY DEF Worker
  <2>3. w.pc = "wait" /\ w.next < head /\ head \in Nat /\ tail \in Nat
    BY <1>1 DEF Collect, Awake, LogInv, TypeOK
  <2>4. tail < head
    BY <2>2, <2>3 DEF LogInv, RingInv
  <2> QED BY <2>1, <2>2, <2>3, <2>4
<1>3. PICK from \in Nat : from = IF w.next < tail THEN tail ELSE w.next
  BY <1>2
<1>4. PICK batch : batch = [i \in 1 .. head - from |-> buf[(from + i - 1) % Cap]]
  OBVIOUS
<1>5. batch \in Seq(Nat) /\ batch # <<>>
  <2>1. tail <= from /\ from < head
    BY <1>2, <1>3
  <2> QED BY <1>4, <2>1, BatchIsWindow
<1>6. PICK m \in Nat, t \in Nat : m = w.missed + (from - w.next) /\ t = w.taken + (head - from)
  BY <1>2, <1>3
<1>7. PICK new : new = [w EXCEPT !.pc = "write", !.next = head, !.missed = m, !.batch = batch,
                                 !.taken = t]
  OBVIOUS
<1>8. /\ new \in Worker /\ new.pc = "write" /\ new.missed = m /\ new.next = head
      /\ new.goal = w.goal /\ new.start = w.start /\ new.taken = t /\ new.batch = batch
  BY <1>2, <1>5, <1>6, <1>7 DEF Worker
<1>9. worker' = [worker EXCEPT ![id] = new]
  <2>1. new = [w EXCEPT !.pc = "write", !.next = head, !.missed = @ + (from - w.next),
                        !.batch = [i \in 1 .. head - from |-> buf[(from + i - 1) % Cap]],
                        !.taken = @ + (head - from)]
    BY <1>1, <1>4, <1>6, <1>7 DEF Worker
  <2> QED BY <1>1, <1>3, <2>1 DEF Collect
<1>10. WorkerOK(new)
  BY <1>2, <1>5, <1>8 DEF WorkerOK
<1>11. Covered(new, id \in workers)
  <2>1. w.missed >= w.next - w.start - w.taken
    BY <1>2 DEF Covered
  <2>2. m >= head - w.start - t
    BY <1>2, <1>3, <1>6, <2>1
  <2> QED BY <1>2, <1>8, <2>2 DEF Covered
<1>12. WorkerOnly /\ out' \in [Sinks -> Seq(Nat)]
  BY DEF Collect, LogInv, TypeOK
<1> QED BY <1>8, <1>9, <1>10, <1>11, <1>12, WorkerMoves

LEMMA WriteStep ==
  ASSUME LogInv, NEW id \in IDs, Write(id)
  PROVE  LogInv'
<1>1. PICK w \in Worker : w = worker[id]
  BY WorkersFit
<1>2. WorkerOK(w) /\ Covered(w, id \in workers) /\ w.pc = "write"
  BY <1>1, WorkersFit DEF Write
<1>3. w.batch \in Seq(Nat) /\ w.batch # <<>>
  BY <1>2 DEF WorkerOK, Worker
<1>4. PICK rest \in Seq(Nat) : rest = Tail(w.batch) /\ (rest = <<>> <=> Len(w.batch) = 1)
  <2>1. Tail(w.batch) \in Seq(Nat) /\ Len(Tail(w.batch)) = Len(w.batch) - 1 /\ Len(w.batch) \in Nat
    BY <1>3, HeadTailProperties, LenProperties
  <2>2. PICK t \in Seq(Nat) : t = Tail(w.batch)
    BY <2>1
  <2>3. t = <<>> => Len(t) = 0
    BY EmptySeq
  <2>4. t # <<>> => Len(t) # 0
    BY EmptySeq
  <2>5. Len(t) = 0 <=> Len(w.batch) = 1
    BY <2>1, <2>2
  <2>6. t = <<>> <=> Len(w.batch) = 1
    BY <2>3, <2>4, <2>5
  <2> QED BY <2>2, <2>6
<1>5. PICK pc \in {"wait", "write"} : pc = IF Len(w.batch) = 1 THEN "wait" ELSE "write"
  OBVIOUS
<1>6. PICK new : new = [w EXCEPT !.batch = rest, !.pc = pc]
  OBVIOUS
<1>7. /\ new \in Worker /\ new.pc = pc /\ new.missed = w.missed /\ new.next = w.next
      /\ new.goal = w.goal /\ new.start = w.start /\ new.taken = w.taken /\ new.batch = rest
  BY <1>6 DEF Worker
<1>8. worker' = [worker EXCEPT ![id] = new]
  <2>1. new = [w EXCEPT !.batch = Tail(@), !.pc = IF Len(w.batch) = 1 THEN "wait" ELSE "write"]
    BY <1>4, <1>5, <1>6 DEF Worker
  <2> QED BY <1>1, <2>1 DEF Write
<1>9. WorkerOK(new)
  <2>1. new.pc = "write" <=> new.batch # <<>>
    BY <1>4, <1>5, <1>7
  <2> QED BY <1>2, <1>5, <1>7, <2>1 DEF WorkerOK
<1>10. Covered(new, id \in workers)
  BY <1>2, <1>7 DEF Covered
<1>11. out' \in [Sinks -> Seq(Nat)]
  <2>1. Head(w.batch) \in Nat
    BY <1>3, HeadTailProperties
  <2>2. PICK s \in Sinks : s = Sink(id)
    BY DEF IDs, Sink
  <2>3. out' = out \/ out' = [out EXCEPT ![s] = Append(@, Head(w.batch))]
    BY <1>1, <2>2 DEF Write
  <2>4. out \in [Sinks -> Seq(Nat)] /\ out[s] \in Seq(Nat)
    BY DEF LogInv, TypeOK
  <2>5. Append(out[s], Head(w.batch)) \in Seq(Nat)
    BY <2>1, <2>4, AppendProperties
  <2> QED BY <2>3, <2>4, <2>5
<1>12. new.pc # "stopped" /\ WorkerOnly
  BY <1>5, <1>7 DEF Write
<1> QED BY <1>7, <1>8, <1>9, <1>10, <1>11, <1>12, WorkerMoves

LEMMA CallStopStep ==
  ASSUME LogInv, NEW call \in {"configure", "close"}, CallStop(call),
         call = "configure" => gen < MaxGen
  PROVE  LogInv'
<1>0. head \in Nat /\ UNCHANGED <<head, tail, gen>> /\ workers' = {} /\ workersDone' = TRUE
      /\ workers \subseteq IDs
  BY DEF CallStop, StopWorkers, ring, LogInv, TypeOK
<1>1. ASSUME NEW id \in IDs
      PROVE  /\ worker'[id] \in Worker
             /\ WorkerOK(worker[id])' /\ Covered(worker[id], id \in workers)'
             /\ (id \in workers => worker[id].pc # "stopped")'
  <2>1. PICK w \in Worker : w = worker[id]
    BY WorkersFit
  <2>2. WorkerOK(w) /\ Covered(w, id \in workers) /\ (id \in workers => w.pc # "stopped")
    BY <2>1, WorkersFit
  <2>3. PICK goal \in Nat : goal = IF id \in workers THEN head ELSE w.goal
    BY <1>0 DEF Worker
  <2>4. PICK pc \in {"none", "wait", "write", "stopped"} :
          pc = IF w.pc = "parked" THEN "wait" ELSE w.pc
    BY DEF Worker
  <2>5. worker'[id] = [w EXCEPT !.goal = goal, !.pc = pc]
    <3>1. worker'[id] = IF id \in workers THEN Woken([w EXCEPT !.goal = head]) ELSE Woken(w)
      BY <2>1 DEF CallStop, StopWorkers
    <3>2. CASE id \in workers
      BY <2>3, <2>4, <3>1, <3>2 DEF Woken, Worker
    <3>3. CASE id \notin workers
      BY <2>3, <2>4, <3>1, <3>3 DEF Woken, Worker
    <3> QED BY <3>2, <3>3
  <2>6. PICK new : new = [w EXCEPT !.goal = goal, !.pc = pc]
    OBVIOUS
  <2>7. /\ new \in Worker /\ new.missed = w.missed /\ new.pc = pc /\ new.next = w.next
        /\ new.goal = goal /\ new.start = w.start /\ new.taken = w.taken /\ new.batch = w.batch
    BY <2>6 DEF Worker
  <2>8. (new.pc = "write" <=> new.batch # <<>>) /\ new.goal <= head
        /\ (new.pc = "stopped" => new.next >= new.goal)
    <3>1. new.pc = "write" <=> new.batch # <<>>
      BY <2>2, <2>4, <2>7 DEF WorkerOK
    <3>2. new.goal <= head
      BY <1>0, <2>2, <2>3, <2>7 DEF WorkerOK
    <3>3. ASSUME new.pc = "stopped" PROVE new.next >= new.goal
      <4>1. w.pc = "stopped" /\ id \notin workers
        BY <2>2, <2>4, <2>7, <3>3
      <4> QED BY <2>2, <2>3, <2>7, <4>1 DEF WorkerOK
    <3> QED BY <3>1, <3>2, <3>3
  <2>9. WorkerOK(worker[id])'
    BY <1>0, <2>5, <2>6, <2>8 DEF WorkerOK
  <2>10. Covered(worker[id], id \in workers)'
    BY <1>0, <2>2, <2>5, <2>6, <2>7 DEF Covered
  <2> QED BY <1>0, <2>5, <2>6, <2>7, <2>9, <2>10
<1>2. worker' \in [IDs -> Worker]
  BY <1>1 DEF CallStop, StopWorkers
<1>3. WorkerInv' /\ MissedCountsLosses'
  BY <1>0, <1>1, <1>2, WorkersGood
<1>4. caller' \in [pc : {"idle", "configure", "warn", "close", "closed"}, wait : SUBSET IDs]
      /\ (caller'.pc = "configure" => gen < MaxGen)
  BY <1>0 DEF CallStop
<1>5. TypeOK' /\ RingInv' /\ CallerInv'
  BY <1>0, <1>2, <1>4 DEF LogInv, TypeOK, RingInv, RingHoldsWindow, CallerInv, CallStop, ring, fileVs
<1> QED BY <1>3, <1>5 DEF LogInv

LEMMA CloseRestStep ==
  ASSUME LogInv, CloseRest
  PROVE  LogInv'
<1>1. UNCHANGED <<ring, worker, workers>> /\ workersDone' \in {workersDone, FALSE}
  BY DEF CloseRest
<1>2. RingInv' /\ WorkerInv' /\ MissedCountsLosses'
         /\ worker' \in [IDs -> Worker] /\ (workers \subseteq IDs)'
         /\ buf' \in [0 .. Cap - 1 -> Nat \cup {NoEvent}] /\ head' \in Nat /\ tail' \in Nat
  BY <1>1, KeepsWorkers
<1>3. caller' \in [pc : {"idle", "configure", "warn", "close", "closed"}, wait : SUBSET IDs]
      /\ caller'.pc = "closed"
  BY DEF CloseRest
<1>4. TypeOK' /\ CallerInv'
  BY <1>2, <1>3 DEF LogInv, TypeOK, CallerInv, CloseRest
<1> QED BY <1>2, <1>4 DEF LogInv

LEMMA RotateStep ==
  ASSUME LogInv, NEW g \in Gens, Rotate(g)
  PROVE  LogInv'
<1>1. UNCHANGED <<ring, worker, workers>> /\ workersDone' \in {workersDone, FALSE}
  BY DEF Rotate
<1>2. RingInv' /\ WorkerInv' /\ MissedCountsLosses'
  BY <1>1, KeepsWorkers
<1>3. TypeOK' /\ CallerInv'
  BY DEF LogInv, TypeOK, CallerInv, Rotate, ring
<1> QED BY <1>2, <1>3 DEF LogInv

LEMMA EndWatcherStep ==
  ASSUME LogInv, NEW g \in Gens, EndWatcher(g)
  PROVE  LogInv'
<1>1. UNCHANGED <<ring, worker, workers>> /\ workersDone' \in {workersDone, FALSE}
  BY DEF EndWatcher
<1>2. RingInv' /\ WorkerInv' /\ MissedCountsLosses'
  BY <1>1, KeepsWorkers
<1>3. TypeOK' /\ CallerInv'
  BY DEF LogInv, TypeOK, CallerInv, EndWatcher, ring, fileVs
<1> QED BY <1>2, <1>3 DEF LogInv

LEMMA ReopenStep ==
  ASSUME LogInv, NEW g \in Gens, Reopen(g)
  PROVE  LogInv'
<1>0. UNCHANGED <<ring, workers, workersDone, gen, config, rotationStop, rotated, rotations,
                  caller, logger, out>>
  BY DEF Reopen
<1>1. CASE UNCHANGED worker
  <2>1. RingInv' /\ WorkerInv' /\ MissedCountsLosses'
    BY <1>0, <1>1, KeepsWorkers
  <2>2. mu' \in Gens \cup {Free} /\ files' \in Nat /\ logFile' \in Nat
        /\ watcher' \in [Gens -> {"none", "on", "reopen", "stuck", "ended"}]
    BY DEF Reopen, LogInv, TypeOK
  <2>3. TypeOK' /\ CallerInv'
    BY <1>0, <1>1, <2>2 DEF LogInv, TypeOK, CallerInv, ring
  <2> QED BY <2>1, <2>3 DEF LogInv
<1>2. CASE worker' = [id \in IDs |-> IF id \in workers /\ Sink(id) = "file"
                                     THEN [worker[id] EXCEPT !.file = files + 1] ELSE worker[id]]
  <2>1. files \in Nat
    BY DEF LogInv, TypeOK
  <2>2. ASSUME NEW id \in IDs
        PROVE  /\ worker'[id] \in Worker
               /\ WorkerOK(worker[id])' /\ Covered(worker[id], id \in workers)'
               /\ (id \in workers => worker[id].pc # "stopped")'
    <3>1. PICK w \in Worker : w = worker[id]
      BY WorkersFit
    <3>2. PICK new : new = IF id \in workers /\ Sink(id) = "file"
                           THEN [w EXCEPT !.file = files + 1] ELSE w
      OBVIOUS
    <3>3. /\ new \in Worker /\ new.missed = w.missed /\ new.pc = w.pc /\ new.next = w.next
          /\ new.goal = w.goal /\ new.start = w.start /\ new.taken = w.taken
          /\ new.batch = w.batch
      <4>1. CASE id \in workers /\ Sink(id) = "file"
        BY <2>1, <3>2, <4>1 DEF Worker
      <4>2. CASE ~(id \in workers /\ Sink(id) = "file")
        BY <3>2, <4>2
      <4> QED BY <4>1, <4>2
    <3>4. worker'[id] = new
      BY <1>2, <3>1, <3>2
    <3>5. WorkerOK(worker[id])'
      BY <1>0, <3>1, <3>3, <3>4, WorkersFit DEF WorkerOK, ring
    <3>6. Covered(worker[id], id \in workers)'
      BY <1>0, <3>1, <3>3, <3>4, WorkersFit DEF Covered, ring
    <3> QED BY <1>0, <3>1, <3>3, <3>4, <3>5, <3>6, WorkersFit
  <2>3. worker' \in [IDs -> Worker]
    BY <1>2, <2>2
  <2>4. (workersDone => workers = {})' /\ (workers \subseteq IDs)'
    BY <1>0 DEF LogInv, TypeOK, WorkerInv
  <2>5. WorkerInv' /\ MissedCountsLosses'
    BY <2>2, <2>3, <2>4, WorkersGood
  <2>6. mu' \in Gens \cup {Free} /\ files' \in Nat /\ logFile' \in Nat
        /\ watcher' \in [Gens -> {"none", "on", "reopen", "stuck", "ended"}]
    BY DEF Reopen, LogInv, TypeOK
  <2>7. TypeOK' /\ CallerInv' /\ RingInv'
    BY <1>0, <2>3, <2>6 DEF LogInv, TypeOK, CallerInv, RingInv, RingHoldsWindow, ring
  <2> QED BY <2>5, <2>7 DEF LogInv
<1> QED BY <1>1, <1>2 DEF Reopen

LEMMA ReplaceWorkers ==
  ASSUME LogInv, NEW cfg \in Configs, NEW fails \in BOOLEAN, Replace(cfg, fails),
         UNCHANGED ring, gen < MaxGen
  PROVE  /\ worker' \in [IDs -> Worker] /\ workers' \subseteq IDs
         /\ WorkerInv' /\ MissedCountsLosses'
<1> USE LoggingAssumption
<1>0. /\ head \in Nat /\ tail \in Nat /\ tail <= head /\ files \in Nat
      /\ UNCHANGED <<head, tail>> /\ workersDone' = FALSE
  BY DEF LogInv, TypeOK, RingInv, RingHoldsWindow, Replace, ring
<1>1. workers' \subseteq IDs
  <2>1. gen + 1 \in Gens
    BY DEF LogInv, TypeOK, Gens
  <2>2. PICK sinks : workers' = {<<gen + 1, s>> : s \in sinks}
                     /\ \/ sinks = cfg.sinks
                        \/ sinks = cfg.sinks \ {"file"}
                        \/ sinks = {"console"}
    BY DEF Replace
  <2>3. cfg.sinks \subseteq Sinks
    OBVIOUS
  <2>4. sinks \subseteq Sinks
    BY <2>2, <2>3 DEF Sinks
  <2> QED BY <2>1, <2>2, <2>4 DEF IDs
<1>2. ASSUME NEW id \in IDs
      PROVE  /\ worker'[id] \in Worker
             /\ WorkerOK(worker[id])' /\ Covered(worker[id], id \in workers)'
             /\ (id \in workers => worker[id].pc # "stopped")'
  <2>1. CASE id \in workers'
    <3>1. PICK file \in Nat : file = IF Sink(id) = "file" THEN files + 1 ELSE 0
      BY <1>0
    <3>2. PICK none \in Worker : none = NoWorker
      <4>1. <<>> \in Seq(Nat)
        OBVIOUS
      <4> QED BY <4>1 DEF NoWorker, Worker
    <3>3. PICK new : new = [none EXCEPT !.pc = "wait", !.next = head, !.start = head, !.file = file]
      OBVIOUS
    <3>4. worker'[id] = new
      BY <2>1, <3>1, <3>2, <3>3 DEF Replace
    <3>5. none.missed = 0 /\ none.goal = 0 /\ none.taken = 0 /\ none.batch = <<>>
      BY <3>2 DEF NoWorker
    <3>6. /\ new \in Worker /\ new.missed = 0 /\ new.pc = "wait" /\ new.next = head
          /\ new.goal = 0 /\ new.start = head /\ new.taken = 0 /\ new.batch = <<>>
      BY <1>0, <3>3, <3>5 DEF Worker
    <3>7. WorkerOK(worker[id])'
      BY <1>0, <3>4, <3>6 DEF WorkerOK
    <3>8. Covered(worker[id], id \in workers)'
      BY <1>0, <3>4, <3>6 DEF Covered
    <3> QED BY <3>4, <3>6, <3>7, <3>8
  <2>2. CASE id \notin workers'
    <3>1. worker'[id] = worker[id]
      BY <2>2 DEF Replace
    <3>2. WorkerOK(worker[id])' /\ Covered(worker[id], id \in workers)'
      BY <1>0, <2>2, <3>1, WorkersFit DEF WorkerOK, Covered
    <3> QED BY <2>2, <3>1, <3>2, WorkersFit
  <2> QED BY <2>1, <2>2
<1>3. worker' \in [IDs -> Worker]
  <2>1. worker' = [id \in IDs |-> worker'[id]]
    BY DEF Replace
  <2> QED BY <1>2, <2>1
<1>4. (workersDone => workers = {})' /\ (workers \subseteq IDs)'
  BY <1>0, <1>1
<1> QED BY <1>1, <1>2, <1>3, <1>4, WorkersGood

LEMMA ConfigureRestStep ==
  ASSUME LogInv, ConfigureRest
  PROVE  LogInv'
<1> USE LoggingAssumption
<1>1. PICK cfg \in Configs, fails \in BOOLEAN :
        /\ Replace(cfg, fails)
        /\ caller' = [pc |-> IF fails THEN "warn" ELSE "idle", wait |-> {}]
  BY DEF ConfigureRest
<1>2. UNCHANGED <<mu, ring, rotated, rotations, logger, out>> /\ gen < MaxGen
  BY DEF ConfigureRest, LogInv, CallerInv
<1>3. worker' \in [IDs -> Worker] /\ workers' \subseteq IDs /\ WorkerInv' /\ MissedCountsLosses'
  BY <1>1, <1>2, ReplaceWorkers
<1>4. gen' \in Gens /\ gen' = gen + 1 /\ rotationStop' \in Gens \cup {0}
  <2>1. gen' = gen + 1 /\ gen + 1 \in Gens
    <3>1. gen' = gen + 1
      BY <1>1 DEF Replace
    <3>2. gen + 1 \in Gens
      BY <1>2 DEF LogInv, TypeOK, Gens
    <3> QED BY <3>1, <3>2
  <2>2. rotationStop' = gen + 1 \/ rotationStop' = 0
    BY <1>1 DEF Replace
  <2> QED BY <2>1, <2>2
<1>5. config' \in [sinks : SUBSET Sinks, rotate : BOOLEAN] /\ workersDone' \in BOOLEAN
      /\ logFile' \in Nat /\ files' \in Nat
  <2>1. config' = cfg /\ workersDone' = FALSE /\ cfg \in [sinks : SUBSET Sinks, rotate : BOOLEAN]
    BY <1>1 DEF Replace
  <2>2. files \in Nat /\ (files' = files + 1 \/ files' = files)
        /\ (logFile' = files + 1 \/ logFile' = 0)
    <3>1. files \in Nat
      BY DEF LogInv, TypeOK
    <3>2. CASE "file" \in cfg.sinks /\ ~fails
      BY <1>1, <3>1, <3>2 DEF Replace
    <3>3. CASE ~("file" \in cfg.sinks /\ ~fails)
      BY <1>1, <3>1, <3>3 DEF Replace
    <3> QED BY <3>2, <3>3
  <2>3. config' \in [sinks : SUBSET Sinks, rotate : BOOLEAN] /\ workersDone' \in BOOLEAN
    BY <2>1
  <2>4. logFile' \in Nat /\ files' \in Nat
    BY <2>2
  <2> QED BY <2>3, <2>4
<1>6. watcher' \in [Gens -> {"none", "on", "reopen", "stuck", "ended"}]
  BY <1>1, <1>4 DEF Replace, LogInv, TypeOK
<1>7. caller' \in [pc : {"idle", "configure", "warn", "close", "closed"}, wait : SUBSET IDs]
      /\ caller'.pc # "configure"
  <2>1. CASE fails
    BY <1>1, <2>1
  <2>2. CASE ~fails
    BY <1>1, <2>2
  <2> QED BY <2>1, <2>2
<1>8. TypeOK' /\ RingInv' /\ CallerInv'
  BY <1>2, <1>3, <1>4, <1>5, <1>6, <1>7
     DEF LogInv, TypeOK, RingInv, RingHoldsWindow, CallerInv, ring
<1> QED BY <1>3, <1>8 DEF LogInv
-----------------------------------------------------------------------------
LEMMA Unchanged == LogInv /\ UNCHANGED vars => LogInv'
<1> SUFFICES ASSUME LogInv, UNCHANGED vars PROVE LogInv'
  OBVIOUS
<1>1. UNCHANGED <<ring, worker, workers>> /\ workersDone' \in {workersDone, FALSE}
  BY DEF vars, ring
<1>2. RingInv' /\ WorkerInv' /\ MissedCountsLosses'
  BY <1>1, KeepsWorkers
<1>3. TypeOK' /\ CallerInv'
  BY DEF LogInv, TypeOK, CallerInv, vars
<1> QED BY <1>2, <1>3 DEF LogInv

LEMMA NextInv == LogInv /\ [Next]_vars => LogInv'
<1> SUFFICES ASSUME LogInv, [Next]_vars PROVE LogInv'
  OBVIOUS
<1>1. CASE \E g \in Loggers : Log(g) \/ Enqueue(g)
  BY <1>1, LogStep, EnqueueStep
<1>2. CASE \E id \in IDs : Park(id) \/ Stop(id) \/ Collect(id) \/ Write(id)
  BY <1>2, ParkStep, StopStep, CollectStep, WriteStep
<1>3. CASE \E pc \in {"configure", "close"} : CallStop(pc) /\ (pc = "configure" => gen < MaxGen)
  BY <1>3, CallStopStep
<1>4. CASE ConfigureRest \/ Warn \/ CloseRest
  BY <1>4, ConfigureRestStep, WarnStep, CloseRestStep
<1>5. CASE \E g \in Gens : Rotate(g) \/ Reopen(g) \/ EndWatcher(g)
  BY <1>5, RotateStep, ReopenStep, EndWatcherStep
<1>6. CASE UNCHANGED vars
  BY <1>6, Unchanged
<1> QED BY <1>1, <1>2, <1>3, <1>4, <1>5, <1>6, NextCases

LEMMA Invariant == Spec => []LogInv
  BY InitInv, NextInv, PTL DEF Spec

(* The variables keep their types whatever is logged, configured or rotated. *)
THEOREM TypeCorrect == Spec => []TypeOK
<1>1. LogInv => TypeOK
  BY DEF LogInv
<1> QED BY <1>1, Invariant, PTL

(* Whatever the capacity and however often the ring has wrapped around,    *)
(* every number from tail to head is found in its slot (eventRing.push, get). *)
THEOREM RingSound == Spec => []RingHoldsWindow
<1>1. LogInv => RingHoldsWindow
  BY DEF LogInv, RingInv
<1> QED BY <1>1, Invariant, PTL

(* What a sink has lost to the ring is in its counter, also while it is    *)
(* being replaced (accountEvictionLocked, run).                            *)
THEOREM LossesCounted == Spec => []MissedCountsLosses
<1>1. LogInv => MissedCountsLosses
  BY DEF LogInv
<1> QED BY <1>1, Invariant, PTL

(* A worker that has stopped has written all that was logged before it was *)
(* told to stop, in any number of reconfigurations (run, stopWorkersLocked). *)
THEOREM WorkersDrain == Spec => []StoppedDrained
<1>1. LogInv => StoppedDrained
  <2> SUFFICES ASSUME LogInv, NEW id \in IDs, worker[id].pc = "stopped"
               PROVE  worker[id].next >= worker[id].goal /\ worker[id].batch = <<>>
    BY DEF StoppedDrained
  <2>1. WorkerOK(worker[id])
    BY WorkersFit
  <2> QED BY <2>1 DEF WorkerOK
<1> QED BY <1>1, Invariant, PTL
-----------------------------------------------------------------------------
(* What a step does to a worker *)

Only(id) == \A x \in IDs \ {id} : worker'[x] = worker[x]
SameFile(id) == worker'[id].file = worker[id].file
SameNext(id) == worker'[id].next = worker[id].next /\ worker'[id].batch = worker[id].batch
Roused(id) ==
  /\ SameNext(id) /\ SameFile(id)
  /\ worker'[id].pc = worker[id].pc \/ (worker[id].pc = "parked" /\ worker'[id].pc = "wait")
Turns(id, pc) == Only(id) /\ SameNext(id) /\ SameFile(id) /\ worker'[id].pc = pc

LEMMA PushRouses ==
  ASSUME LogInv, Push, NEW id \in IDs
  PROVE  Roused(id)
<1>1. PICK w \in Worker : w = worker[id]
  BY WorkersFit
<1>2. worker'[id] = IF Missing(id) THEN Woken([w EXCEPT !.missed = @ + 1]) ELSE Woken(w)
  BY <1>1 DEF Push
<1>3. CASE Missing(id)
  BY <1>1, <1>2, <1>3 DEF Woken, Worker, Roused, SameNext, SameFile
<1>4. CASE ~Missing(id)
  BY <1>1, <1>2, <1>4 DEF Woken, Worker, Roused, SameNext, SameFile
<1> QED BY <1>3, <1>4

LEMMA CallStopRouses ==
  ASSUME LogInv, NEW pc, CallStop(pc), NEW id \in IDs
  PROVE  Roused(id)
<1>1. PICK w \in Worker : w = worker[id]
  BY WorkersFit
<1>2. worker'[id] = IF id \in workers THEN Woken([w EXCEPT !.goal = head]) ELSE Woken(w)
  BY <1>1 DEF CallStop, StopWorkers
<1>3. CASE id \in workers
  BY <1>1, <1>2, <1>3 DEF Woken, Worker, Roused, SameNext, SameFile
<1>4. CASE id \notin workers
  BY <1>1, <1>2, <1>4 DEF Woken, Worker, Roused, SameNext, SameFile
<1> QED BY <1>3, <1>4

LEMMA ParkTurns ==
  ASSUME LogInv, NEW id \in IDs, Park(id) \/ Stop(id)
  PROVE  worker[id].pc = "wait" /\ (Turns(id, "parked") \/ Turns(id, "stopped"))
<1>1. PICK w \in Worker : w = worker[id]
  BY WorkersFit
<1>2. worker \in [IDs -> Worker]
  BY DEF LogInv, TypeOK
<1>3. PICK pc \in {"parked", "stopped"} : worker' = [worker EXCEPT ![id].pc = pc]
  BY DEF Park, Stop
<1>4. worker'[id] = [w EXCEPT !.pc = pc] /\ Only(id)
  BY <1>1, <1>2, <1>3 DEF Only
<1>5. Turns(id, pc)
  BY <1>1, <1>4 DEF Worker, Turns, SameNext, SameFile
<1> QED BY <1>5 DEF Park, Stop, Awake

\* It takes the events from where it is, or from the oldest one kept.
Collects(id) ==
  \E from \in Nat, batch \in Seq(Nat) :
    /\ from = IF worker[id].next < tail THEN tail ELSE worker[id].next
    /\ from < head /\ batch # <<>> /\ Len(batch) = head - from
    /\ \A i \in 1 .. Len(batch) : batch[i] = from + i - 1
    /\ worker'[id].next = head /\ worker'[id].batch = batch
    /\ worker'[id].pc = "write" /\ worker[id].pc = "wait"
    /\ Only(id) /\ SameFile(id)

LEMMA CollectCollects ==
  ASSUME LogInv, NEW id \in IDs, Collect(id)
  PROVE  Collects(id)
<1>1. PICK w \in Worker : w = worker[id]
  BY WorkersFit
<1>2. head \in Nat /\ tail \in Nat /\ w.next \in Nat /\ w.next < head /\ tail < head /\ w.pc = "wait"
  <2>1. head \in Nat /\ tail \in Nat /\ w.next \in Nat /\ w.next < head /\ w.pc = "wait"
    BY <1>1 DEF Collect, Awake, LogInv, TypeOK, Worker
  <2> QED BY <2>1 DEF LogInv, RingInv
<1>3. PICK from \in Nat : from = IF w.next < tail THEN tail ELSE w.next
  BY <1>2
<1>4. PICK batch : batch = [i \in 1 .. head - from |-> buf[(from + i - 1) % Cap]]
  OBVIOUS
<1>5. tail <= from /\ from < head
  BY <1>2, <1>3
<1>6. /\ batch \in Seq(Nat) /\ batch # <<>>
      /\ Len(batch) = head - from /\ \A i \in 1 .. Len(batch) : batch[i] = from + i - 1
  BY <1>4, <1>5, BatchIsWindow
<1>7. PICK new : /\ new.pc = "write" /\ new.next = head /\ new.batch = batch /\ new.file = w.file
                 /\ worker' = [worker EXCEPT ![id] = new]
  <2>1. PICK new : new = [w EXCEPT !.pc = "write", !.next = head, !.missed = @ + (from - w.next),
                                   !.batch = batch, !.taken = @ + (head - from)]
    OBVIOUS
  <2>2. worker' = [worker EXCEPT ![id] = new]
    BY <1>1, <1>3, <1>4, <2>1 DEF Collect
  <2> QED BY <2>1, <2>2 DEF Worker
<1>8. worker'[id] = new /\ Only(id)
  BY <1>7 DEF Only, LogInv, TypeOK
<1> QED BY <1>1, <1>2, <1>3, <1>5, <1>6, <1>7, <1>8 DEF Collects, SameFile

\* It writes the first event of its batch.
Writes(id) ==
  /\ worker[id].pc = "write" /\ worker[id].batch \in Seq(Nat) /\ worker[id].batch # <<>>
  /\ worker'[id].batch = Tail(worker[id].batch) /\ worker'[id].pc \in {"wait", "write"}
  /\ worker'[id].next = worker[id].next /\ Only(id) /\ SameFile(id)

LEMMA WriteWrites ==
  ASSUME LogInv, NEW id \in IDs, Write(id)
  PROVE  Writes(id)
<1>1. PICK w \in Worker : w = worker[id]
  BY WorkersFit
<1>2. w.pc = "write" /\ w.batch \in Seq(Nat) /\ w.batch # <<>>
  BY <1>1, WorkersFit DEF Write, WorkerOK, Worker
<1>3. PICK rest : rest = Tail(w.batch)
  OBVIOUS
<1>4. PICK pc \in {"wait", "write"} : pc = IF Len(w.batch) = 1 THEN "wait" ELSE "write"
  OBVIOUS
<1>5. worker' = [worker EXCEPT ![id] = [w EXCEPT !.batch = rest, !.pc = pc]]
  BY <1>1, <1>3, <1>4 DEF Write
<1>6. worker'[id] = [w EXCEPT !.batch = rest, !.pc = pc] /\ Only(id)
  BY <1>5 DEF Only, LogInv, TypeOK
<1>7. worker'[id].batch = rest /\ worker'[id].pc = pc /\ worker'[id].next = w.next
      /\ worker'[id].file = w.file
  BY <1>6 DEF Worker
<1> QED BY <1>1, <1>2, <1>3, <1>6, <1>7 DEF Writes, SameFile

(* A new file goes to the file sink that is on the list, and to no other. *)
LEMMA ReopenSame ==
  ASSUME LogInv, NEW g, Reopen(g), NEW id \in IDs
  PROVE  SameNext(id) /\ worker'[id].pc = worker[id].pc
<1>1. PICK w \in Worker : w = worker[id]
  BY WorkersFit
<1>2. CASE worker'[id] = [w EXCEPT !.file = files + 1]
  BY <1>1, <1>2 DEF Worker, SameNext
<1>3. CASE worker'[id] = worker[id]
  BY <1>3 DEF SameNext
<1> QED BY <1>1, <1>2, <1>3 DEF Reopen

(* Configure begins workers of its own generation and leaves the former     *)
(* ones alone.                                                              *)
Begins(T) ==
  /\ gen + 1 \in Gens /\ gen' = gen + 1 /\ T \subseteq Sinks
  /\ workers' = {<<gen + 1, s>> : s \in T}
  /\ \A g \in Gens : \A s \in Sinks :
       IF g = gen + 1 /\ s \in T
       THEN /\ worker'[<<g, s>>].pc = "wait" /\ worker'[<<g, s>>].next = head
            /\ worker'[<<g, s>>].batch = <<>>
            /\ s = "file" => worker'[<<g, s>>].file = logFile'
       ELSE worker'[<<g, s>>] = worker[<<g, s>>]

LEMMA ReplaceBegins ==
  ASSUME LogInv, NEW cfg \in Configs, NEW fails \in BOOLEAN, Replace(cfg, fails), gen < MaxGen
  PROVE  \E T : Begins(T)
<1> USE LoggingAssumption
<1>1. gen + 1 \in Gens /\ gen' = gen + 1
  <2>1. gen + 1 \in Gens
    BY DEF LogInv, TypeOK, Gens
  <2> QED BY <2>1 DEF Replace
<1>2. PICK found : found = IF fails THEN cfg.sinks \ {"file"} ELSE cfg.sinks
  OBVIOUS
<1>3. PICK T : T = IF found = {} THEN {"console"} ELSE found
  OBVIOUS
<1>4. T \subseteq Sinks /\ ("file" \in T => "file" \in cfg.sinks /\ ~fails)
  <2>1. cfg.sinks \subseteq Sinks
    OBVIOUS
  <2> QED BY <1>2, <1>3, <2>1 DEF Sinks
<1>5. workers' = {<<gen + 1, s>> : s \in T}
  BY <1>2, <1>3 DEF Replace
<1>6. "file" \in T => logFile' = files + 1
  BY <1>4 DEF Replace
<1>7. ASSUME NEW g \in Gens, NEW s \in Sinks
      PROVE  IF g = gen + 1 /\ s \in T
             THEN /\ worker'[<<g, s>>].pc = "wait" /\ worker'[<<g, s>>].next = head
                  /\ worker'[<<g, s>>].batch = <<>>
                  /\ s = "file" => worker'[<<g, s>>].file = logFile'
             ELSE worker'[<<g, s>>] = worker[<<g, s>>]
  <2>1. <<g, s>> \in IDs /\ (<<g, s>> \in workers' <=> g = gen + 1 /\ s \in T)
    BY <1>5 DEF IDs
  <2>2. Sink(<<g, s>>) = s
    BY DEF Sink
  <2>3. CASE ~(g = gen + 1 /\ s \in T)
    BY <2>1, <2>3 DEF Replace
  <2>4. CASE g = gen + 1 /\ s \in T
    <3>1. PICK file : file = IF s = "file" THEN files + 1 ELSE 0
      OBVIOUS
    <3>2. worker'[<<g, s>>] = [NoWorker EXCEPT !.pc = "wait", !.next = head, !.start = head, !.file = file]
      BY <2>1, <2>2, <2>4, <3>1 DEF Replace
    <3>3. /\ worker'[<<g, s>>].pc = "wait" /\ worker'[<<g, s>>].next = head
          /\ worker'[<<g, s>>].batch = <<>> /\ worker'[<<g, s>>].file = file
      BY <3>2 DEF NoWorker
    <3> QED BY <1>6, <2>4, <3>1, <3>3
  <2> QED BY <2>3, <2>4
<1> QED BY <1>1, <1>4, <1>5, <1>7 DEF Begins
-----------------------------------------------------------------------------
(* Which workers run, and where the file sink writes *)

\* none starts or stops
LEMMA ActiveSame ==
  ASSUME ActiveInv, \A id \in IDs : Roused(id), UNCHANGED <<gen, workers>>,
         caller'.pc \in {"configure", "close"} <=> caller.pc \in {"configure", "close"},
         caller'.wait = caller.wait
  PROVE  ActiveInv'
<1>1. \A id \in workers \cup caller.wait : id[1] = gen
  BY DEF ActiveInv
<1>2. ASSUME NEW id \in IDs
      PROVE  /\ worker'[id].pc # "none" => id[1] <= gen
             /\ worker'[id].pc \notin {"none", "stopped"} => id \in workers \cup caller.wait
  BY <1>2 DEF ActiveInv, Roused
<1> QED BY <1>1, <1>2 DEF ActiveInv

LEMMA ActiveOne ==
  ASSUME ActiveInv, UNCHANGED <<gen, workers, caller>>, NEW id \in IDs, Only(id),
         worker[id].pc \notin {"none", "stopped"}
  PROVE  ActiveInv'
<1>1. ASSUME NEW x \in IDs
      PROVE  /\ worker'[x].pc # "none" => x[1] <= gen
             /\ worker'[x].pc \notin {"none", "stopped"} => x \in workers \cup caller.wait
  <2>1. CASE x = id
    BY <2>1 DEF ActiveInv
  <2>2. CASE x # id
    BY <2>2 DEF ActiveInv, Only
  <2> QED BY <2>1, <2>2
<1> QED BY <1>1 DEF ActiveInv

\* who has been waited for has stopped, and so have all
LEMMA AllStopped ==
  ASSUME ActiveInv, Stopped, caller.pc \in {"configure", "close"}, NEW id \in IDs
  PROVE  worker[id].pc \in {"none", "stopped"} /\ workers = {}
BY DEF ActiveInv, Stopped

LEMMA NextActive ==
  ASSUME LogInv, ActiveInv, [Next]_vars
  PROVE  ActiveInv'
<1>0. \A id \in IDs : worker' = worker => Roused(id)
  BY DEF Roused, SameNext, SameFile
<1>1. ASSUME NEW g \in Loggers, Log(g) \/ Enqueue(g) PROVE ActiveInv'
  <2>1. \A id \in IDs : Roused(id)
    BY <1>0, <1>1, PushRouses DEF Log, Enqueue
  <2> QED BY <1>1, <2>1, ActiveSame DEF Log, Enqueue
<1>2. ASSUME NEW id \in IDs, Park(id) \/ Stop(id) \/ Collect(id) \/ Write(id) PROVE ActiveInv'
  <2>1. UNCHANGED <<gen, workers, caller>>
    BY <1>2 DEF Park, Stop, Collect, Write, WorkerOnly
  <2>2. Only(id) /\ worker[id].pc \notin {"none", "stopped"}
    <3>1. CASE Park(id) \/ Stop(id)
      BY <3>1, ParkTurns DEF Turns
    <3>2. CASE Collect(id)
      BY <3>2, CollectCollects DEF Collects
    <3>3. CASE Write(id)
      BY <3>3, WriteWrites DEF Writes
    <3> QED BY <1>2, <3>1, <3>2, <3>3
  <2> QED BY <2>1, <2>2, ActiveOne
<1>3. ASSUME NEW pc \in {"configure", "close"}, CallStop(pc) PROVE ActiveInv'
  <2>1. \A id \in IDs : Roused(id)
    BY <1>3, CallStopRouses
  <2>2. /\ caller.pc = "idle" /\ caller.wait = {} /\ gen' = gen
        /\ workers' = {} /\ caller'.pc = pc /\ caller'.wait = workers
    BY <1>3 DEF CallStop, StopWorkers, ActiveInv
  <2>3. ASSUME NEW id \in IDs
        PROVE  /\ worker'[id].pc # "none" => id[1] <= gen
               /\ worker'[id].pc \notin {"none", "stopped"} => id \in workers
    BY <2>1, <2>2 DEF ActiveInv, Roused
  <2> QED BY <2>2, <2>3 DEF ActiveInv
<1>4. CASE ConfigureRest
  <2>1. \A id \in IDs : worker[id].pc \in {"none", "stopped"}
    BY <1>4, AllStopped DEF ConfigureRest
  <2>2. PICK T : Begins(T)
    BY <1>4, ReplaceBegins DEF ConfigureRest, LogInv, CallerInv
  <2>3. caller'.pc \notin {"configure", "close"} /\ caller'.wait = {}
    BY <1>4 DEF ConfigureRest
  <2>4. gen \in Nat /\ gen' = gen + 1 /\ workers' = {<<gen + 1, s>> : s \in T}
    BY <2>2 DEF Begins, LogInv, TypeOK, Gens
  <2>5. ASSUME NEW id \in IDs
        PROVE  /\ worker'[id].pc # "none" => id[1] <= gen'
               /\ worker'[id].pc \notin {"none", "stopped"} => id \in workers'
    <3>1. PICK g \in Gens, s \in Sinks : id = <<g, s>>
      BY DEF IDs
    <3>2. CASE g = gen + 1 /\ s \in T
      BY <2>4, <3>1, <3>2
    <3>3. CASE ~(g = gen + 1 /\ s \in T)
      <4>1. worker'[id] = worker[id]
        BY <2>2, <3>1, <3>3 DEF Begins
      <4>2. worker'[id].pc # "none" => g <= gen
        BY <3>1, <4>1 DEF ActiveInv
      <4>3. g \in Nat
        BY DEF Gens
      <4> QED BY <2>1, <2>4, <3>1, <4>1, <4>2, <4>3
    <3> QED BY <3>2, <3>3
  <2> QED BY <2>3, <2>4, <2>5 DEF ActiveInv
<1>5. CASE Warn
  <2>1. \A id \in IDs : Roused(id)
    BY <1>5, PushRouses DEF Warn
  <2>2. /\ caller.pc = "warn" /\ caller'.pc = "idle" /\ caller'.wait = caller.wait
        /\ UNCHANGED <<gen, workers>>
    BY <1>5 DEF Warn, LogInv, TypeOK
  <2> QED BY <2>1, <2>2, ActiveSame
<1>6. CASE CloseRest
  <2>1. \A id \in IDs : worker[id].pc \in {"none", "stopped"} /\ workers = {}
    BY <1>6, AllStopped DEF CloseRest
  <2>2. UNCHANGED <<worker, workers, gen>> /\ caller'.pc = "closed" /\ caller'.wait = {}
    BY <1>6 DEF CloseRest
  <2>3. workers = {}
    BY <1>6 DEF CloseRest, ActiveInv
  <2> QED BY <2>1, <2>2, <2>3 DEF ActiveInv
<1>7. ASSUME NEW g \in Gens, Rotate(g) \/ EndWatcher(g) PROVE ActiveInv'
  BY <1>7 DEF Rotate, EndWatcher, ActiveInv
<1>8. ASSUME NEW g \in Gens, Reopen(g) PROVE ActiveInv'
  <2>1. \A id \in IDs : worker'[id].pc = worker[id].pc
    BY <1>8, ReopenSame
  <2>2. UNCHANGED <<workers, gen, caller>>
    BY <1>8 DEF Reopen
  <2> QED BY <2>1, <2>2 DEF ActiveInv
<1>9. CASE UNCHANGED vars
  BY <1>9 DEF vars, ActiveInv
<1> QED BY <1>1, <1>2, <1>3, <1>4, <1>5, <1>6, <1>7, <1>8, <1>9, NextCases

LEMMA NextHandler ==
  ASSUME LogInv, ActiveInv, HandlerIsCurrent, [Next]_vars
  PROVE  HandlerIsCurrent'
<1>0. ASSUME \A id \in workers : SameFile(id), UNCHANGED <<mu, workers, logFile>>
      PROVE  HandlerIsCurrent'
  BY <1>0 DEF HandlerIsCurrent, SameFile
<1>1. workers \subseteq IDs /\ (worker' = worker => \A id \in workers : SameFile(id))
  BY DEF LogInv, TypeOK, SameFile
<1>2. ASSUME NEW g \in Loggers, Log(g) \/ Enqueue(g) PROVE HandlerIsCurrent'
  <2>1. \A id \in workers : SameFile(id)
    BY <1>1, <1>2, PushRouses DEF Log, Enqueue, Roused
  <2> QED BY <1>0, <1>2, <2>1 DEF Log, Enqueue, fileVs
<1>3. ASSUME NEW id \in IDs, Park(id) \/ Stop(id) \/ Collect(id) \/ Write(id)
      PROVE  HandlerIsCurrent'
  <2>1. Only(id) /\ SameFile(id)
    <3>1. CASE Park(id) \/ Stop(id)
      BY <3>1, ParkTurns DEF Turns
    <3>2. CASE Collect(id)
      BY <3>2, CollectCollects DEF Collects
    <3>3. CASE Write(id)
      BY <3>3, WriteWrites DEF Writes
    <3> QED BY <1>3, <3>1, <3>2, <3>3
  <2>2. \A x \in workers : SameFile(x)
    BY <1>1, <2>1 DEF Only, SameFile
  <2>3. UNCHANGED <<mu, workers, logFile>>
    BY <1>3 DEF Park, Stop, Collect, Write, WorkerOnly, fileVs
  <2> QED BY <1>0, <2>2, <2>3
<1>4. ASSUME NEW pc, CallStop(pc) PROVE HandlerIsCurrent'
  BY <1>4 DEF CallStop, StopWorkers, HandlerIsCurrent
<1>5. CASE ConfigureRest
  <2>1. PICK T : Begins(T)
    BY <1>5, ReplaceBegins DEF ConfigureRest, LogInv, CallerInv
  <2>2. ASSUME NEW id \in workers', Sink(id) = "file" PROVE worker'[id].file = logFile'
    <3>1. PICK s \in T : id = <<gen + 1, s>>
      BY <2>1 DEF Begins
    <3>2. s = "file"
      BY <2>2, <3>1 DEF Sink
    <3> QED BY <2>1, <3>1, <3>2 DEF Begins
  <2> QED BY <2>2 DEF HandlerIsCurrent
<1>6. CASE Warn
  <2>1. \A id \in workers : SameFile(id)
    BY <1>1, <1>6, PushRouses DEF Warn, Roused
  <2> QED BY <1>0, <1>6, <2>1 DEF Warn, fileVs
<1>7. CASE CloseRest
  <2>1. workers' = {}
    BY <1>7 DEF CloseRest, ActiveInv
  <2> QED BY <2>1 DEF HandlerIsCurrent
<1>8. ASSUME NEW g \in Gens, Rotate(g) PROVE HandlerIsCurrent'
  <2>1. mu' # Free
    BY <1>8, LoggingAssumption DEF Rotate, Gens
  <2> QED BY <2>1 DEF HandlerIsCurrent
<1>9. ASSUME NEW g \in Gens, Reopen(g) PROVE HandlerIsCurrent'
  <2>1. CASE UNCHANGED <<mu, worker, logFile>>
    BY <1>1, <1>0, <1>9, <2>1 DEF Reopen
  <2>2. CASE /\ logFile' = files + 1
             /\ worker' = [id \in IDs |-> IF id \in workers /\ Sink(id) = "file"
                                          THEN [worker[id] EXCEPT !.file = files + 1] ELSE worker[id]]
    <3>1. ASSUME NEW id \in workers, Sink(id) = "file" PROVE worker'[id].file = files + 1
      <4>1. PICK w \in Worker : w = worker[id]
        BY <1>1, WorkersFit
      <4>2. worker'[id] = [w EXCEPT !.file = files + 1]
        BY <1>1, <2>2, <3>1, <4>1
      <4> QED BY <4>2 DEF Worker
    <3> QED BY <1>9, <2>2, <3>1 DEF Reopen, HandlerIsCurrent
  <2> QED BY <1>9, <2>1, <2>2 DEF Reopen
<1>10. ASSUME NEW g \in Gens, EndWatcher(g) PROVE HandlerIsCurrent'
  BY <1>0, <1>1, <1>10 DEF EndWatcher, fileVs
<1>11. CASE UNCHANGED vars
  BY <1>0, <1>1, <1>11 DEF vars, fileVs
<1> QED BY <1>2, <1>3, <1>4, <1>5, <1>6, <1>7, <1>8, <1>9, <1>10, <1>11, NextCases

LEMMA ActiveInductive == Spec => []ActiveInv
<1>1. Init => ActiveInv
  <2> SUFFICES ASSUME Init PROVE ActiveInv
    OBVIOUS
  <2>1. /\ workers = {<<1, "console">>} /\ caller.pc = "idle" /\ caller.wait = {} /\ gen = 1
        /\ worker = [id \in IDs |-> IF id \in workers THEN [NoWorker EXCEPT !.pc = "wait"] ELSE NoWorker]
    BY DEF Init
  <2>2. ASSUME NEW id \in IDs, id \notin workers PROVE worker[id].pc = "none"
    BY <2>1, <2>2 DEF NoWorker
  <2>3. ASSUME NEW id \in workers PROVE id[1] = 1 /\ id[1] <= gen
    BY <2>1, <2>3
  <2> QED BY <2>1, <2>2, <2>3 DEF ActiveInv
<1> QED BY <1>1, NextActive, Invariant, PTL DEF Spec

(* Whenever the mutex is free, the handler of the file sink writes to the   *)
(* file that is open: after any number of rotations, of rotations that fail *)
(* and of reconfigurations (RotateFileIfNeeded, Configure, Close).          *)
THEOREM HandlerCurrent == Spec => []HandlerIsCurrent
<1>1. Init => HandlerIsCurrent
  BY DEF Init, HandlerIsCurrent, Sink
<1> QED BY <1>1, NextHandler, ActiveInductive, Invariant, PTL DEF Spec
-----------------------------------------------------------------------------
(* The refinement of LogStream: what is due for a sink is up to the worker  *)
(* of the last Configure that gave it one.                                  *)

LEMMA Greatest ==
  ASSUME NEW S \in SUBSET Nat, NEW g \in S, \A h \in S : h <= g
  PROVE  (CHOOSE x \in S : \A h \in S : h <= x) = g
<1>1. PICK x : x = CHOOSE y \in S : \A h \in S : h <= y
  OBVIOUS
<1>2. x \in S /\ \A h \in S : h <= x
  BY <1>1, Zenon
<1>3. x <= g /\ g <= x /\ x \in Nat /\ g \in Nat
  BY <1>2
<1>4. x = g
  BY <1>3
<1> QED BY <1>1, <1>4

\* neither begins
Begun(id) == worker'[id].pc = "none" <=> worker[id].pc = "none"

LEMMA CurrentStays ==
  ASSUME NEW s \in Sinks, HasLatest(s), \A g \in Gens : Begun(<<g, s>>)
  PROVE  /\ Latest(s)' = Latest(s) /\ HasLatest(s)'
         /\ Latest(s) # {} => \E g \in Latest(s) :
              /\ Current(s) = worker[<<g, s>>] /\ Current(s)' = worker'[<<g, s>>]
              /\ \A h \in Latest(s) : h <= g
<1>1. Latest(s)' = Latest(s)
  BY DEF Latest, Begun
<1>2. ASSUME Latest(s) # {}
      PROVE  \E g \in Latest(s) :
               /\ Current(s) = worker[<<g, s>>] /\ Current(s)' = worker'[<<g, s>>]
               /\ \A h \in Latest(s) : h <= g
  <2>1. PICK g \in Latest(s) : \A h \in Latest(s) : h <= g
    BY <1>2 DEF HasLatest
  <2>2. Latest(s) \in SUBSET Nat
    BY DEF Latest, Gens
  <2>3. (CHOOSE x \in Latest(s) : \A h \in Latest(s) : h <= x) = g
    BY <2>1, <2>2, Greatest
  <2>4. Current(s) = worker[<<g, s>>]
    BY <2>3 DEF Current
  <2>5. Current(s)' = worker'[<<g, s>>]
    BY <1>1, <2>3 DEF Current
  <2> QED BY <2>1, <2>4, <2>5
<1> QED BY <1>1, <1>2 DEF HasLatest

LEMMA DueStays ==
  ASSUME NEW s \in Sinks, HasLatest(s), \A g \in Gens : Begun(<<g, s>>) /\ SameNext(<<g, s>>)
  PROVE  Due(s)' = Due(s) /\ HasLatest(s)'
<1>1. CASE Latest(s) = {}
  BY <1>1, CurrentStays DEF Due
<1>2. CASE Latest(s) # {}
  <2>1. PICK g \in Latest(s) : Current(s) = worker[<<g, s>>] /\ Current(s)' = worker'[<<g, s>>]
    BY <1>2, CurrentStays
  <2>2. Current(s)'.batch = Current(s).batch /\ Current(s)'.next = Current(s).next
    BY <2>1 DEF Latest, SameNext
  <2> QED BY <1>2, <2>2, CurrentStays DEF Due
<1> QED BY <1>1, <1>2

LEMMA ShutStays ==
  ASSUME NEW s \in Sinks, HasLatest(s), \A g \in Gens : Begun(<<g, s>>) /\ SameFile(<<g, s>>),
         logFile' = logFile
  PROVE  Shut(s)' = Shut(s)
<1>1. CASE Latest(s) = {}
  BY <1>1, CurrentStays DEF Shut
<1>2. CASE Latest(s) # {}
  <2>1. PICK g \in Latest(s) : Current(s) = worker[<<g, s>>] /\ Current(s)' = worker'[<<g, s>>]
    BY <1>2, CurrentStays
  <2>2. Current(s)'.file = Current(s).file
    BY <2>1 DEF Latest, SameFile
  <2> QED BY <1>2, <2>2, CurrentStays DEF Shut
<1> QED BY <1>1, <1>2

(* A worker that runs is the current one of its sink. *)
LEMMA RunningIsCurrent ==
  ASSUME ActiveInv, NEW id \in IDs, worker[id].pc \notin {"none", "stopped"},
         HasLatest(Sink(id)), \A g \in Gens : Begun(<<g, Sink(id)>>)
  PROVE  /\ Sink(id) \in Sinks /\ Latest(Sink(id)) # {} /\ Latest(Sink(id))' # {}
         /\ Current(Sink(id)) = worker[id] /\ Current(Sink(id))' = worker'[id]
<1>1. PICK h \in Gens, s \in Sinks : id = <<h, s>> /\ s = Sink(id)
  BY DEF IDs, Sink
<1>2. h \in Latest(s) /\ h = gen
  BY <1>1 DEF Latest, ActiveInv
<1>3. PICK g \in Latest(s) : /\ Current(s) = worker[<<g, s>>] /\ Current(s)' = worker'[<<g, s>>]
                             /\ \A k \in Latest(s) : k <= g
  BY <1>1, <1>2, CurrentStays
<1>4. g <= gen
  BY <1>1, <1>3 DEF ActiveInv, Latest, IDs
<1>5. g = h
  BY <1>2, <1>3, <1>4 DEF Latest, Gens
<1> QED BY <1>1, <1>2, <1>3, <1>5, CurrentStays

Dues  == [s \in Sinks |-> Due(s)]
Shuts == {s \in Sinks : Shut(s)}

\* what a step is to LogStream
StreamStep ==
  /\ StreamInv'
  /\ Stream!Next \/ UNCHANGED <<head, Dues, out, gen, Shuts>>

LEMMA PendingStays ==
  ASSUME LogInv, StreamInv, NEW id \in IDs, SameNext(id), head' \in {head, head + 1}
  PROVE  Pending(worker[id])'
<1>1. head \in Nat /\ worker[id].next \in Nat
  BY WorkersFit DEF LogInv, TypeOK, Worker
<1>2. worker[id].next <= head'
  BY <1>1 DEF StreamInv, Pending
<1> QED BY <1>2 DEF StreamInv, Pending, SameNext

\* in a step that reads and writes nothing, the stream goes on as it was
Still(id) == Begun(id) /\ SameNext(id) /\ SameFile(id)
LEMMA StreamStays ==
  ASSUME LogInv, StreamInv, \A id \in IDs : Still(id), logFile' = logFile
  PROVE  Dues' = Dues /\ Shuts' = Shuts /\ \A s \in Sinks : HasLatest(s)'
<1>1. \A s \in Sinks : HasLatest(s) /\ \A g \in Gens :
        Begun(<<g, s>>) /\ SameNext(<<g, s>>) /\ SameFile(<<g, s>>)
  BY DEF StreamInv, IDs, Still
<1>2. \A s \in Sinks : Due(s)' = Due(s) /\ HasLatest(s)' /\ Shut(s)' = Shut(s)
  BY <1>1, DueStays, ShutStays
<1> QED BY <1>2 DEF Dues, Shuts

LEMMA QuietStep ==
  ASSUME LogInv, StreamInv, \A id \in IDs : Still(id),
         UNCHANGED <<head, tail, gen, logFile, out>>
  PROVE  StreamStep
<1>1. Dues' = Dues /\ Shuts' = Shuts /\ \A s \in Sinks : HasLatest(s)'
  BY StreamStays
<1>2. \A id \in IDs : Pending(worker[id])'
  BY PendingStays DEF Still
<1>3. (tail > 0 => head = tail + Cap)'
  BY DEF StreamInv
<1> QED BY <1>1, <1>2, <1>3 DEF StreamStep, StreamInv

LEMMA PushStep ==
  ASSUME LogInv, StreamInv, Push, UNCHANGED <<gen, logFile, out>>
  PROVE  StreamStep
<1> USE LoggingAssumption
<1>1. \A id \in IDs : Still(id)
  BY PushRouses DEF Roused, Still, Begun
<1>2. Dues' = Dues /\ Shuts' = Shuts /\ \A s \in Sinks : HasLatest(s)'
  BY <1>1, StreamStays
<1>3. head' = head + 1 /\ tail' = IF Full THEN tail + 1 ELSE tail
  BY DEF Push
<1>4. \A id \in IDs : Pending(worker[id])'
  BY <1>1, <1>3, PendingStays DEF Still
<1>5. (tail > 0 => head = tail + Cap)'
  <2>1. /\ head \in Nat /\ tail \in Nat /\ head - tail <= Cap /\ (tail > 0 => head = tail + Cap)
    BY DEF LogInv, TypeOK, RingInv, RingHoldsWindow, StreamInv
  <2> QED BY <1>3, <2>1 DEF Full
<1>6. Stream!Log
  BY <1>2, <1>3 DEF Stream!Log, Dues, Shuts
<1> QED BY <1>2, <1>4, <1>5, <1>6 DEF StreamStep, StreamInv, Stream!Next

LEMMA CollectStream ==
  ASSUME LogInv, ActiveInv, StreamInv, NEW id \in IDs, Collect(id)
  PROVE  StreamStep
<1> USE LoggingAssumption
<1>1. PICK from \in Nat, batch \in Seq(Nat) :
        /\ from = IF worker[id].next < tail THEN tail ELSE worker[id].next
        /\ from < head /\ batch # <<>> /\ Len(batch) = head - from
        /\ \A i \in 1 .. Len(batch) : batch[i] = from + i - 1
        /\ worker'[id].next = head /\ worker'[id].batch = batch
        /\ worker'[id].pc = "write" /\ worker[id].pc = "wait"
        /\ Only(id) /\ SameFile(id)
  BY CollectCollects DEF Collects
<1>2. UNCHANGED <<head, tail, gen, logFile, out>>
  BY DEF Collect, WorkerOnly, ring, fileVs
<1>3. PICK h \in Gens, s \in Sinks : id = <<h, s>> /\ s = Sink(id)
  BY DEF IDs, Sink
<1>4. \A t \in Sinks : HasLatest(t) /\ \A g \in Gens : Begun(<<g, t>>) /\ SameFile(<<g, t>>)
  <2>1. ASSUME NEW x \in IDs PROVE Begun(x) /\ SameFile(x)
    BY <1>1 DEF Only, Begun, SameFile
  <2> QED BY <2>1 DEF StreamInv, IDs
<1>5. \A t \in Sinks \ {s} : \A g \in Gens : SameNext(<<g, t>>)
  BY <1>1, <1>3 DEF Only, SameNext, IDs
<1>6. \A t \in Sinks : HasLatest(t)' /\ Shut(t)' = Shut(t) /\ (t # s => Due(t)' = Due(t))
  BY <1>2, <1>4, <1>5, CurrentStays, ShutStays, DueStays
<1>7. Due(s) = worker[id].next /\ Due(s)' = from
  <2>1. Latest(s) # {} /\ Latest(s)' # {} /\ Current(s) = worker[id] /\ Current(s)' = worker'[id]
    BY <1>1, <1>3, <1>4, RunningIsCurrent
  <2>2. worker[id].batch = <<>>
    BY <1>1, WorkersFit DEF WorkerOK
  <2>3. Head(batch) = from
    <3>1. Len(batch) \in Nat /\ 1 \in 1 .. Len(batch)
      BY <1>1, EmptySeq, LenProperties
    <3>2. batch[1] = from
      BY <1>1, <3>1
    <3> QED BY <1>1, <3>2, HeadTailProperties
  <2> QED BY <1>1, <2>1, <2>2, <2>3 DEF Due
<1>8. head \in Nat /\ tail \in Nat /\ worker[id].next \in Nat /\ (tail > 0 => head = tail + Cap)
  BY WorkersFit DEF LogInv, TypeOK, Worker, StreamInv
<1>9. Shuts' = Shuts
  BY <1>6 DEF Shuts
<1>10. StreamInv'
  <2>1. ASSUME NEW x \in IDs PROVE Pending(worker[x])'
    <3>1. CASE x = id
      <4>1. worker'[x].next <= head'
        BY <1>1, <1>2, <1>8, <3>1
      <4>2. ASSUME NEW i \in 1 .. Len(batch) PROVE batch[i] + Len(batch) + 1 = head + i
        <5>1. batch[i] = from + i - 1 /\ Len(batch) = head - from /\ i \in Nat
          BY <1>1
        <5> QED BY <1>8, <5>1
      <4> QED BY <1>1, <3>1, <4>1, <4>2 DEF Pending
    <3>2. CASE x # id
      BY <1>1, <1>2, <3>2, PendingStays DEF Only, SameNext
    <3> QED BY <3>1, <3>2
  <2> QED BY <1>2, <1>6, <2>1 DEF StreamInv
<1>11. CASE from = worker[id].next
  <2>1. Dues' = Dues
    BY <1>6, <1>7, <1>11 DEF Dues
  <2> QED BY <1>2, <1>9, <1>10, <2>1 DEF StreamStep
<1>12. CASE from # worker[id].next
  <2>1. from = tail /\ tail > worker[id].next /\ head = tail + Cap
    BY <1>1, <1>8, <1>12
  <2>2. Dues[s] = worker[id].next /\ Dues' = [Dues EXCEPT ![s] = from]
    BY <1>6, <1>7 DEF Dues
  <2>3. from \in Dues[s] + 1 .. head
    BY <1>1, <1>8, <2>1, <2>2
  <2>4. \A k \in Dues[s] .. from - 1 : k + Cap <= head
    BY <1>8, <2>1, <2>2
  <2>5. Stream!Miss(s)
    BY <1>2, <1>9, <2>2, <2>3, <2>4 DEF Stream!Miss, Stream!Overwritten, Dues, Shuts
  <2> QED BY <1>3, <1>10, <2>5 DEF StreamStep, Stream!Next
<1> QED BY <1>11, <1>12

LEMMA WriteStream ==
  ASSUME LogInv, ActiveInv, StreamInv, NEW id \in IDs, Write(id)
  PROVE  StreamStep
<1>1. Writes(id) /\ UNCHANGED <<head, tail, gen, logFile>>
  BY WriteWrites DEF Write, WorkerOnly, ring, fileVs
<1>2. PICK batch \in Seq(Nat), n \in Nat \ {0}, next \in Nat :
        /\ batch = worker[id].batch /\ batch # <<>> /\ n = Len(batch) /\ next = worker[id].next
        /\ next <= head /\ \A i \in 1 .. n : batch[i] + n + 1 = next + i
  <2>1. worker[id].batch \in Seq(Nat) /\ worker[id].batch # <<>> /\ worker[id].next \in Nat
        /\ Pending(worker[id])
    BY <1>1, WorkersFit DEF Writes, Worker, StreamInv
  <2>2. Len(worker[id].batch) \in Nat \ {0}
    BY <2>1, EmptySeq, LenProperties
  <2> QED BY <2>1, <2>2 DEF Pending
<1>3. PICK h \in Gens, s \in Sinks : id = <<h, s>> /\ s = Sink(id)
  BY DEF IDs, Sink
<1>4. \A t \in Sinks : HasLatest(t) /\ \A g \in Gens : Begun(<<g, t>>) /\ SameFile(<<g, t>>)
  <2>1. ASSUME NEW x \in IDs PROVE Begun(x) /\ SameFile(x)
    BY <1>1 DEF Writes, Only, Begun, SameFile
  <2> QED BY <2>1 DEF StreamInv, IDs
<1>5. \A t \in Sinks \ {s} : \A g \in Gens : SameNext(<<g, t>>)
  BY <1>1, <1>3 DEF Writes, Only, SameNext, IDs
<1>6. \A t \in Sinks : HasLatest(t)' /\ Shut(t)' = Shut(t) /\ (t # s => Due(t)' = Due(t))
  BY <1>1, <1>4, <1>5, CurrentStays, ShutStays, DueStays
<1>7. PICK rest \in Seq(Nat) :
        /\ rest = Tail(batch) /\ Len(rest) = n - 1 /\ (rest = <<>> <=> n = 1)
        /\ \A i \in 1 .. n - 1 : rest[i] = batch[i + 1]
  <2>1. Tail(batch) \in Seq(Nat) /\ Len(Tail(batch)) = n - 1
        /\ \A i \in 1 .. Len(Tail(batch)) : Tail(batch)[i] = batch[i + 1]
    BY <1>2, HeadTailProperties
  <2>2. PICK t \in Seq(Nat) : t = Tail(batch)
    BY <2>1
  <2>3. t = <<>> <=> Len(t) = 0
    BY EmptySeq
  <2>4. Len(t) = n - 1
    BY <2>1, <2>2
  <2>5. t = <<>> <=> n = 1
    BY <2>3, <2>4
  <2>6. \A i \in 1 .. n - 1 : t[i] = batch[i + 1]
    BY <2>1, <2>2
  <2> QED BY <2>2, <2>4, <2>5, <2>6
<1>8. PICK k \in Nat : k = Head(batch) /\ k = batch[1] /\ k + n = next /\ k < head
  <2>1. 1 \in 1 .. n
    OBVIOUS
  <2>2. PICK k \in Nat : k = batch[1] /\ k + n + 1 = next + 1
    BY <1>2, <2>1, ElementOfSeq
  <2>3. Head(batch) = batch[1]
    BY <1>2
  <2>4. k + n = next /\ head \in Nat
    <3>1. k + n + 1 = next + 1
      BY <2>2
    <3> QED BY <3>1 DEF LogInv, TypeOK
  <2>5. k < head
    BY <1>2, <2>4
  <2> QED BY <2>2, <2>3, <2>4, <2>5
<1>9. Current(s) = worker[id] /\ Due(s) = k /\ Due(s)' = k + 1
  <2>1. Latest(s) # {} /\ Latest(s)' # {} /\ Current(s) = worker[id] /\ Current(s)' = worker'[id]
    BY <1>1, <1>3, <1>4, RunningIsCurrent DEF Writes
  <2>2. Due(s) = k
    BY <1>2, <1>8, <2>1 DEF Due
  <2>3. worker'[id].batch = rest /\ worker'[id].next = next
    BY <1>1, <1>2, <1>7 DEF Writes
  <2>4. CASE n = 1
    <3>1. rest = <<>> /\ next = k + 1
      BY <1>2, <1>7, <1>8, <2>4
    <3> QED BY <2>1, <2>2, <2>3, <3>1 DEF Due
  <2>5. CASE n # 1
    <3>1. rest # <<>> /\ 1 \in 1 .. n - 1 /\ 2 \in 1 .. n
      BY <1>7, <2>5
    <3>2. rest[1] = batch[1 + 1] /\ Head(rest) = rest[1]
      BY <1>7, <3>1
    <3>3. PICK j \in Nat : j = batch[2] /\ j + n + 1 = next + 2
      BY <1>2, <3>1, ElementOfSeq
    <3>4. j = k + 1
      <4>1. k + n = next /\ j + n + 1 = next + 2
        BY <1>8, <3>3
      <4> QED BY <4>1
    <3>5. Head(rest) = k + 1
      <4>1. 1 + 1 = 2
        OBVIOUS
      <4> QED BY <3>2, <3>3, <3>4, <4>1
    <3> QED BY <2>1, <2>2, <2>3, <3>1, <3>5 DEF Due
  <2> QED BY <2>1, <2>2, <2>4, <2>5
<1>10. StreamInv'
  <2>1. ASSUME NEW x \in IDs PROVE Pending(worker[x])'
    <3>1. CASE x = id
      <4>1. worker'[x].next = next /\ worker'[x].batch = rest /\ head' = head
        BY <1>1, <1>2, <1>7, <3>1 DEF Writes
      <4>2. ASSUME NEW i \in 1 .. Len(rest) PROVE rest[i] + Len(rest) + 1 = next + i
        <5>1. i \in 1 .. n - 1 /\ i + 1 \in 1 .. n
          BY <1>7
        <5>2. PICK e \in Nat : e = rest[i] /\ e + n + 1 = next + (i + 1)
          BY <1>2, <1>7, <5>1, ElementOfSeq
        <5>3. e + (n - 1) + 1 = next + i
          <6>1. e + n + 1 = next + (i + 1) /\ i \in Nat
            BY <5>1, <5>2
          <6> QED BY <6>1
        <5> QED BY <1>7, <5>2, <5>3
      <4> QED BY <1>2, <4>1, <4>2 DEF Pending
    <3>2. CASE x # id
      BY <1>1, <3>2, PendingStays DEF Writes, Only, SameNext
    <3> QED BY <3>1, <3>2
  <2> QED BY <1>1, <1>6, <2>1 DEF StreamInv
<1>11. Shuts' = Shuts
  BY <1>6 DEF Shuts
<1>12. Dues[s] = k /\ Dues' = [Dues EXCEPT ![s] = @ + 1]
  BY <1>6, <1>9 DEF Dues
<1>13. CASE s = "file" /\ worker[id].file # logFile
  <2>1. out' = out
    BY <1>3, <1>13 DEF Write
  <2>2. s \in Shuts
    <3>1. Latest(s) # {}
      BY <1>1, <1>3, <1>4, RunningIsCurrent DEF Writes
    <3> QED BY <1>9, <1>13, <3>1 DEF Shuts, Shut
  <2>3. Stream!Lose(s)
    BY <1>1, <1>8, <1>11, <1>12, <2>1, <2>2 DEF Stream!Lose, Dues, Shuts
  <2> QED BY <1>3, <1>10, <2>3 DEF StreamStep, Stream!Next
<1>14. CASE ~(s = "file" /\ worker[id].file # logFile)
  <2>1. out' = [out EXCEPT ![s] = Append(@, k)]
    BY <1>2, <1>3, <1>8, <1>14 DEF Write
  <2>2. Stream!Write(s)
    BY <1>1, <1>8, <1>11, <1>12, <2>1 DEF Stream!Write, Dues, Shuts
  <2> QED BY <1>3, <1>10, <2>2 DEF StreamStep, Stream!Next
<1> QED BY <1>13, <1>14

(* The file is closed, renamed and opened anew. *)
LEMMA FileStep ==
  ASSUME LogInv, StreamInv, \A id \in IDs : Begun(id) /\ SameNext(id),
         UNCHANGED <<head, tail, gen, out>>
  PROVE  StreamStep
<1>1. \A s \in Sinks : HasLatest(s) /\ \A g \in Gens : Begun(<<g, s>>) /\ SameNext(<<g, s>>)
  BY DEF StreamInv, IDs
<1>2. \A s \in Sinks : Due(s)' = Due(s) /\ HasLatest(s)'
  BY <1>1, DueStays
<1>3. \A id \in IDs : Pending(worker[id])'
  BY PendingStays
<1>4. StreamInv'
  BY <1>2, <1>3 DEF StreamInv
<1>5. Dues' = Dues
  BY <1>2 DEF Dues
<1>6. Shuts' \in {Shuts \cup {"file"}, Shuts \ {"file"}} /\ "file" \in Sinks
  BY DEF Shuts, Shut, Sinks
<1>7. Stream!Rotate("file")
  BY <1>5, <1>6 DEF Stream!Rotate, Dues, Shuts
<1> QED BY <1>4, <1>6, <1>7 DEF StreamStep, Stream!Next

LEMMA BeginStep ==
  ASSUME LogInv, ActiveInv, StreamInv, NEW T, Begins(T), UNCHANGED <<head, tail, out>>
  PROVE  StreamStep
<1>1. gen \in Nat /\ head \in Nat /\ gen + 1 \in Gens /\ gen' = gen + 1 /\ T \subseteq Sinks
  BY DEF Begins, LogInv, TypeOK, Gens
<1>2. ASSUME NEW s \in T
      PROVE  Due(s)' = head /\ HasLatest(s)' /\ s \in Sinks
  <2>1. \A g \in Latest(s)' : g \in Nat /\ g <= gen + 1
    <3> TAKE g \in Latest(s)'
    <3>1. g \in Gens /\ g \in Nat /\ worker'[<<g, s>>].pc # "none"
      BY DEF Latest, Gens
    <3>2. CASE g # gen + 1
      <4>1. worker[<<g, s>>].pc # "none" /\ <<g, s>> \in IDs
        BY <1>1, <3>1, <3>2 DEF Begins, IDs
      <4>2. g <= gen
        BY <4>1 DEF ActiveInv
      <4> QED BY <1>1, <3>1, <4>2
    <3> QED BY <1>1, <3>1, <3>2
  <2>2. gen + 1 \in Latest(s)'
    BY <1>1 DEF Begins, Latest
  <2>3. (CHOOSE x \in Latest(s)' : \A h \in Latest(s)' : h <= x) = gen + 1
    BY <2>1, <2>2, Greatest
  <2>4. Current(s)' = worker'[<<gen + 1, s>>]
    BY <2>3 DEF Current
  <2>5. Current(s)'.batch = <<>> /\ Current(s)'.next = head
    BY <1>1, <2>4 DEF Begins
  <2> QED BY <1>1, <2>1, <2>2, <2>5 DEF Due, HasLatest
<1>3. ASSUME NEW s \in Sinks \ T
      PROVE  Due(s)' = Due(s) /\ HasLatest(s)'
  <2>1. \A g \in Gens : Begun(<<g, s>>) /\ SameNext(<<g, s>>)
    BY DEF Begins, Begun, SameNext
  <2> QED BY <2>1, DueStays DEF StreamInv
<1>4. ASSUME NEW id \in IDs PROVE Pending(worker[id])'
  <2>1. PICK g \in Gens, s \in Sinks : id = <<g, s>>
    BY DEF IDs
  <2>2. CASE g = gen + 1 /\ s \in T
    <3>1. worker'[id].next = head /\ worker'[id].batch = <<>>
      BY <2>1, <2>2 DEF Begins
    <3>2. 1 .. Len(<<>>) = {}
      OBVIOUS
    <3> QED BY <1>1, <3>1, <3>2 DEF Pending
  <2>3. CASE ~(g = gen + 1 /\ s \in T)
    <3>1. SameNext(id)
      BY <2>1, <2>3 DEF Begins, SameNext
    <3> QED BY <3>1, PendingStays
  <2> QED BY <2>2, <2>3
<1>5. StreamInv'
  BY <1>2, <1>3, <1>4 DEF StreamInv
<1>6. Dues' = [s \in Sinks |-> IF s \in T THEN head ELSE Dues[s]]
  BY <1>2, <1>3 DEF Dues
<1>7. Shuts' \in SUBSET Sinks
  BY DEF Shuts
<1>8. Stream!Attach
  BY <1>1, <1>6, <1>7 DEF Stream!Attach, Dues, Shuts
<1> QED BY <1>5, <1>8 DEF StreamStep, Stream!Next

LEMMA NextStream ==
  ASSUME LogInv, ActiveInv, StreamInv, [Next]_vars
  PROVE  StreamStep
<1>0. \A id \in IDs : /\ worker' = worker => Still(id)
                      /\ Roused(id) => Still(id)
                      /\ Still(id) => Begun(id) /\ SameNext(id)
  BY DEF Still, Begun, Roused, SameNext, SameFile
<1>1. ASSUME NEW g \in Loggers, Log(g) PROVE StreamStep
  BY <1>0, <1>1, QuietStep DEF Log, ring, fileVs
<1>2. ASSUME NEW g \in Loggers, Enqueue(g) PROVE StreamStep
  BY <1>2, PushStep DEF Enqueue, fileVs
<1>3. ASSUME NEW id \in IDs, Park(id) \/ Stop(id) PROVE StreamStep
  <2>1. Still(id) /\ Only(id)
    BY <1>3, ParkTurns DEF Turns, Still, Begun
  <2>2. \A x \in IDs : Still(x)
    BY <2>1 DEF Only, Still, Begun, SameNext, SameFile
  <2>3. UNCHANGED <<head, tail, gen, logFile, out>>
    BY <1>3 DEF Park, Stop, WorkerOnly, ring, fileVs
  <2> QED BY <2>2, <2>3, QuietStep
<1>4. ASSUME NEW id \in IDs, Collect(id) \/ Write(id) PROVE StreamStep
  BY <1>4, CollectStream, WriteStream
<1>5. ASSUME NEW pc, CallStop(pc) PROVE StreamStep
  <2>1. \A id \in IDs : Still(id)
    BY <1>0, <1>5, CallStopRouses
  <2>2. UNCHANGED <<head, tail, gen, logFile, out>>
    BY <1>5 DEF CallStop, ring, fileVs
  <2> QED BY <2>1, <2>2, QuietStep
<1>6. CASE ConfigureRest
  <2>1. PICK T : Begins(T)
    BY <1>6, ReplaceBegins DEF ConfigureRest, LogInv, CallerInv
  <2>2. UNCHANGED <<head, tail, out>>
    BY <1>6 DEF ConfigureRest, ring
  <2> QED BY <2>1, <2>2, BeginStep
<1>7. CASE Warn
  BY <1>7, PushStep DEF Warn, fileVs
<1>8. CASE CloseRest \/ \E g \in Gens : Rotate(g) \/ Reopen(g)
  <2>1. \A id \in IDs : Begun(id) /\ SameNext(id)
    BY <1>0, <1>8, ReopenSame DEF CloseRest, Rotate, Begun
  <2>2. UNCHANGED <<head, tail, gen, out>>
    BY <1>8 DEF CloseRest, Rotate, Reopen, ring
  <2> QED BY <2>1, <2>2, FileStep
<1>9. ASSUME NEW g \in Gens, EndWatcher(g) PROVE StreamStep
  BY <1>0, <1>9, QuietStep DEF EndWatcher, ring, fileVs
<1>10. CASE UNCHANGED vars
  BY <1>0, <1>10, QuietStep DEF vars, ring, fileVs
<1> QED BY <1>1, <1>2, <1>3, <1>4, <1>5, <1>6, <1>7, <1>8, <1>9, <1>10, NextCases

LEMMA InitStream ==
  ASSUME Init
  PROVE  StreamInv /\ Stream!Init
<1>1. /\ workers = {<<1, "console">>} /\ head = 0 /\ tail = 0 /\ logFile = 0 /\ gen = 1
      /\ worker = [id \in IDs |-> IF id \in workers THEN [NoWorker EXCEPT !.pc = "wait"] ELSE NoWorker]
      /\ out = [s \in Sinks |-> <<>>]
  BY DEF Init
<1>2. ASSUME NEW id \in IDs
      PROVE  /\ worker[id].pc # "none" => id = <<1, "console">>
             /\ worker[id].batch = <<>> /\ worker[id].next = 0
  <2>1. CASE id \in workers
    BY <1>1, <2>1 DEF NoWorker
  <2>2. CASE id \notin workers
    BY <1>1, <2>2 DEF NoWorker
  <2> QED BY <2>1, <2>2
<1>3. ASSUME NEW s \in Sinks
      PROVE  /\ HasLatest(s) /\ Due(s) = 0 /\ ~Shut(s)
  <2>1. Latest(s) \subseteq {1} /\ (Latest(s) # {} => s = "console")
    BY <1>2 DEF Latest, IDs
  <2>2. HasLatest(s)
    BY <2>1 DEF HasLatest
  <2>3. Due(s) = 0
    <3>1. CASE Latest(s) = {}
      BY <3>1 DEF Due
    <3>2. CASE Latest(s) # {}
      <4>1. 1 \in Latest(s) /\ 1 \in Gens /\ \A h \in Latest(s) : h <= 1
        <5>1. Latest(s) = {1}
          BY <2>1, <3>2
        <5>2. \A h \in Latest(s) : h \in Gens
          BY DEF Latest
        <5> QED BY <5>1, <5>2
      <4>2. Latest(s) \in SUBSET Nat
        BY <2>1
      <4>3. Current(s) = worker[<<1, s>>]
        BY <4>1, <4>2, Greatest DEF Current
      <4>4. Current(s).batch = <<>> /\ Current(s).next = 0
        BY <1>2, <4>1, <4>3 DEF IDs
      <4> QED BY <3>2, <4>4 DEF Due
    <3> QED BY <3>1, <3>2
  <2> QED BY <2>1, <2>2, <2>3 DEF Shut
<1>4. ASSUME NEW id \in IDs PROVE Pending(worker[id])
  <2>1. 1 .. Len(<<>>) = {}
    OBVIOUS
  <2> QED BY <1>1, <1>2, <2>1 DEF Pending
<1>5. StreamInv
  BY <1>1, <1>3, <1>4 DEF StreamInv
<1>6. Stream!Init
  BY <1>1, <1>3 DEF Stream!Init
<1> QED BY <1>5, <1>6

(* Every sink writes the stream of the events: in order, none twice, and    *)
(* none left out that the ring still held, for any capacity, any number of  *)
(* goroutines that log, of sinks replaced and of files rotated (enqueue,    *)
(* sinkWorker.run, Configure, RotateFileIfNeeded).                          *)
THEOREM StreamImplemented == Spec => ImplementsStream
<1>1. StreamStep => StreamInv' /\ [Stream!Next]_(Stream!streamVars)
  BY DEF StreamStep, Stream!streamVars, Dues, Shuts
<1>2. LogInv /\ ActiveInv /\ StreamInv /\ [Next]_vars
        => StreamInv' /\ [Stream!Next]_(Stream!streamVars)
  BY <1>1, NextStream
<1>3. Init => StreamInv /\ Stream!Init
  BY InitStream
<1> QED BY <1>2, <1>3, ActiveInductive, Invariant, PTL DEF Spec, ImplementsStream, Stream!Spec
-----------------------------------------------------------------------------
(* What LogStream is worth to the reader of a sink, and with it Logging. *)

\* the sinks whose next event changes, and that write none
LEMMA DueForward ==
  ASSUME Stream!OrderInv, head' = head, out' = out, NEW due \in [Sinks -> Nat], Dues' = due,
         \A s \in Sinks : Dues[s] <= due[s] /\ due[s] <= head
  PROVE  Stream!OrderInv'
<1>1. head \in Nat /\ Dues \in [Sinks -> Nat] /\ out \in [Sinks -> Seq(Nat)] /\ Stream!InOrder
      /\ \A s \in Sinks : \A i \in 1 .. Len(out[s]) : out[s][i] < Dues[s]
  BY DEF Stream!OrderInv, Dues
<1>2. Stream!InOrder'
  BY <1>1 DEF Stream!InOrder
<1>3. ASSUME NEW s \in Sinks, NEW i \in 1 .. Len(out[s]) PROVE out[s][i] < due[s]
  <2>1. PICK k \in Nat : k = out[s][i]
    BY <1>1, ElementOfSeq
  <2>2. k < Dues[s] /\ Dues[s] \in Nat /\ due[s] \in Nat /\ Dues[s] <= due[s]
    BY <1>1, <2>1
  <2> QED BY <2>1, <2>2
<1> QED BY <1>1, <1>2, <1>3 DEF Stream!OrderInv, Dues

LEMMA WriteInOrder ==
  ASSUME Stream!OrderInv, NEW s \in Sinks, Stream!Write(s)
  PROVE  Stream!OrderInv'
<1>1. /\ head \in Nat /\ Dues \in [Sinks -> Nat] /\ out \in [Sinks -> Seq(Nat)]
      /\ \A t \in Sinks : Dues[t] <= head /\ \A i \in 1 .. Len(out[t]) : out[t][i] < Dues[t]
      /\ \A t \in Sinks : \A i \in 1 .. Len(out[t]) : out[t][i] < head
      /\ \A t \in Sinks : \A i, j \in 1 .. Len(out[t]) : i < j => out[t][i] < out[t][j]
  BY DEF Stream!OrderInv, Stream!InOrder, Dues
<1>2. /\ Dues[s] < head /\ Dues' = [Dues EXCEPT ![s] = @ + 1] /\ head' = head
      /\ out' = [out EXCEPT ![s] = Append(@, Dues[s])]
  BY DEF Stream!Write, Dues
<1>3. PICK old \in Seq(Nat), d \in Nat : old = out[s] /\ d = Dues[s] /\ d < head
  BY <1>1, <1>2
<1>4. PICK n \in Nat : n = Len(old)
  BY LenProperties
<1>5. PICK new \in Seq(Nat) : /\ new = Append(old, d) /\ Len(new) = n + 1 /\ new[n + 1] = d
                              /\ \A i \in 1 .. n : new[i] = old[i]
  <2>1. /\ Append(old, d) \in Seq(Nat) /\ Len(Append(old, d)) = Len(old) + 1
        /\ \A i \in 1 .. Len(old) : Append(old, d)[i] = old[i]
        /\ Append(old, d)[Len(old) + 1] = d
    BY AppendProperties
  <2> QED BY <1>4, <2>1
<1>6. \A i \in 1 .. n + 1 : new[i] < d + 1 /\ new[i] < head
  <2> TAKE i \in 1 .. n + 1
  <2>1. CASE i = n + 1
    BY <1>1, <1>3, <1>5, <2>1
  <2>2. CASE i # n + 1
    <3>1. i \in 1 .. n
      BY <2>2
    <3>2. PICK k \in Nat : k = old[i] /\ k < d
      BY <1>1, <1>3, <1>4, <3>1, ElementOfSeq
    <3>3. k < d + 1 /\ k < head
      BY <1>1, <1>3, <3>2
    <3> QED BY <1>5, <3>1, <3>2, <3>3
  <2> QED BY <2>1, <2>2
<1>7. \A i, j \in 1 .. n + 1 : i < j => new[i] < new[j]
  <2> SUFFICES ASSUME NEW i \in 1 .. n + 1, NEW j \in 1 .. n + 1, i < j PROVE new[i] < new[j]
    OBVIOUS
  <2>1. i \in 1 .. n /\ new[i] = old[i]
    BY <1>5
  <2>2. CASE j = n + 1
    BY <1>1, <1>3, <1>4, <1>5, <2>1, <2>2
  <2>3. CASE j # n + 1
    <3>1. j \in 1 .. n
      BY <2>3
    <3> QED BY <1>1, <1>3, <1>4, <1>5, <2>1, <3>1
  <2> QED BY <2>2, <2>3
<1>8. /\ Dues'[s] = d + 1 /\ out'[s] = new /\ Len(out'[s]) = n + 1
      /\ \A t \in Sinks \ {s} : Dues'[t] = Dues[t] /\ out'[t] = out[t]
      /\ Dues' \in [Sinks -> Nat] /\ out' \in [Sinks -> Seq(Nat)]
  BY <1>1, <1>2, <1>3, <1>5
<1>9. ASSUME NEW t \in Sinks
      PROVE  /\ Dues'[t] <= head' /\ \A i \in 1 .. Len(out'[t]) : out'[t][i] < Dues'[t]
             /\ \A i \in 1 .. Len(out'[t]) : out'[t][i] < head'
             /\ \A i, j \in 1 .. Len(out'[t]) : i < j => out'[t][i] < out'[t][j]
  <2>1. CASE t = s
    <3>1. d + 1 <= head
      BY <1>1, <1>3
    <3>2. \A i \in 1 .. n + 1 : new[i] < d + 1 /\ new[i] < head
      BY <1>6
    <3>3. head' = head
      BY <1>2
    <3> QED BY <1>7, <1>8, <2>1, <3>1, <3>2, <3>3
  <2>2. CASE t # s
    BY <1>1, <1>2, <1>8, <2>2
  <2> QED BY <2>1, <2>2
<1> QED BY <1>1, <1>2, <1>8, <1>9 DEF Stream!OrderInv, Stream!InOrder, Dues

LEMMA StreamInOrder ==
  ASSUME Stream!OrderInv, [Stream!Next]_(Stream!streamVars)
  PROVE  Stream!OrderInv'
<1>1. /\ head \in Nat /\ Dues \in [Sinks -> Nat] /\ out \in [Sinks -> Seq(Nat)]
      /\ \A s \in Sinks : Dues[s] <= head
  BY DEF Stream!OrderInv, Dues
<1>2. CASE Stream!Log
  <2>1. head' = head + 1 /\ Dues' = Dues /\ out' = out
    BY <1>2 DEF Stream!Log, Dues
  <2>2. \A s \in Sinks : Dues'[s] <= head' /\ \A i \in 1 .. Len(out[s]) : out[s][i] < Dues[s]
    BY <1>1, <2>1 DEF Stream!OrderInv, Dues
  <2>3. ASSUME NEW s \in Sinks, NEW i \in 1 .. Len(out[s]) PROVE out[s][i] < head + 1
    <3>1. PICK k \in Nat : k = out[s][i]
      BY <1>1, ElementOfSeq
    <3>2. k < Dues[s] /\ Dues[s] \in Nat /\ Dues[s] <= head
      BY <1>1, <2>2, <3>1
    <3> QED BY <1>1, <3>1, <3>2
  <2>4. Stream!InOrder'
    BY <2>1, <2>3 DEF Stream!OrderInv, Stream!InOrder
  <2> QED BY <1>1, <2>1, <2>2, <2>4 DEF Stream!OrderInv, Dues
<1>3. CASE Stream!Attach
  <2>1. PICK T \in SUBSET Sinks : Dues' = [s \in Sinks |-> IF s \in T THEN head ELSE Dues[s]]
    BY <1>3 DEF Stream!Attach, Dues
  <2>2. PICK due : due = [s \in Sinks |-> IF s \in T THEN head ELSE Dues[s]]
    OBVIOUS
  <2>3. due \in [Sinks -> Nat] /\ \A s \in Sinks : Dues[s] <= due[s] /\ due[s] <= head
    BY <1>1, <2>2
  <2> QED BY <1>3, <2>1, <2>2, <2>3, DueForward DEF Stream!Attach
<1>4. ASSUME NEW s \in Sinks, Stream!Write(s) PROVE Stream!OrderInv'
  BY <1>4, WriteInOrder
<1>5. ASSUME NEW s \in Sinks, Stream!Miss(s) \/ Stream!Lose(s) PROVE Stream!OrderInv'
  <2>1. PICK next \in Nat : /\ Dues' = [Dues EXCEPT ![s] = next]
                            /\ Dues[s] <= next /\ next <= head
    <3>1. PICK d \in Nat, h \in Nat : d = Dues[s] /\ h = head
      BY <1>1
    <3>2. CASE Stream!Miss(s)
      <4>1. PICK next \in d + 1 .. h : Dues' = [Dues EXCEPT ![s] = next]
        BY <3>1, <3>2 DEF Stream!Miss, Dues
      <4>2. next \in Nat /\ d <= next /\ next <= h
        BY <3>1
      <4> QED BY <3>1, <4>1, <4>2
    <3>3. CASE Stream!Lose(s)
      <4>1. d < h /\ Dues' = [Dues EXCEPT ![s] = @ + 1]
        BY <3>1, <3>3 DEF Stream!Lose, Dues
      <4>2. Dues' = [Dues EXCEPT ![s] = d + 1]
        BY <1>1, <3>1, <4>1
      <4>3. d + 1 \in Nat /\ d <= d + 1 /\ d + 1 <= h
        BY <3>1, <4>1
      <4> QED BY <3>1, <4>2, <4>3
    <3> QED BY <1>5, <3>2, <3>3
  <2>2. PICK due : due = [Dues EXCEPT ![s] = next]
    OBVIOUS
  <2>3. due \in [Sinks -> Nat] /\ \A t \in Sinks : Dues[t] <= due[t] /\ due[t] <= head
    BY <1>1, <2>1, <2>2
  <2>4. head' = head /\ out' = out
    BY <1>5 DEF Stream!Miss, Stream!Lose
  <2> QED BY <2>1, <2>2, <2>3, <2>4, DueForward
<1>6. CASE (\E s \in Sinks : Stream!Rotate(s)) \/ UNCHANGED Stream!streamVars
  <2>1. head' = head /\ out' = out /\ Dues' = Dues
    BY <1>6 DEF Stream!Rotate, Stream!streamVars, Dues
  <2>2. \A s \in Sinks : Dues[s] <= Dues[s]
    BY <1>1
  <2> QED BY <1>1, <2>1, <2>2, DueForward
<1> QED BY <1>2, <1>3, <1>4, <1>5, <1>6 DEF Stream!Next

(* The numbers that a sink has written only go up, and none was written     *)
(* before it was logged: this follows from LogStream, which Logging         *)
(* implements, across overflows, reconfigurations and rotations             *)
(* (sinkWorker.run, Configure, RotateFileIfNeeded).                         *)
THEOREM OutputsInOrder == Spec => []Stream!InOrder
<1>1. Stream!Init => Stream!OrderInv
  <2>1. \A s \in Sinks : 1 .. Len(<<>>) = {}
    OBVIOUS
  <2> QED BY <2>1 DEF Stream!Init, Stream!OrderInv, Stream!InOrder
<1>2. Stream!OrderInv /\ [Stream!Next]_(Stream!streamVars) => Stream!OrderInv'
  BY StreamInOrder
<1>3. Stream!OrderInv => Stream!InOrder
  BY DEF Stream!OrderInv
<1> QED BY <1>1, <1>2, <1>3, StreamImplemented, PTL DEF ImplementsStream, Stream!Spec
=============================================================================
