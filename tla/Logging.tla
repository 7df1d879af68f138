------------------------------ MODULE Logging -------------------------------
(***************************************************************************)
(* internal/logging: the ring of events, a worker goroutine per sink, the  *)
(* manager that replaces them at run time, and the watcher that rotates    *)
(* the log file.                                                           *)
(*                                                                         *)
(* An event is its sequence number; levels, formatting and the throttled   *)
(* warning on stderr are left out.  Everything done under Manager.mu       *)
(* without a pause is one step.  Configure and Close have one caller, main. *)
(***************************************************************************)
EXTENDS Naturals, Sequences, FiniteSets

CONSTANTS
  Loggers,       \* goroutines that log
  Cap,           \* ringCapacity
  Configs,       \* what Configure may be called with
  MaxFiles,      \* FileMaxFiles; 0 keeps every rotated file
  OpenFails,     \* may opening the log file fail?
  MaxEvents,     \* bound: events logged
  MaxGen,        \* bound: calls of Configure, that of init included
  MaxRotations,  \* bound: rotations
  NoEvent,       \* what a slot holds that was never written
  Free           \* nobody holds the mutex

Sinks == {"console", "file", "syslog"}

ASSUME LoggingAssumption ==
  /\ Cap \in Nat \ {0}
  /\ Configs \subseteq [sinks : SUBSET Sinks, rotate : BOOLEAN]
  /\ MaxFiles \in Nat
  /\ OpenFails \in BOOLEAN
  /\ MaxEvents \in Nat /\ MaxGen \in Nat \ {0} /\ MaxRotations \in Nat
  /\ NoEvent \notin Nat /\ Free \notin Nat

VARIABLES
  mu,            \* Manager.mu: Free, or the watcher that keeps it
  buf,           \* ring.buf: the event in each slot
  head,          \* ring.head: number of the next event
  tail,          \* ring.tail: the oldest one kept
  worker,        \* sinkWorker per call of Configure and sink
  workers,       \* Manager.workers
  workersDone,
  gen,           \* calls of Configure
  config,
  logFile,       \* the open file, numbered; 0 is nil
  files,         \* how many have been opened
  rotationStop,  \* the watcher that is to go on; 0 is nil
  watcher,       \* goroutine of startRotationWatcherLocked, per Configure
  rotated,       \* rotated files on disk
  rotations,
  caller,        \* main, in Configure or Close
  logger,        \* per goroutine, whether it is in enqueue
  out            \* history: the events each sink has written

ring   == <<buf, head, tail>>
fileVs == <<logFile, files, rotated, rotations>>
vars == <<mu, buf, head, tail, worker, workers, workersDone, gen, config, logFile, files,
          rotationStop, watcher, rotated, rotations, caller, logger, out>>

Gens == 1 .. MaxGen
IDs  == Gens \X Sinks
Sink(id) == id[2]

Worker ==
  [pc : {"none", "wait", "parked", "write", "stopped"},
   next : Nat, missed : Nat, batch : Seq(Nat), file : Nat,
   start : Nat, taken : Nat, goal : Nat]   \* history: first event, events taken, head when told to stop

NoWorker == [pc |-> "none", next |-> 0, missed |-> 0, batch |-> <<>>, file |-> 0,
             start |-> 0, taken |-> 0, goal |-> 0]
-----------------------------------------------------------------------------
(* The ring *)

\* mutated: an event too many is kept
FullOffByOne == head - tail > Cap

Full == head - tail >= Cap

(* push and accountEvictionLocked, then the Broadcast of enqueue *)
Woken(w) == IF w.pc = "parked" THEN [w EXCEPT !.pc = "wait"] ELSE w
Missing(id) == Full /\ id \in workers /\ worker[id].next <= tail

\* mutated: enqueue without its Broadcast
PushQuietly ==
  /\ buf' = [buf EXCEPT ![head % Cap] = head]
  /\ tail' = IF Full THEN tail + 1 ELSE tail
  /\ head' = head + 1
  /\ worker' = [id \in IDs |-> IF Missing(id) THEN [worker[id] EXCEPT !.missed = @ + 1]
                               ELSE worker[id]]

Push ==
  /\ buf' = [buf EXCEPT ![head % Cap] = head]
  /\ tail' = IF Full THEN tail + 1 ELSE tail
  /\ head' = head + 1
  /\ worker' = [id \in IDs |-> IF Missing(id) THEN Woken([worker[id] EXCEPT !.missed = @ + 1])
                               ELSE Woken(worker[id])]
-----------------------------------------------------------------------------
(* Goroutines that log: ringEnqueueHandler.Handle or Manager.log *)

Log(g) ==
  /\ logger[g] = "idle"
  /\ head + Cardinality({h \in Loggers : logger[h] # "idle"}) < MaxEvents
  /\ logger' = [logger EXCEPT ![g] = "enqueue"]
  /\ UNCHANGED <<mu, ring, worker, workers, workersDone, gen, config, fileVs, rotationStop,
                 watcher, caller, out>>

Enqueue(g) ==
  /\ logger[g] = "enqueue" /\ mu = Free
  /\ Push
  /\ logger' = [logger EXCEPT ![g] = "idle"]
  /\ UNCHANGED <<mu, workers, workersDone, gen, config, fileVs, rotationStop, watcher,
                 caller, out>>
-----------------------------------------------------------------------------
(* sinkWorker.run *)

Awake(id) == worker[id].pc = "wait" /\ mu = Free
WorkerOnly == UNCHANGED <<mu, ring, workers, workersDone, gen, config, fileVs, rotationStop,
                          watcher, caller, logger>>

Park(id) ==
  /\ Awake(id) /\ worker[id].next >= head /\ ~workersDone
  /\ worker' = [worker EXCEPT ![id].pc = "parked"]
  /\ WorkerOnly /\ UNCHANGED out

\* mutated: told to stop, it leaves events behind
StopAtOnce(id) ==
  /\ Awake(id) /\ workersDone
  /\ worker' = [worker EXCEPT ![id].pc = "stopped"]
  /\ WorkerOnly /\ UNCHANGED out

Stop(id) ==
  /\ Awake(id) /\ worker[id].next >= head /\ workersDone
  /\ worker' = [worker EXCEPT ![id].pc = "stopped"]
  /\ WorkerOnly /\ UNCHANGED out

\* mutated: it reads one event too many
CollectPastHead(id) ==
  /\ Awake(id) /\ worker[id].next < head
  /\ LET w    == worker[id]
         from == IF w.next < tail THEN tail ELSE w.next
     IN  worker' = [worker EXCEPT ![id] =
                      [w EXCEPT !.pc = "write", !.next = head + 1,
                                !.missed = @ + (from - w.next),
                                !.batch = [i \in 1 .. head - from + 1 |-> buf[(from + i - 1) % Cap]],
                                !.taken = @ + (head - from)]]
  /\ WorkerOnly /\ UNCHANGED out

\* mutated: the events it was too late for are not counted
CollectUncounted(id) ==
  /\ Awake(id) /\ worker[id].next < head
  /\ LET w    == worker[id]
         from == IF w.next < tail THEN tail ELSE w.next
     IN  worker' = [worker EXCEPT ![id] =
                      [w EXCEPT !.pc = "write", !.next = head,
                                !.batch = [i \in 1 .. head - from |-> buf[(from + i - 1) % Cap]],
                                !.taken = @ + (head - from)]]
  /\ WorkerOnly /\ UNCHANGED out

(* the cursor snaps to the tail, and all that is left becomes the batch *)
Collect(id) ==
  /\ Awake(id) /\ worker[id].next < head
  /\ LET w    == worker[id]
         from == IF w.next < tail THEN tail ELSE w.next
     IN  worker' = [worker EXCEPT ![id] =
                      [w EXCEPT !.pc = "write", !.next = head,
                                !.missed = @ + (from - w.next),
                                !.batch = [i \in 1 .. head - from |-> buf[(from + i - 1) % Cap]],
                                !.taken = @ + (head - from)]]
  /\ WorkerOnly /\ UNCHANGED out

(* One event is formatted and written outside the mutex.  The error of a    *)
(* write to a file that has been closed is dropped.                         *)
Write(id) ==
  /\ worker[id].pc = "write"
  /\ LET w == worker[id] IN
     /\ worker' = [worker EXCEPT ![id] =
                     [w EXCEPT !.batch = Tail(@),
                               !.pc = IF Len(w.batch) = 1 THEN "wait" ELSE "write"]]
     /\ out' = IF Sink(id) = "file" /\ w.file # logFile THEN out
               ELSE [out EXCEPT ![Sink(id)] = Append(@, Head(w.batch))]
  /\ WorkerOnly
-----------------------------------------------------------------------------
(* Configure and Close *)

\* mutated: the parked workers are not woken
StopWorkersQuietly ==
  /\ workersDone' = TRUE
  /\ worker' = [id \in IDs |-> IF id \in workers THEN [worker[id] EXCEPT !.goal = head]
                               ELSE worker[id]]
  /\ workers' = {}

(* stopRotationWatcherLocked and stopWorkersLocked up to its Unlock.  There *)
(* are workers: Configure leaves one at least and Close comes last.         *)
StopWorkers ==
  /\ workersDone' = TRUE
  /\ worker' = [id \in IDs |-> IF id \in workers THEN Woken([worker[id] EXCEPT !.goal = head])
                               ELSE Woken(worker[id])]
  /\ workers' = {}

CallStop(pc) ==
  /\ caller.pc = "idle" /\ mu = Free
  /\ StopWorkers
  /\ rotationStop' = 0
  /\ caller' = [pc |-> pc, wait |-> workers]
  /\ UNCHANGED <<mu, ring, gen, config, fileVs, watcher, logger, out>>

Configure == gen < MaxGen /\ CallStop("configure")
Close     == CallStop("close")

\* mutated: it goes on without waiting for the workers
StoppedUnchecked == mu = Free

(* they have all closed their channel, and the mutex is taken again *)
Stopped == mu = Free /\ \A id \in caller.wait : worker[id].pc = "stopped"

(* Outputs are replaced, workers begin with the next event; without an      *)
(* output there is the console.                                             *)
Replace(cfg, fails) ==
  LET opens == "file" \in cfg.sinks /\ ~fails
      found == IF fails THEN cfg.sinks \ {"file"} ELSE cfg.sinks
      sinks == IF found = {} THEN {"console"} ELSE found
  IN  /\ gen' = gen + 1
      /\ config' = cfg
      /\ workersDone' = FALSE
      /\ files' = IF opens THEN files + 1 ELSE files
      /\ logFile' = IF opens THEN files + 1 ELSE 0
      /\ workers' = {<<gen + 1, s>> : s \in sinks}
      /\ worker' = [id \in IDs |->
           IF id \in workers'
           THEN [NoWorker EXCEPT !.pc = "wait", !.next = head, !.start = head,
                                 !.file = IF Sink(id) = "file" THEN files + 1 ELSE 0]
           ELSE worker[id]]
      /\ rotationStop' = IF opens /\ cfg.rotate THEN gen + 1 ELSE 0
      /\ watcher' = [watcher EXCEPT ![gen + 1] = IF opens /\ cfg.rotate THEN "on" ELSE "none"]

ConfigureRest ==
  /\ caller.pc = "configure" /\ Stopped
  /\ \E cfg \in Configs : \E fails \in BOOLEAN :
       /\ fails => OpenFails /\ "file" \in cfg.sinks
       /\ Replace(cfg, fails)
       /\ caller' = [pc |-> IF fails THEN "warn" ELSE "idle", wait |-> {}]
  /\ UNCHANGED <<mu, ring, rotated, rotations, logger, out>>

(* the warning about the output that could not be opened *)
Warn ==
  /\ caller.pc = "warn" /\ mu = Free
  /\ Push
  /\ caller' = [caller EXCEPT !.pc = "idle"]
  /\ UNCHANGED <<mu, workers, workersDone, gen, config, fileVs, rotationStop, watcher,
                 logger, out>>

CloseRest ==
  /\ caller.pc = "close" /\ Stopped
  /\ workersDone' = FALSE
  /\ logFile' = 0
  /\ caller' = [pc |-> "closed", wait |-> {}]
  /\ UNCHANGED <<mu, ring, worker, workers, gen, config, files, rotationStop, watcher, rotated,
                 rotations, logger, out>>
-----------------------------------------------------------------------------
(* The rotation watcher *)

(* A tick, even one chosen after stop was closed, finds the file too large: *)
(* it is closed and renamed.                                                *)
Rotate(g) ==
  /\ watcher[g] = "on" /\ mu = Free
  /\ logFile # 0 /\ config.rotate /\ rotations < MaxRotations
  /\ mu' = g
  /\ logFile' = 0
  /\ rotated' = rotated + 1
  /\ rotations' = rotations + 1
  /\ watcher' = [watcher EXCEPT ![g] = "reopen"]
  /\ UNCHANGED <<ring, worker, workers, workersDone, gen, config, files, rotationStop, caller,
                 logger, out>>

\* mutated: the worker keeps the closed file
ReopenKeepsHandler(g) ==
  /\ watcher[g] = "reopen"
  /\ logFile' = files + 1 /\ files' = files + 1
  /\ watcher' = [watcher EXCEPT ![g] = "on"] /\ mu' = Free
  /\ UNCHANGED <<ring, worker, workers, workersDone, gen, config, rotationStop, rotated,
                 rotations, caller, logger, out>>

(* A new file; the file sink's handler writes to it.  The log.Printf calls  *)
(* of a failed open and of every file cleaned up are events like any other: *)
(* they enter enqueue, with the mutex held by this very goroutine, and that *)
(* is where it stays ("stuck").                                             *)
Reopen(g) ==
  /\ watcher[g] = "reopen"
  /\ \/ /\ logFile' = files + 1 /\ files' = files + 1
        /\ worker' = [id \in IDs |-> IF id \in workers /\ Sink(id) = "file"
                                     THEN [worker[id] EXCEPT !.file = files + 1] ELSE worker[id]]
        /\ IF MaxFiles > 0 /\ rotated > MaxFiles
           THEN watcher' = [watcher EXCEPT ![g] = "stuck"] /\ UNCHANGED mu
           ELSE watcher' = [watcher EXCEPT ![g] = "on"] /\ mu' = Free
     \/ /\ OpenFails
        /\ watcher' = [watcher EXCEPT ![g] = "stuck"]
        /\ UNCHANGED <<mu, worker, logFile, files>>
  /\ UNCHANGED <<ring, workers, workersDone, gen, config, rotationStop, rotated, rotations,
                 caller, logger, out>>

EndWatcher(g) ==
  /\ watcher[g] = "on" /\ rotationStop # g
  /\ watcher' = [watcher EXCEPT ![g] = "ended"]
  /\ UNCHANGED <<mu, ring, worker, workers, workersDone, gen, config, fileVs, rotationStop,
                 caller, logger, out>>
-----------------------------------------------------------------------------
(* after init: Configure with the defaults has run, with the console alone *)
Init ==
  /\ mu = Free
  /\ buf = [i \in 0 .. Cap - 1 |-> NoEvent]
  /\ head = 0 /\ tail = 0
  /\ gen = 1
  /\ workers = {<<1, "console">>}
  /\ worker = [id \in IDs |-> IF id \in workers THEN [NoWorker EXCEPT !.pc = "wait"] ELSE NoWorker]
  /\ workersDone = FALSE
  /\ config = [sinks |-> {"console"}, rotate |-> TRUE]
  /\ logFile = 0 /\ files = 0 /\ rotated = 0 /\ rotations = 0
  /\ rotationStop = 0
  /\ watcher = [g \in Gens |-> "none"]
  /\ caller = [pc |-> "idle", wait |-> {}]
  /\ logger = [g \in Loggers |-> "idle"]
  /\ out = [s \in Sinks |-> <<>>]

WorkerStep(id) == Park(id) \/ Stop(id) \/ Collect(id) \/ Write(id)
CallerStep     == ConfigureRest \/ Warn \/ CloseRest
WatcherStep(g) == Reopen(g) \/ EndWatcher(g)

(* nothing is logged and main does nothing: the only states to rest in *)
Rest ==
  /\ \A g \in Loggers : logger[g] = "idle"
  /\ caller.pc \in {"idle", "closed"}
  /\ UNCHANGED vars

Next ==
  \/ \E g \in Loggers : Log(g) \/ Enqueue(g)
  \/ \E id \in IDs : WorkerStep(id)
  \/ Configure \/ Close \/ CallerStep
  \/ \E g \in Gens : Rotate(g) \/ WatcherStep(g)
  \/ Rest

Spec == Init /\ [][Next]_vars

(* Goroutines run and writes return.  Whoever waits for the mutex gets it   *)
(* in the end: the watcher takes it finitely often between two ticks.       *)
FairSpec ==
  /\ Spec
  /\ \A g \in Loggers : WF_vars(Enqueue(g))
  /\ \A id \in IDs : WF_vars(WorkerStep(id))
  /\ WF_vars(CallerStep)
  /\ \A g \in Gens : WF_vars(WatcherStep(g))
-----------------------------------------------------------------------------
TypeOK ==
  /\ mu \in Gens \cup {Free}
  /\ buf \in [0 .. Cap - 1 -> Nat \cup {NoEvent}]
  /\ head \in Nat /\ tail \in Nat
  /\ worker \in [IDs -> Worker]
  /\ workers \subseteq IDs
  /\ workersDone \in BOOLEAN
  /\ gen \in Gens
  /\ config \in [sinks : SUBSET Sinks, rotate : BOOLEAN]
  /\ logFile \in Nat /\ files \in Nat /\ rotated \in Nat /\ rotations \in Nat
  /\ rotationStop \in Gens \cup {0}
  /\ watcher \in [Gens -> {"none", "on", "reopen", "stuck", "ended"}]
  /\ caller \in [pc : {"idle", "configure", "warn", "close", "closed"}, wait : SUBSET IDs]
  /\ logger \in [Loggers -> {"idle", "enqueue"}]
  /\ out \in [Sinks -> Seq(Nat)]

(* get(seq) finds event seq for every seq from tail to head, however often  *)
(* the ring has wrapped around (eventRing.push, get).                       *)
RingHoldsWindow ==
  /\ head - tail <= Cap /\ tail <= head
  /\ \A seq \in tail .. head - 1 : buf[seq % Cap] = seq

(* A worker that has been told to stop writes all that was logged before    *)
(* (run, stopWorkersLocked: "shuts down all log outputs cleanly").          *)
StoppedDrained ==
  \A id \in IDs : worker[id].pc = "stopped" =>
    worker[id].next >= worker[id].goal /\ worker[id].batch = <<>>

(* Whenever the mutex is free, the file sink writes to the file that is     *)
(* open, after any rotation and any reconfiguration (RotateFileIfNeeded).   *)
HandlerIsCurrent ==
  mu = Free => \A id \in workers : Sink(id) = "file" => worker[id].file = logFile

(* The counter of a sink misses no loss: what was overwritten before the    *)
(* worker read it is in missed, at the latest when it reads again, also     *)
(* while it is being replaced (accountEvictionLocked, run).                 *)
Skipped(id) == worker[id].next - worker[id].start - worker[id].taken
Overrun(id) == IF worker[id].next < tail THEN tail - worker[id].next ELSE 0
MissedCountsLosses ==
  \A id \in IDs :
    /\ worker[id].missed >= Skipped(id)
    /\ id \in workers => worker[id].missed >= Skipped(id) + Overrun(id)

(* The sinks write the stream that LogStream describes: nothing twice,      *)
(* nothing out of order, nothing left out that was not overwritten, even    *)
(* across calls of Configure and rotations; only what reaches the file sink *)
(* between the closing of the file and its replacement is lost.             *)
Latest(s) == {g \in Gens : worker[<<g, s>>].pc # "none"}
Current(s) == worker[<<CHOOSE g \in Latest(s) : \A h \in Latest(s) : h <= g, s>>]
Due(s) == IF Latest(s) = {} THEN 0
          ELSE IF Current(s).batch # <<>> THEN Head(Current(s).batch) ELSE Current(s).next

Shut(s) == s = "file" /\ Latest(s) # {} /\ Current(s).file # logFile

Stream == INSTANCE LogStream WITH sent <- head, epoch <- gen, due <- [s \in Sinks |-> Due(s)],
                                  shut <- {s \in Sinks : Shut(s)}
ImplementsStream == Stream!Spec

(* What is logged while a sink is configured is taken up by its worker, if  *)
(* the watcher does not keep the mutex for ever (see LoggersReturn).        *)
Stuck == \E g \in Gens : watcher[g] = "stuck"
EventsReachSinks ==
  \A id \in IDs : \A n \in 0 .. MaxEvents - 1 :
    (id \in workers /\ worker[id].next <= n /\ n < head) ~> (worker[id].next > n \/ Stuck)

(* Configure and Close return: every worker hears that it is to stop.       *)
CallerReturns ==
  (caller.pc \notin {"idle", "closed"}) ~> (caller.pc \in {"idle", "closed"} \/ Stuck)
-----------------------------------------------------------------------------
(* The inductive invariants behind the safety properties *)

\* an event stays in the ring once there has been one
RingInv == RingHoldsWindow /\ (head > 0 => tail < head)

\* a batch is held while writing and at no other time
WorkerOK(w) ==
  /\ w.pc = "write" <=> w.batch # <<>>
  /\ w.goal <= head
  /\ w.pc = "stopped" => w.next >= w.goal

\* workers stop only after they have been taken off the list
WorkerInv ==
  /\ \A id \in IDs : WorkerOK(worker[id])
  /\ workersDone => workers = {}
  /\ \A id \in workers : worker[id].pc # "stopped"

CallerInv == caller.pc = "configure" => gen < MaxGen

LogInv == TypeOK /\ RingInv /\ WorkerInv /\ MissedCountsLosses /\ CallerInv

(* Behind HandlerIsCurrent and ImplementsStream: the workers that run are   *)
(* those of the last Configure, on the list or waited for.                  *)
ActiveInv ==
  /\ IF caller.pc \in {"configure", "close"} THEN workers = {} ELSE caller.wait = {}
  /\ \A id \in workers \cup caller.wait : id[1] = gen
  /\ \A id \in IDs :
       /\ worker[id].pc # "none" => id[1] <= gen
       /\ worker[id].pc \notin {"none", "stopped"} => id \in workers \cup caller.wait

\* what a worker has yet to write: the numbers up to where it goes on
Pending(w) ==
  /\ w.next <= head
  /\ \A i \in 1 .. Len(w.batch) : w.batch[i] + Len(w.batch) + 1 = w.next + i
HasLatest(s) == Latest(s) # {} => \E g \in Latest(s) : \A h \in Latest(s) : h <= g
StreamInv ==
  /\ tail > 0 => head = tail + Cap
  /\ \A id \in IDs : Pending(worker[id])
  /\ \A s \in Sinks : HasLatest(s)
-----------------------------------------------------------------------------
(* What the comments say and the code does not do *)

(* "Must NOT be called with m.mu held": whoever logs comes back.            *)
LoggersReturn == \A g \in Loggers : (logger[g] = "enqueue") ~> (logger[g] = "idle")
=============================================================================
