----------------------------- MODULE Scheduler -----------------------------
(***************************************************************************)
(* internal/scheduler: the cron entries of the enabled jobs, the bounded   *)
(* queue of triggers and the single worker that runs them, together with   *)
(* the job handlers of internal/web that reschedule jobs and the start and *)
(* shutdown sequence of main.                                              *)
(*                                                                         *)
(* Goroutines: one per HTTP request in progress (Clients), one per cron    *)
(* trigger (counted by firing), the worker, and main.  What a run does is  *)
(* the subject of module Syncer; here the worker is inside syncer.Run      *)
(* until WorkerReturn.                                                     *)
(***************************************************************************)
EXTENDS Naturals, FiniteSets, Sequences

CONSTANTS
  Jobs,        \* ids AUTOINCREMENT can hand out (bound: how many are created)
  Clients,     \* HTTP requests that can be in progress at once
  EntryIDs,    \* cron.EntryID values (bound: entries alive at once)
  Specs,       \* cron expressions the parser accepts
  BadSpec,     \* an expression cron.AddFunc rejects
  NoSpec,      \* the empty schedule: run by hand only
  Rows,        \* rows a client may send: enabled flag and schedule
  NoRow, NoEntry, NoJob, Free,
  QueueCap,    \* capacity of workQ
  MaxFiring,   \* bound: trigger goroutines of one job alive at once
  DBMayFail    \* may a statement of a handler fail?

ASSUME ConstantsAssumption ==
  /\ NoEntry \notin EntryIDs
  /\ NoJob \notin Jobs
  /\ Free \notin Clients
  /\ BadSpec \notin Specs
  /\ NoSpec \notin Specs
  /\ QueueCap \in Nat \ {0}
  /\ MaxFiring \in Nat \ {0}
  /\ DBMayFail \in BOOLEAN

ASSUME RowsAssumption ==
  /\ Rows \subseteq [enabled : BOOLEAN, schedule : Specs \cup {BadSpec, NoSpec}]
  /\ NoRow \notin Rows

VARIABLES
  jobs,     \* table sync_jobs: id -> row, NoRow where there is none
  used,     \* ids given to a row so far; AUTOINCREMENT never gives one twice
  entries,  \* Scheduler.entries: job -> cron entry
  mu,       \* Scheduler.mu: the request that holds it
  cron,     \* the live entries of cron.Cron
  firing,   \* per job, trigger goroutines not yet at the channel send
  workQ,    \* Scheduler.workQ
  worker,   \* the worker goroutine: where it is and the job it runs
  req,      \* per client, the handler in progress
  main,     \* where main is
  toStart   \* jobs Start has listed and not yet scheduled

tables == <<jobs, used>>
book   == <<entries, mu, cron>>
queue  == <<firing, workQ, worker>>
vars   == <<jobs, used, entries, mu, cron, firing, workQ, worker, req, main, toStart>>

CronEntry == [id : EntryIDs, job : Jobs, schedule : Specs]
Request   == [pc : {"idle", "lock", "load", "schedule", "remove", "deleteRow"},
              job : Jobs \cup {NoJob}, row : Rows \cup {NoRow}]
WorkerPC  == {"select", "run", "drain", "drainRun", "exited"}
MainPC    == {"boot", "serving", "draining", "stopping", "stopped", "exited", "down"}

IdleRequest == [pc |-> "idle", job |-> NoJob, row |-> NoRow]
IdleWorker  == [pc |-> "select", job |-> NoJob]

Alive       == main \notin {"exited", "down"}
CronRunning == main \in {"serving", "draining"}     \* between cron.Start and cron.Stop
StopClosed  == main \in {"stopped", "exited"}       \* close(stopQ) has happened

Wanted(row)   == row # NoRow /\ row.enabled /\ row.schedule # NoSpec
Listed        == {j \in Jobs : Wanted(jobs[j])}
\* a request that has changed something of the job already
InFlight(j)   == \E c \in Clients : req[c].pc \notin {"idle", "remove"} /\ req[c].job = j
-----------------------------------------------------------------------------
(* scheduleJob and the removal of an entry *)

FreeIDs == EntryIDs \ {e.id : e \in cron}

(* AddFunc and entries[job.ID] = entryID; an expression AddFunc rejects is   *)
(* logged and leaves both alone.  cron numbers its entries upwards for ever; *)
(* an id that no live entry has stands for the next number.                  *)
ScheduleJob(j, row) ==
  IF row.schedule \in Specs
  THEN /\ FreeIDs # {}
       /\ LET id == CHOOSE i \in FreeIDs : TRUE
          IN  /\ cron' = cron \cup {[id |-> id, job |-> j, schedule |-> row.schedule]}
              /\ entries' = [entries EXCEPT ![j] = id]
  ELSE UNCHANGED <<cron, entries>>

\* mutated: the map forgets the entry, cron keeps it
UnscheduleMapOnly(j) ==
  /\ entries' = [entries EXCEPT ![j] = NoEntry]
  /\ UNCHANGED cron

Unschedule(j) ==
  /\ cron' = {e \in cron : e.id # entries[j]}
  /\ entries' = [entries EXCEPT ![j] = NoEntry]
-----------------------------------------------------------------------------
(* Job handlers.  Until its first shared access a handler only decodes its  *)
(* request; arrival is that access, or the wait for mu.  It may come after  *)
(* the signal: srv.Shutdown waits for a request accepted before, and leaves *)
(* it running when its 30 seconds are over.                                 *)

Goto(c, pc, j, row) == req' = [req EXCEPT ![c] = [pc |-> pc, job |-> j, row |-> row]]
Finish(c) == req' = [req EXCEPT ![c] = IdleRequest]
Accepting(c) ==
  main \in {"serving", "draining", "stopping", "stopped"} /\ req[c].pc = "idle"

(* createJob: INSERT, then Reload *)
CreateJob(c, j, row) ==
  /\ Accepting(c)
  /\ j \notin used
  /\ jobs' = [jobs EXCEPT ![j] = row]
  /\ used' = used \cup {j}
  /\ Goto(c, "lock", j, NoRow)
  /\ UNCHANGED <<book, queue, main, toStart>>

(* updateJob: UPDATE, which is no error on a missing row, then Reload *)
UpdateJob(c, j, row) ==
  /\ Accepting(c)
  /\ jobs' = IF jobs[j] = NoRow THEN jobs ELSE [jobs EXCEPT ![j] = row]
  /\ Goto(c, "lock", j, NoRow)
  /\ UNCHANGED <<used, book, queue, main, toStart>>

\* mutated: Reload without mu
ReloadLockUnguarded(c) ==
  /\ Alive /\ req[c].pc = "lock"
  /\ mu' = c
  /\ Unschedule(req[c].job)
  /\ Goto(c, "load", req[c].job, NoRow)
  /\ UNCHANGED <<tables, queue, main, toStart>>

(* Reload takes mu and drops the job's entry ... *)
ReloadLock(c) ==
  /\ Alive /\ req[c].pc = "lock" /\ mu = Free
  /\ mu' = c
  /\ Unschedule(req[c].job)
  /\ Goto(c, "load", req[c].job, NoRow)
  /\ UNCHANGED <<tables, queue, main, toStart>>

\* mutated: the early return keeps mu
ReloadLoadKeepsMu(c) ==
  LET j == req[c].job IN
  /\ Alive /\ req[c].pc = "load"
  /\ \/ Wanted(jobs[j]) /\ Goto(c, "schedule", j, jobs[j])
     \/ (DBMayFail \/ ~Wanted(jobs[j])) /\ Finish(c)
  /\ UNCHANGED <<tables, mu, entries, cron, queue, main, toStart>>

(* ... reads the row again: no row, a failing read, a disabled job or an    *)
(* empty schedule ends it with the job unscheduled ...                      *)
ReloadLoad(c) ==
  LET j == req[c].job IN
  /\ Alive /\ req[c].pc = "load"
  /\ \/ /\ Wanted(jobs[j])
        /\ Goto(c, "schedule", j, jobs[j])
        /\ UNCHANGED mu
     \/ /\ DBMayFail \/ ~Wanted(jobs[j])
        /\ Finish(c)
        /\ mu' = Free
  /\ UNCHANGED <<tables, entries, cron, queue, main, toStart>>

(* ... and schedules what it read. *)
ReloadSchedule(c) ==
  /\ Alive /\ req[c].pc = "schedule"
  /\ ScheduleJob(req[c].job, req[c].row)
  /\ mu' = Free
  /\ Finish(c)
  /\ UNCHANGED <<tables, queue, main, toStart>>

(* deleteJob calls Remove, which waits for mu, drops the entry and gives mu *)
(* back ...                                                                 *)
DeleteJob(c, j) ==
  /\ Accepting(c)
  /\ Goto(c, "remove", j, NoRow)
  /\ UNCHANGED <<tables, book, queue, main, toStart>>

RemoveLock(c) ==
  /\ Alive /\ req[c].pc = "remove" /\ mu = Free
  /\ Unschedule(req[c].job)
  /\ Goto(c, "deleteRow", req[c].job, NoRow)
  /\ UNCHANGED <<tables, mu, queue, main, toStart>>

(* ... and then deletes the row. *)
DeleteRow(c) ==
  /\ Alive /\ req[c].pc = "deleteRow"
  /\ \/ jobs' = [jobs EXCEPT ![req[c].job] = NoRow]
     \/ DBMayFail /\ UNCHANGED jobs
  /\ Finish(c)
  /\ UNCHANGED <<used, book, queue, main, toStart>>
-----------------------------------------------------------------------------
(* Triggers and the worker *)

(* cron starts a goroutine for an entry that is due *)
Fire(e) ==
  /\ CronRunning /\ e \in cron
  /\ firing[e.job] < MaxFiring
  /\ firing' = [firing EXCEPT ![e.job] = @ + 1]
  /\ UNCHANGED <<tables, book, workQ, worker, req, main, toStart>>

\* mutated: a send that waits for room; one that drops the oldest trigger; one
\* that lets one too many in
EnqueueBlocking(j) ==
  /\ Alive /\ firing[j] > 0 /\ Len(workQ) < QueueCap
  /\ firing' = [firing EXCEPT ![j] = @ - 1]
  /\ workQ' = Append(workQ, j)
  /\ UNCHANGED <<tables, book, worker, req, main, toStart>>

EnqueueDropOldest(j) ==
  /\ Alive /\ firing[j] > 0
  /\ firing' = [firing EXCEPT ![j] = @ - 1]
  /\ workQ' = Append(IF Len(workQ) < QueueCap THEN workQ ELSE Tail(workQ), j)
  /\ UNCHANGED <<tables, book, worker, req, main, toStart>>

EnqueueOneTooMany(j) ==
  /\ Alive /\ firing[j] > 0
  /\ firing' = [firing EXCEPT ![j] = @ - 1]
  /\ workQ' = IF Len(workQ) <= QueueCap THEN Append(workQ, j) ELSE workQ
  /\ UNCHANGED <<tables, book, worker, req, main, toStart>>

(* its send to workQ, which gives up at once when the queue is full *)
Enqueue(j) ==
  /\ Alive /\ firing[j] > 0
  /\ firing' = [firing EXCEPT ![j] = @ - 1]
  /\ workQ' = IF Len(workQ) < QueueCap THEN Append(workQ, j) ELSE workQ
  /\ UNCHANGED <<tables, book, worker, req, main, toStart>>

(* the two receives from workQ; the select of the loop may choose either    *)
(* ready case, so this one stays possible after stopQ is closed             *)
WorkerTake ==
  /\ Alive /\ worker.pc \in {"select", "drain"} /\ workQ # <<>>
  /\ worker' = [pc |-> IF worker.pc = "select" THEN "run" ELSE "drainRun", job |-> Head(workQ)]
  /\ workQ' = Tail(workQ)
  /\ UNCHANGED <<tables, book, firing, req, main, toStart>>

WorkerStop ==
  /\ Alive /\ worker.pc = "select" /\ StopClosed
  /\ worker' = [worker EXCEPT !.pc = "drain"]
  /\ UNCHANGED <<tables, book, firing, workQ, req, main, toStart>>

(* syncer.Run returns *)
WorkerReturn ==
  /\ Alive /\ worker.pc \in {"run", "drainRun"}
  /\ worker' = [pc |-> IF worker.pc = "run" THEN "select" ELSE "drain", job |-> NoJob]
  /\ UNCHANGED <<tables, book, firing, workQ, req, main, toStart>>

(* the default case of the draining select *)
WorkerExit ==
  /\ Alive /\ worker.pc = "drain" /\ workQ = <<>>
  /\ worker' = [worker EXCEPT !.pc = "exited"]
  /\ UNCHANGED <<tables, book, firing, workQ, req, main, toStart>>
-----------------------------------------------------------------------------
(* main *)

(* Start schedules the jobs it listed, without mu: nothing else runs yet *)
StartJob(j) ==
  /\ main = "boot" /\ j \in toStart
  /\ ScheduleJob(j, jobs[j])
  /\ toStart' = toStart \ {j}
  /\ UNCHANGED <<tables, mu, queue, req, main>>

(* cron.Start, then ListenAndServe *)
CronStart ==
  /\ main = "boot" /\ toStart = {}
  /\ main' = "serving"
  /\ UNCHANGED <<tables, book, queue, req, toStart>>

(* a signal: srv.Shutdown closes the listeners and waits for the handlers *)
Signal ==
  /\ main = "serving"
  /\ main' = "draining"
  /\ UNCHANGED <<tables, book, queue, req, toStart>>

(* srv.Shutdown returns, with every handler done or after 30 seconds with   *)
(* some still running; either way the deferred sched.Stop calls cron.Stop   *)
CronStop ==
  /\ main = "draining"
  /\ main' = "stopping"
  /\ UNCHANGED <<tables, book, queue, req, toStart>>

\* mutated: close(stopQ) without waiting for cron's goroutines
CloseStopQAtOnce ==
  /\ main = "stopping"
  /\ main' = "stopped"
  /\ UNCHANGED <<tables, book, queue, req, toStart>>

(* the context of cron.Stop is done when every trigger goroutine has        *)
(* returned; then close(stopQ)                                              *)
CloseStopQ ==
  /\ main = "stopping" /\ \A j \in Jobs : firing[j] = 0
  /\ main' = "stopped"
  /\ UNCHANGED <<tables, book, queue, req, toStart>>

(* db.Close, mgr.Close, return from main: every goroutine is gone *)
Exit ==
  /\ main = "stopped"
  /\ main' = "exited"
  /\ UNCHANGED <<tables, book, queue, req, toStart>>

ResetMemory ==
  /\ entries' = [j \in Jobs |-> NoEntry]
  /\ mu' = Free
  /\ cron' = {}
  /\ firing' = [j \in Jobs |-> 0]
  /\ workQ' = <<>>
  /\ worker' = IdleWorker
  /\ req' = [c \in Clients |-> IdleRequest]

(* the process dies, or os.Exit(1) is called; only the database remains *)
Crash ==
  /\ Alive
  /\ ResetMemory
  /\ main' = "down"
  /\ toStart' = {}
  /\ UNCHANGED tables

(* a new process: New, then ListJobs in Start *)
Restart ==
  /\ main \in {"exited", "down"}
  /\ ResetMemory
  /\ main' = "boot"
  /\ toStart' = Listed
  /\ UNCHANGED tables
-----------------------------------------------------------------------------
Init ==
  /\ jobs = [j \in Jobs |-> NoRow]
  /\ used = {}
  /\ entries = [j \in Jobs |-> NoEntry]
  /\ mu = Free
  /\ cron = {}
  /\ firing = [j \in Jobs |-> 0]
  /\ workQ = <<>>
  /\ worker = IdleWorker
  /\ req = [c \in Clients |-> IdleRequest]
  /\ main = "boot"
  /\ toStart = {}

HandlerStep(c) ==
  \/ ReloadLock(c) \/ ReloadLoad(c) \/ ReloadSchedule(c)
  \/ RemoveLock(c) \/ DeleteRow(c)

Arrive(c) ==
  \E j \in Jobs :
    \/ \E row \in Rows : CreateJob(c, j, row) \/ UpdateJob(c, j, row)
    \/ DeleteJob(c, j)

WorkerStep == WorkerTake \/ WorkerStop \/ WorkerReturn \/ WorkerExit

MainStep ==
  \/ \E j \in Jobs : StartJob(j)
  \/ CronStart \/ CronStop \/ CloseStopQ \/ Exit

Next ==
  \/ \E c \in Clients : Arrive(c) \/ HandlerStep(c)
  \/ \E e \in cron : Fire(e)
  \/ \E j \in Jobs : Enqueue(j)
  \/ WorkerStep
  \/ MainStep
  \/ Signal \/ Crash \/ Restart

Spec == Init /\ [][Next]_vars
-----------------------------------------------------------------------------
(* Fairness.  A goroutine that can take a step takes it; a sync.Mutex hands *)
(* itself to a waiter that has starved, which is strong fairness of the     *)
(* acquisition.  Requests, cron's clock, signals, crashes and restarts come *)
(* or not.  That syncer.Run returns is an assumption of its own, for its    *)
(* HTTP client has no timeout.                                              *)
SchedulerFairness ==
  /\ \A c \in Clients : /\ SF_vars(ReloadLock(c) \/ RemoveLock(c))
                        /\ WF_vars(ReloadLoad(c) \/ ReloadSchedule(c) \/ DeleteRow(c))
  /\ \A j \in Jobs : WF_vars(Enqueue(j))
  /\ WF_vars(MainStep)
  /\ WF_vars(WorkerTake) /\ WF_vars(WorkerExit)
  /\ SF_vars(WorkerStop)

FairSpec == Spec /\ SchedulerFairness

RunsReturn == WF_vars(WorkerReturn)
-----------------------------------------------------------------------------
TypeOK ==
  /\ jobs \in [Jobs -> Rows \cup {NoRow}]
  /\ used \in SUBSET Jobs
  /\ entries \in [Jobs -> EntryIDs \cup {NoEntry}]
  /\ mu \in Clients \cup {Free}
  /\ cron \in SUBSET CronEntry
  /\ firing \in [Jobs -> Nat]
  /\ workQ \in Seq(Jobs) /\ Len(workQ) <= QueueCap
  /\ worker \in [pc : WorkerPC, job : Jobs \cup {NoJob}]
  /\ req \in [Clients -> Request]
  /\ main \in MainPC
  /\ toStart \in SUBSET Jobs

(* Reload, Remove and Start keep entries and cron in step: the live entries *)
(* of cron are exactly those the map records, one per job, so no entry is   *)
(* out of reach of a later Reload or Remove.                                *)
EntriesTrackCron ==
  /\ \A e \in cron : entries[e.job] = e.id
  /\ \A j \in Jobs : entries[j] # NoEntry =>
       \E e \in cron : e.id = entries[j] /\ e.job = j

ScheduleOf(j) == {e.schedule : e \in {x \in cron : x.job = j}}

ScheduleWanted(j) ==
  IF Wanted(jobs[j]) THEN {jobs[j].schedule} \cap Specs ELSE {}

(* Whatever handlers have run at once on a job, when none of them is left   *)
(* cron fires the job exactly as its row says (updateJob, createJob, Start). *)
ScheduleMatches ==
  main \in {"serving", "draining", "stopping", "stopped"} =>
    \A j \in Jobs : (jobs[j] # NoRow /\ ~InFlight(j)) => ScheduleOf(j) = ScheduleWanted(j)

(* The worker leaves its loop (Stop, worker) only when nothing is queued    *)
(* and no trigger goroutine can still queue something behind its back.      *)
WorkerLeavesNothing ==
  worker.pc = "exited" => workQ = <<>> /\ \A j \in Jobs : firing[j] = 0

(* If runs return, a job in the queue is taken by the worker, unless the    *)
(* process is stopped first, however the others fill the queue (worker).    *)
QueuedJobRuns ==
  RunsReturn => \A j \in Jobs : (j \in {workQ[i] : i \in DOMAIN workQ})
                    ~> (worker.job = j \/ main # "serving")

(* Once the signal has come the process ends, even if the worker hangs in a *)
(* run and handlers do not finish (Stop, main).                             *)
ShutdownTerminates == (main = "draining") ~> ~Alive

(* A job request is answered, also one that waits for mu in Reload or in    *)
(* Remove: both give mu back on every path.                                 *)
RequestsComplete ==
  \A c \in Clients : (req[c].pc # "idle") ~> (req[c].pc = "idle" \/ ~Alive)

-----------------------------------------------------------------------------
(* The inductive invariant behind the safety properties *)

RequestInv ==
  \A c \in Clients :
    /\ req[c].pc # "idle" => req[c].job \in Jobs
    /\ req[c].pc \in {"load", "schedule"} => mu = c /\ entries[req[c].job] = NoEntry
    /\ req[c].pc = "schedule" => Wanted(req[c].row)

IdsUnique == \A e, f \in cron : e.id = f.id => e = f

\* Start works through its list before any request can come
StartInv ==
  main = "boot" => /\ \A c \in Clients : req[c].pc = "idle"
                   /\ \A j \in toStart : entries[j] = NoEntry /\ Wanted(jobs[j])

BookInv == TypeOK /\ RequestInv /\ IdsUnique /\ EntriesTrackCron /\ StartInv

\* Stop: once stopQ is closed nothing more reaches the queue
StopInv ==
  /\ worker.pc \in {"drain", "drainRun", "exited"} => StopClosed
  /\ StopClosed => \A j \in Jobs : firing[j] = 0
  /\ worker.pc = "exited" => workQ = <<>>

\* a request that will still read the row again, or delete it
Pending(j) == \E c \in Clients : req[c].pc \in {"lock", "deleteRow"} /\ req[c].job = j

\* only a reload that another request is about to repeat holds an outdated row
StaleInv ==
  \A c \in Clients :
    LET j == req[c].job IN
    (req[c].pc = "schedule" /\ jobs[j] # NoRow /\ req[c].row # jobs[j]) => Pending(j)

\* the jobs Start has dealt with, or had no reason to
BootInv ==
  main = "boot" =>
    \A j \in Jobs \ toStart : jobs[j] # NoRow => ScheduleOf(j) = ScheduleWanted(j)

MatchInv == BookInv /\ StaleInv /\ BootInv /\ ScheduleMatches
-----------------------------------------------------------------------------
(* What the documentation says and the code does not do *)

(* "Remove unschedules a job", and a deleted job stays unscheduled.         *)
DeletedJobUnscheduled ==
  \A j \in used : (jobs[j] = NoRow /\ \A c \in Clients : req[c].job # j) => ScheduleOf(j) = {}
=============================================================================
