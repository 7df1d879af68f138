------------------------------- MODULE Syncer -------------------------------
(***************************************************************************)
(* internal/syncer: Syncer.Run and execute, against the tables of          *)
(* internal/store they use and the network lists of the UniFi controller.  *)
(*                                                                         *)
(* A runner is a goroutine that calls Run: the worker of the scheduler, or *)
(* one that the runJob handler started.  Each statement on the database    *)
(* and each request to the controller is a step, for the handlers, the     *)
(* other runners and the administrator of the controller act in between.   *)
(*                                                                         *)
(* Data: an address stands for an IPv4 address or CIDR block, a range for  *)
(* an item of type IP_ADDRESS_RANGE.  Of the hostnames of a job the model  *)
(* keeps the addresses they may resolve to; which of them a run finds is   *)
(* up to the name servers.  Time counts hours.                             *)
(***************************************************************************)
EXTENDS Naturals, FiniteSets, Sequences

CONSTANTS
  Jobs,       \* ids of the jobs
  Runners,    \* goroutines that can be in Run at once
  Manual,     \* those of them that runJob started
  Lists,      \* network lists of the controller
  Addrs,      \* addresses and CIDR blocks
  Ranges,     \* address ranges a list may also hold
  Initial,    \* what each list holds at first
  Rows,       \* rows of sync_jobs that a client may save
  NoRow, NoJob, NoLog, Never, Deleted,
  Events,     \* what may happen around the runs
  FKModes,    \* is PRAGMA foreign_keys on, on the connection a statement gets?
  MaxTime,    \* bound of the clock
  MaxLogs     \* bound: runs that get as far as a run log

EventNames ==
  {"edit", "delete",    \* updateJob and deleteJob
   "admin",             \* somebody edits a list on the controller
   "servers",           \* no DNS server is enabled, or listing them fails
   "db",                \* a statement fails that Run checks
   "log",               \* one of the two updates fails that Run does not check
   "api",               \* a request to the controller fails without effect
   "lost",              \* a PUT is applied and its reply lost
   "crash"}             \* the process ends

ASSUME ConstantsAssumption ==
  /\ Manual \subseteq Runners
  /\ Addrs \cap Ranges = {}
  /\ Initial \in [Lists -> SUBSET (Addrs \cup Ranges)]
  /\ Rows \subseteq [literals : SUBSET Addrs, dns : SUBSET Addrs, ttl : Nat, list : Lists]
  /\ NoRow \notin Rows
  /\ NoJob \notin Jobs
  /\ NoLog \notin Nat
  /\ Never \notin Nat
  /\ Events \subseteq EventNames
  /\ FKModes \subseteq BOOLEAN
  /\ MaxTime \in Nat
  /\ MaxLogs \in Nat

VARIABLES
  jobs,      \* table sync_jobs: the columns a run reads
  last,      \* its last_run_at and last_result: the run log with that result
  logs,      \* table run_logs by id
  observed,  \* table job_observed_ips: job -> address -> last_seen_at
  lists,     \* what each network list of the controller holds
  running,   \* Syncer.running
  run,       \* per runner, where it is in Run and its local variables
  clock,     \* hours
  seen,      \* history: when a run of the job last recorded the address
  loose,     \* history: jobs whose DELETE left rows, or that got rows after it
  untold     \* history: lists that no longer hold just what one job has logged

db   == <<jobs, last, logs, observed>>
hist == <<seen, loose, untold>>
vars == <<jobs, last, logs, observed, lists, running, run, clock, seen, loose, untold>>

PC == {"idle", "called", "load", "open", "resolve", "record", "expire", "observe",
       "clear", "controller", "fetch", "put", "close", "last", "unlock"}
Status == {"none", "running", "success", "error"}
Times  == Nat \cup {Never}

RunLog == [job : Jobs, status : {"running", "success", "error"},
           added : SUBSET Addrs, removed : SUBSET Addrs]
ASSUME DeletedAssumption == Deleted \notin RunLog

Run == [pc : PC, job : Jobs \cup {NoJob}, row : Rows \cup {NoRow}, log : Nat \cup {NoLog},
        now : Nat, found : SUBSET Addrs, ips : SUBSET Addrs,
        status : Status, added : SUBSET Addrs, removed : SUBSET Addrs]

IdleRun == [pc |-> "idle", job |-> NoJob, row |-> NoRow, log |-> NoLog, now |-> 0,
            found |-> {}, ips |-> {}, status |-> "none", added |-> {}, removed |-> {}]

Holding == PC \ {"idle", "called"}                 \* between LoadOrStore and Delete
Logged  == {"resolve", "record", "expire", "observe", "clear", "controller", "fetch",
            "put", "close"}
Holds(r, j) == run[r].pc \in Holding /\ run[r].job = j
-----------------------------------------------------------------------------
(* Steps of a runner *)

At(r, pc) == run[r].pc = pc
Job(r) == run[r].job
RowOf(r) == run[r].row
Becomes(r, local) == run' = [run EXCEPT ![r] = local]
Goto(r, pc) == Becomes(r, [run[r] EXCEPT !.pc = pc])

(* Run returns: the deferred running.Delete *)
Return(r) ==
  /\ running' = running \ {Job(r)}
  /\ Becomes(r, IdleRun)

\* mutated: an early return of Run itself, past UpdateRunLog
FailReturns(r) == Goto(r, "unlock")

\* mutated: the diff is kept with the error
FailKeepsDiff(r) == Becomes(r, [run[r] EXCEPT !.pc = "close", !.status = "error"])

(* execute returns an error *)
Fail(r) == Becomes(r, [run[r] EXCEPT !.pc = "close", !.status = "error",
                                     !.added = {}, !.removed = {}])

(* it returns success, with the diff it has found, if any *)
Succeed(r) == Becomes(r, [run[r] EXCEPT !.pc = "close", !.status = "success"])

(* A goroutine is about to call Run.  runJob has found the job in the table *)
(* and answers that the run has started; the worker got the id from the     *)
(* queue, and the job may be gone by then.                                  *)
Unlogged == {r \in Runners : run[r].pc \in {"called", "load", "open"}}

Call(r, j) ==
  /\ At(r, "idle")
  /\ r \in Manual => jobs[j] # NoRow
  /\ Len(logs) + Cardinality(Unlogged) < MaxLogs
  /\ Becomes(r, [run[r] EXCEPT !.pc = "called", !.job = j])
  /\ UNCHANGED <<db, lists, running, clock, hist>>

\* mutated: Store without looking
AcquireUnchecked(r) ==
  /\ At(r, "called")
  /\ running' = running \cup {Job(r)}
  /\ Goto(r, "load")
  /\ UNCHANGED <<db, lists, clock, hist>>

(* LoadOrStore: a second run of a job is skipped *)
Acquire(r) ==
  /\ At(r, "called") /\ Job(r) \notin running
  /\ running' = running \cup {Job(r)}
  /\ Goto(r, "load")
  /\ UNCHANGED <<db, lists, clock, hist>>

Skip(r) ==
  /\ At(r, "called") /\ Job(r) \in running
  /\ Becomes(r, IdleRun)
  /\ UNCHANGED <<db, lists, running, clock, hist>>

\* mutated: the early return leaves the job in running
LoadJobKeeps(r) ==
  /\ At(r, "load")
  /\ \/ /\ jobs[Job(r)] # NoRow
        /\ Becomes(r, [run[r] EXCEPT !.pc = "open", !.row = jobs[Job(r)]])
     \/ /\ jobs[Job(r)] = NoRow \/ "db" \in Events
        /\ Becomes(r, IdleRun)
  /\ UNCHANGED <<db, lists, running, clock, hist>>

(* GetJob: the run keeps this row, whatever becomes of the job *)
LoadJob(r) ==
  /\ At(r, "load")
  /\ \/ /\ jobs[Job(r)] # NoRow
        /\ Becomes(r, [run[r] EXCEPT !.pc = "open", !.row = jobs[Job(r)]])
        /\ UNCHANGED running
     \/ /\ jobs[Job(r)] = NoRow \/ "db" \in Events
        /\ Return(r)
  /\ UNCHANGED <<db, lists, clock, hist>>

\* mutated: the log is inserted without its status
NewLogNoStatus(j) == [job |-> j, status |-> "none", added |-> {}, removed |-> {}]

(* CreateRunLog; with foreign keys on it fails once the job is gone *)
NewLog(j) == [job |-> j, status |-> "running", added |-> {}, removed |-> {}]
Refused(r, fk) == fk /\ jobs[Job(r)] = NoRow
Inserted(r) == loose' = IF jobs[Job(r)] = NoRow THEN loose \cup {Job(r)} ELSE loose

OpenLog(r) ==
  /\ At(r, "open")
  /\ \E fk \in FKModes :
       \/ /\ ~Refused(r, fk)
          /\ logs' = Append(logs, NewLog(Job(r)))
          /\ Becomes(r, [run[r] EXCEPT !.pc = "resolve", !.log = Len(logs) + 1])
          /\ Inserted(r)
          /\ UNCHANGED running
       \/ /\ Refused(r, fk) \/ "db" \in Events
          /\ Return(r)
          /\ UNCHANGED <<logs, loose>>
  /\ UNCHANGED <<jobs, last, observed, lists, clock, seen, untold>>

(* ListEnabledDNSServerAddresses and ResolveHostnames: hostnames that do    *)
(* not resolve are left out, and only an empty result is an error.  The     *)
(* time of the observation is taken after it.                               *)
Resolve(r) ==
  /\ At(r, "resolve")
  /\ \/ \E answers \in SUBSET RowOf(r).dns :
          LET found == RowOf(r).literals \cup answers IN
          IF found = {} THEN Fail(r)
          ELSE Becomes(r, [run[r] EXCEPT !.pc = IF RowOf(r).ttl > 0 THEN "record" ELSE "clear",
                                         !.found = found, !.now = clock])
     \/ "servers" \in Events /\ Fail(r)
  /\ UNCHANGED <<db, lists, running, clock, hist>>

(* UpsertObservedIPs, one transaction *)
Stamp(table, r) ==
  [table EXCEPT ![Job(r)] = [a \in Addrs |-> IF a \in run[r].found THEN run[r].now ELSE @[a]]]

Record(r) ==
  /\ At(r, "record")
  /\ \E fk \in FKModes :
       \/ /\ ~Refused(r, fk)
          /\ observed' = Stamp(observed, r)
          /\ seen' = Stamp(seen, r)
          /\ Inserted(r)
          /\ Goto(r, "expire")
       \/ /\ Refused(r, fk) \/ "db" \in Events
          /\ Fail(r)
          /\ UNCHANGED <<observed, seen, loose>>
  /\ UNCHANGED <<jobs, last, logs, lists, running, clock, untold>>

\* mutated: the cutoff an hour early, and an hour late
FreshLonger(t, r)  == t # Never /\ t + RowOf(r).ttl + 1 >= run[r].now
FreshShorter(t, r) == t # Never /\ t + RowOf(r).ttl > run[r].now

(* last_seen_at >= cutoff, the cutoff being ttl before now.  Both are UTC   *)
(* strings in RFC 3339, so SQLite compares them as times.                   *)
Fresh(t, r) == t # Never /\ t + RowOf(r).ttl >= run[r].now

(* DeleteExpiredObservedIPs *)
Expire(r) ==
  /\ At(r, "expire")
  /\ \/ /\ observed' = [observed EXCEPT ![Job(r)] =
                          [a \in Addrs |-> IF Fresh(@[a], r) THEN @[a] ELSE Never]]
        /\ Goto(r, "observe")
     \/ /\ "db" \in Events
        /\ Fail(r)
        /\ UNCHANGED observed
  /\ UNCHANGED <<jobs, last, logs, lists, running, clock, hist>>

(* ListObservedIPs and mergeResolvedIPs *)
Observe(r) ==
  /\ At(r, "observe")
  /\ \/ LET cached == {a \in Addrs : Fresh(observed[Job(r)][a], r)}
        IN  Becomes(r, [run[r] EXCEPT !.pc = "controller", !.ips = run[r].found \cup cached])
     \/ "db" \in Events /\ Fail(r)
  /\ UNCHANGED <<db, lists, running, clock, hist>>

(* without retention: DeleteObservedIPs *)
Clear(r) ==
  /\ At(r, "clear")
  /\ \/ /\ observed' = [observed EXCEPT ![Job(r)] = [a \in Addrs |-> Never]]
        /\ Becomes(r, [run[r] EXCEPT !.pc = "controller", !.ips = run[r].found])
     \/ /\ "db" \in Events
        /\ Fail(r)
        /\ UNCHANGED observed
  /\ UNCHANGED <<jobs, last, logs, lists, running, clock, hist>>

(* GetController, by the id of the row that the run keeps, and NewClient.   *)
(* Foreign keys keep a controller only while a job refers to it: once the   *)
(* job has been moved or deleted, the one this run looks for may be gone.   *)
ControllerMayBeGone(r) ==
  "edit" \in Events \/ jobs[Job(r)] = NoRow \/ FALSE \in FKModes

LoadController(r) ==
  /\ At(r, "controller")
  /\ \/ Goto(r, "fetch")
     \/ "db" \in Events /\ Fail(r)
     \/ "api" \in Events /\ Fail(r)
     \/ ControllerMayBeGone(r) /\ Fail(r)
  /\ UNCHANGED <<db, lists, running, clock, hist>>

(* GetNetworkList, ExtractIPsFromItems (which passes over ranges), DiffIPs  *)
Fetch(r) ==
  /\ At(r, "fetch")
  /\ \/ LET old     == lists[RowOf(r).list] \cap Addrs
            added   == run[r].ips \ old
            removed == old \ run[r].ips
        IN  IF added = {} /\ removed = {}
            THEN Succeed(r)
            ELSE Becomes(r, [run[r] EXCEPT !.pc = "put", !.added = added, !.removed = removed])
     \/ "api" \in Events /\ Fail(r)
  /\ UNCHANGED <<db, lists, running, clock, hist>>

(* UpdateNetworkList replaces all items of the list, ranges included *)
Push(r) == lists' = [lists EXCEPT ![RowOf(r).list] = run[r].ips]
Ours(r) == lists[RowOf(r).list] \subseteq Addrs          \* it holds no ranges
Untell(ls) == untold' = untold \cup ls

\* mutated: the error of UpdateNetworkList is dropped
PutUnchecked(r) ==
  /\ At(r, "put")
  /\ Succeed(r)
  /\ Push(r) \/ ("api" \in Events /\ UNCHANGED lists)
  /\ Untell(IF Ours(r) THEN {} ELSE {RowOf(r).list})
  /\ UNCHANGED <<db, running, clock, seen, loose>>

Put(r) ==
  /\ At(r, "put")
  /\ \/ Push(r) /\ Succeed(r) /\ Untell(IF Ours(r) THEN {} ELSE {RowOf(r).list})
     \/ "lost" \in Events /\ Push(r) /\ Fail(r) /\ Untell({RowOf(r).list})
     \/ "api" \in Events /\ Fail(r) /\ UNCHANGED <<lists, untold>>
  /\ UNCHANGED <<db, running, clock, seen, loose>>

Differs(r) == run[r].added \cup run[r].removed # {}      \* a diff to be logged

\* mutated: the job is given free before its last result is set
CloseLogUnlocks(r) ==
  /\ At(r, "close")
  /\ Goto(r, "last")
  /\ logs' = IF logs[run[r].log] = Deleted THEN logs
             ELSE [logs EXCEPT ![run[r].log] =
                     [@ EXCEPT !.status = run[r].status,
                               !.added = run[r].added, !.removed = run[r].removed]]
  /\ running' = running \ {Job(r)}
  /\ UNCHANGED <<jobs, last, observed, lists, clock, hist>>

(* UpdateRunLog, which changes nothing if the log is gone *)
CloseLog(r) ==
  /\ At(r, "close")
  /\ Goto(r, "last")
  /\ \/ /\ logs' = IF logs[run[r].log] = Deleted THEN logs
                   ELSE [logs EXCEPT ![run[r].log] =
                           [@ EXCEPT !.status = run[r].status,
                                     !.added = run[r].added, !.removed = run[r].removed]]
        /\ UNCHANGED untold
     \/ /\ "log" \in Events
        /\ Untell(IF Differs(r) THEN {RowOf(r).list} ELSE {})
        /\ UNCHANGED logs
  /\ UNCHANGED <<jobs, last, observed, lists, running, clock, seen, loose>>

(* UpdateJobLastRun *)
SetLast(r) ==
  /\ At(r, "last")
  /\ Goto(r, "unlock")
  /\ \/ last' = IF jobs[Job(r)] = NoRow THEN last ELSE [last EXCEPT ![Job(r)] = run[r].log]
     \/ "log" \in Events /\ UNCHANGED last
  /\ UNCHANGED <<jobs, logs, observed, lists, running, clock, hist>>

Unlock(r) ==
  /\ At(r, "unlock")
  /\ Return(r)
  /\ UNCHANGED <<db, lists, clock, hist>>
-----------------------------------------------------------------------------
(* Around the runs *)

EditJob(j, row) ==
  /\ "edit" \in Events /\ jobs[j] # NoRow
  /\ jobs' = [jobs EXCEPT ![j] = row]
  /\ Untell(IF row.list = jobs[j].list THEN {} ELSE {row.list, jobs[j].list})
  /\ UNCHANGED <<last, logs, observed, lists, running, run, clock, seen, loose>>

\* mutated: run_logs without its cascade
CascadeObserved(j) ==
  /\ UNCHANGED logs
  /\ observed' = [observed EXCEPT ![j] = [a \in Addrs |-> Never]]

(* DELETE, with the cascades of run_logs and job_observed_ips if foreign    *)
(* keys are on                                                              *)
Cascade(j) ==
  /\ logs' = [i \in DOMAIN logs |->
                IF logs[i] # Deleted /\ logs[i].job = j THEN Deleted ELSE logs[i]]
  /\ observed' = [observed EXCEPT ![j] = [a \in Addrs |-> Never]]

DeleteJob(j) ==
  /\ "delete" \in Events /\ jobs[j] # NoRow
  /\ jobs' = [jobs EXCEPT ![j] = NoRow]
  /\ last' = [last EXCEPT ![j] = NoLog]
  /\ \E fk \in FKModes : IF fk THEN Cascade(j) /\ UNCHANGED loose
                          ELSE loose' = loose \cup {j} /\ UNCHANGED <<logs, observed>>
  /\ Untell({jobs[j].list})
  /\ UNCHANGED <<lists, running, run, clock, seen>>

AdminEdit(l, items) ==
  /\ "admin" \in Events
  /\ lists' = [lists EXCEPT ![l] = items]
  /\ Untell({l})
  /\ UNCHANGED <<db, running, run, clock, seen, loose>>

Tick ==
  /\ clock < MaxTime
  /\ clock' = clock + 1
  /\ UNCHANGED <<db, lists, running, run, hist>>

(* the process ends in the middle of its runs; nothing is repaired when it  *)
(* starts again                                                             *)
Crash ==
  /\ "crash" \in Events
  /\ running' = {}
  /\ run' = [r \in Runners |-> IdleRun]
  /\ Untell({RowOf(r).list : r \in {q \in Runners : At(q, "close") /\ Differs(q)}})
  /\ UNCHANGED <<db, lists, clock, seen, loose>>

(* no run in progress and none to come: the system may rest like this, and  *)
(* nowhere else                                                             *)
Rest ==
  /\ \A r \in Runners : At(r, "idle")
  /\ UNCHANGED vars
-----------------------------------------------------------------------------
Init ==
  /\ jobs \in [Jobs -> Rows]
  /\ last = [j \in Jobs |-> NoLog]
  /\ logs = <<>>
  /\ observed = [j \in Jobs |-> [a \in Addrs |-> Never]]
  /\ lists = Initial
  /\ running = {}
  /\ run = [r \in Runners |-> IdleRun]
  /\ clock = 0
  /\ seen = observed
  /\ loose = {}
  /\ untold = {}

Step(r) ==
  \/ Acquire(r) \/ Skip(r) \/ LoadJob(r) \/ OpenLog(r) \/ Resolve(r)
  \/ Record(r) \/ Expire(r) \/ Observe(r) \/ Clear(r)
  \/ LoadController(r) \/ Fetch(r) \/ Put(r) \/ CloseLog(r) \/ SetLast(r) \/ Unlock(r)

Next ==
  \/ \E r \in Runners : Step(r) \/ \E j \in Jobs : Call(r, j)
  \/ \E j \in Jobs : DeleteJob(j) \/ \E row \in Rows : EditJob(j, row)
  \/ \E l \in Lists, items \in SUBSET (Addrs \cup Ranges) : AdminEdit(l, items)
  \/ Tick \/ Crash \/ Rest

Spec == Init /\ [][Next]_vars

(* A run goes on, given that the name servers and the controller answer. *)
FairSpec == Spec /\ \A r \in Runners : WF_vars(Step(r))
-----------------------------------------------------------------------------
TypeOK ==
  /\ jobs \in [Jobs -> Rows \cup {NoRow}]
  /\ last \in [Jobs -> Nat \cup {NoLog}]
  /\ logs \in Seq(RunLog \cup {Deleted})
  /\ observed \in [Jobs -> [Addrs -> Times]]
  /\ lists \in [Lists -> SUBSET (Addrs \cup Ranges)]
  /\ running \in SUBSET Jobs
  /\ run \in [Runners -> Run]
  /\ clock \in Nat
  /\ seen \in [Jobs -> [Addrs -> Times]]
  /\ loose \in SUBSET Jobs
  /\ untold \in SUBSET Lists

(* "prevents concurrent runs of the same job": no two goroutines are in the *)
(* body of Run for one job (Run, the field running).                        *)
OneRunPerJob ==
  \A r1, r2 \in Runners : \A j \in Jobs : Holds(r1, j) /\ Holds(r2, j) => r1 = r2

(* The same, step by step: the guard is taken and given back as RunLock     *)
(* says, so that it never passes from one run to the next without being     *)
(* free in between, and a skipped run takes and gives back nothing (Run).   *)
Lock == INSTANCE RunLock WITH held <- {pair \in Runners \X Jobs : Holds(pair[1], pair[2])}
ImplementsRunLock == Lock!Spec

(* While the process lives and its updates succeed, a log that says         *)
(* "running" belongs to a run in progress, and to one only: every path      *)
(* through execute ends in UpdateRunLog (Run).                              *)
Open(i) == logs[i] # Deleted /\ logs[i].status = "running"
OpenLogHasItsRun ==
  \A i \in DOMAIN logs : Open(i) =>
    \E r \in Runners : /\ run[r].pc \in Logged /\ run[r].log = i /\ run[r].job = logs[i].job
                       /\ \A q \in Runners \ {r} : run[q].log # i

(* The job shows the result of its latest finished run, never that of an    *)
(* earlier one: UpdateJobLastRun calls of a job happen in the order of its  *)
(* logs (Run).                                                              *)
Closed(j) == {i \in DOMAIN logs : logs[i] # Deleted /\ logs[i].job = j /\ ~Open(i)}
LastResultIsLatest ==
  \A j \in Jobs :
    (jobs[j] # NoRow /\ \A r \in Runners : Holds(r, j) => ~At(r, "last")) =>
      IF Closed(j) = {} THEN last[j] = NoLog
      ELSE last[j] \in Closed(j) /\ \A i \in Closed(j) : i <= last[j]

(* "detailed diffs of every sync": what a list of one job holds is what the *)
(* diffs in the history of that job make of it, once its run has written    *)
(* its log (execute, UpdateRunLog, GetRunLogs).  This goes on until the     *)
(* list is untold, which takes one of these: somebody edits it on the       *)
(* controller; a push over ranges, or one whose reply is lost; a run whose  *)
(* diff never reaches its log; a job that is moved from or to the list; the *)
(* deletion of a job that is on it.                                         *)
Mentions(j, a) == {i \in Closed(j) : a \in logs[i].added \cup logs[i].removed}
Told(j, l, a) ==                      \* what the history of the job says of a
  IF Mentions(j, a) = {} THEN a \in Initial[l]
  ELSE \E i \in Mentions(j, a) : a \in logs[i].added /\ \A k \in Mentions(j, a) : k <= i
Explained(j, l) == \A a \in Addrs \cup Ranges : a \in lists[l] <=> Told(j, l, a)
OwnList(j, l) ==
  /\ jobs[j] # NoRow /\ jobs[j].list = l
  /\ \A k \in Jobs \ {j} : jobs[k] # NoRow => jobs[k].list # l
HistoryExplainsList ==
  \A j \in Jobs : \A l \in Lists \ untold :
    (OwnList(j, l) /\ \A r \in Runners : Holds(r, j) => ~At(r, "close")) => Explained(j, l)

(* Retention, first half: an address is pushed only if this run found it or *)
(* a run of the job recorded it within the ttl, also when the ttl has been  *)
(* changed (where TLC has one ttl this rests on the theorem), failures have *)
(* left the table half done, or runs overlap (execute, the *ObservedIPs     *)
(* methods of the store).                                                   *)
Within(a, r) ==
  seen[Job(r)][a] # Never /\ run[r].now <= seen[Job(r)][a] + RowOf(r).ttl
Pushing(r) == run[r].pc \in {"controller", "fetch", "put"}
PushedWithinWindow ==
  \A r \in Runners : Pushing(r) =>
    run[r].ips \subseteq run[r].found \cup {a \in Addrs : RowOf(r).ttl > 0 /\ Within(a, r)}

(* Second half, "so short-lived rotations do not cause firewall flapping":  *)
(* an address recorded within the ttl is pushed, so no run takes it off.    *)
(* For a ttl that is not changed; lowering it forgets, and 0 clears.        *)
KeptThroughWindow ==
  \A r \in Runners : (Pushing(r) /\ jobs[Job(r)] # NoRow) =>
    \A a \in Addrs : Within(a, r) => a \in run[r].ips

(* "Delete a job and its history": nothing of a deleted job stays in the    *)
(* tables, even if a run of it is still going on (deleteJob, the cascades). *)
NoRowsOf(j) ==
  /\ \A i \in DOMAIN logs : logs[i] # Deleted => logs[i].job # j
  /\ \A a \in Addrs : observed[j][a] = Never
DeletedJobHasNoRows == \A j \in Jobs : jobs[j] = NoRow => NoRowsOf(j)

(* What stays of a deleted job is there because of a connection without the *)
(* pragma, and of nothing else: its DELETE ran on one, or an insert of a    *)
(* run that was still going on did (Open, DeleteJob, CreateRunLog,          *)
(* UpsertObservedIPs).  The other steps of such a run bring nothing back,   *)
(* whatever connections they get.                                           *)
OrphansAreLoose == \A j \in Jobs : (jobs[j] = NoRow /\ j \notin loose) => NoRowsOf(j)

(* Every path through Run gives the job free again.                         *)
JobReleased == \A j \in Jobs : (j \in running) ~> (j \notin running)
-----------------------------------------------------------------------------
(* The inductive invariants behind the safety properties *)

\* what is set at which point of Run
LocalOK(local) ==
  /\ local.pc # "idle" => local.job \in Jobs
  /\ local.pc \in Holding \ {"load"} => local.row \in Rows
  /\ local.pc \in Logged \cup {"last"} => local.log \in DOMAIN logs
  /\ local.pc = "close" => local.status \in {"success", "error"}
LocalInv == \A r \in Runners : LocalOK(run[r])

TypeInv == TypeOK /\ LocalInv

\* running holds the jobs of the runs between LoadOrStore and Delete
GuardInv ==
  /\ \A r \in Runners : run[r].pc \in Holding => run[r].job \in running
  /\ OneRunPerJob

\* A log is of the run that has opened it, and of its job.
LogInv ==
  /\ \A r \in Runners : IF run[r].pc \in {"idle", "called", "load", "open"}
                        THEN run[r].log = NoLog ELSE run[r].log \in DOMAIN logs
  /\ \A q, r \in Runners : run[q].log = run[r].log /\ run[r].log # NoLog => q = r
  /\ \A r \in Runners :
       run[r].log # NoLog /\ logs[run[r].log] # Deleted => logs[run[r].log].job = run[r].job

\* An open log is of a run that has not closed it.
OpenInv ==
  \A i \in DOMAIN logs : Open(i) => \E r \in Runners : run[r].pc \in Logged /\ run[r].log = i

\* The log of a run is the latest of its job, gone only with the job, and open
\* until the run closes it.
LatestInv ==
  \A r \in Runners : run[r].pc \in Logged \cup {"last"} =>
    /\ \A i \in DOMAIN logs :
         logs[i] # Deleted /\ logs[i].job = run[r].job => i <= run[r].log
    /\ jobs[run[r].job] # NoRow => logs[run[r].log] # Deleted
    /\ run[r].pc # "last" => logs[run[r].log] = Deleted \/ Open(run[r].log)

\* It is closed when the result of the job is set.
ResultInv ==
  /\ \A r \in Runners : At(r, "last") => ~Open(run[r].log)
  /\ LastResultIsLatest

\* The run works on the list of its job, but for untold ones.
RowInv ==
  \A r \in Runners : run[r].pc \in Holding \ {"load"} =>
    LET read == run[r].row  now == jobs[run[r].job]
    IN  IF now = NoRow THEN read.list \in untold
        ELSE read.list = now.list \/ {read.list, now.list} \subseteq untold

\* The diff of a run in progress and the history explain the list.
DiffInv ==
  /\ \A r \in Runners : run[r].pc \notin {"put", "close", "last", "unlock"} =>
       run[r].added = {} /\ run[r].removed = {}
  /\ \A j \in Jobs : \A l \in Lists \ untold : OwnList(j, l) => \A r \in Runners : Holds(r, j) =>
       /\ At(r, "put") => /\ run[r].added = run[r].ips \ lists[l]
                          /\ run[r].removed = (lists[l] \cap Addrs) \ run[r].ips
       /\ At(r, "close") => \A a \in Addrs \cup Ranges :
            a \in lists[l] <=> a \in run[r].added \/ (a \notin run[r].removed /\ Told(j, l, a))
  /\ HistoryExplainsList

\* What the table holds of an address is when it was recorded last.
ObservedInv ==
  \A j \in Jobs : \A a \in Addrs : observed[j][a] # Never => observed[j][a] = seen[j][a]

WindowInv ==
  /\ ObservedInv
  /\ \A r \in Runners : run[r].pc \in {"record", "expire", "observe"} => run[r].row.ttl > 0
  /\ PushedWithinWindow

\* The ttl of the run is that of the job, and its time has come.
Timed == {"record", "expire", "observe", "clear", "controller", "fetch", "put"}
TtlInv ==
  \A r \in Runners :
    /\ (run[r].pc \in Holding \ {"load"} /\ jobs[run[r].job] # NoRow) =>
         run[r].row.ttl = jobs[run[r].job].ttl
    /\ run[r].pc = "clear" => run[r].row.ttl = 0
    /\ run[r].pc \in Timed => run[r].now <= clock

\* An address has left the table only because its time was over, and for good.
Gone(j, a) ==
  /\ seen[j][a] + jobs[j].ttl < clock
  /\ \A r \in Runners :
       (run[r].job = j /\ run[r].pc \in Timed) => seen[j][a] + jobs[j].ttl < run[r].now
KeptInv ==
  /\ \A j \in Jobs : jobs[j] # NoRow =>
       \A a \in Addrs : seen[j][a] # Never =>
         jobs[j].ttl > 0 /\ (observed[j][a] = seen[j][a] \/ Gone(j, a))
  /\ KeptThroughWindow
=============================================================================
