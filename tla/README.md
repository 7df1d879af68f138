# A TLA+ model of go-unifi-network-list-sync

The program keeps the network lists (firewall groups) of a UniFi controller in
line with what a set of hostnames resolves to. It is one Go process with an
SQLite database, a cron scheduler, an HTTP API and a logging package of its own.
The modules here model the parts that run concurrently or survive failures, TLC
checks them on small instances, and TLAPS proves the main safety properties for
instances of any size.

## The system

| Component | State | Operations | Talks to |
|---|---|---|---|
| lifecycle (`main.go`) | where `main` is | start, serve, wait for a signal, deferred stops | everything |
| scheduler (`internal/scheduler`) | `entries`, `mu`, the cron runner, `workQ`, `stopQ` | `Start`, `Stop`, `Reload`, `Remove`, trigger, worker | store, syncer |
| job handlers (`internal/web`) | none but the request | create, update, delete, run a job | store, scheduler, syncer |
| syncer (`internal/syncer/syncer.go`) | `running` | `Run`, `execute` | store, resolver, client |
| retention (`job_observed_ips`) | last time a job saw an address | record, expire, list, clear | used by `execute` |
| store (`internal/store`) | tables, a pool of connections | single SQL statements, one transaction; `migrate` at every start | SQLite |
| resolver (`resolver.go`) | the calls and the budget of one look-up | resolve the lines of a job through authoritative and configured name servers; CNAME chains | DNS |
| client (`internal/unifi`) | API base and site it has found | list, read and replace a list | controller |
| controller and DNS server handlers | a request between two statements | create, update, delete rows of two tables | store, client |
| logging (`internal/logging`) | ring, workers, file, watcher | log, `Configure`, `Close`, rotate | every other part |
| web page (`ui/index.html`) | in the browser | calls the API | handlers |

What is hard, and where it bites, is the list of hazards in `PROJECT.json`.
In short:

* Handlers change a row and the cron entries in two steps, other handlers in
  between, and any statement may fail. The entries, the cron runner and the rows
  must agree in the end.
* Triggers go through a bounded queue to one worker, which is stopped from
  outside and must neither block the shutdown nor be left with work.
* A run is a dozen statements and requests, with the row of its job read at the start. Manual runs, the worker, edits,
  deletions, an administrator and crashes come in between, and each step can fail.
* Retention compares times that were taken in different runs, under a ttl that
  may have changed.
* A name is asked of every server and through aliases, which may form a loop; one
  budget of time covers all of it, and each of these questions can fail alone.
* A client keeps the base and the site it has found, while sites are renamed, the
  controller is upgraded, answers get lost and login pages come with status 200.
* An update of a controller that leaves the key out reads the stored one and writes
  it back; the controller may get another key or be deleted in between.
* Every start seeds an empty table of DNS servers, row by row, and may be cut off.
* The ring is overwritten under slow readers; the readers are replaced and the
  file rotated while everybody logs.

## Modules

| Module | Models | Role |
|---|---|---|
| `Scheduler` | scheduler.go, the job handlers, the main sequence | component |
| `SchedulerProofs` | | theorems |
| `MCScheduler` | | instances for TLC |
| `RunLock` | what the map of running jobs is for: a job is taken by one goroutine, which gives it back | abstract specification |
| `Syncer` | `Run`, `execute`, the store methods they call, the lists of the controller | component, implements `RunLock` |
| `SyncerProofs` | | theorems: types, the map of running jobs; what a step of a run changes |
| `SyncerHistoryProofs` | | theorems: jobs, run logs and their cascades, diffs |
| `SyncerRetentionProofs` | | theorems: observed addresses |
| `MCSyncer` | | instances for TLC |
| `Resolver` | resolver.go: from the lines of a job to addresses | component |
| `ResolverProofs` | | theorems |
| `MCResolver` | | instances for TLC |
| `ListAccess` | what a client promises its caller: one site, the one the settings name, and a call with at most one effect | abstract specification |
| `Client` | client.go and the controller it talks to | component, implements `ListAccess` |
| `ClientProofs` | | theorems |
| `MCClient` | | instances for TLC |
| `Settings` | the handlers and tables of controllers and DNS servers, the reference of a job to its controller, seeding by `migrate` | component |
| `SettingsProofs` | | theorems |
| `MCSettings` | | instances for TLC |
| `LogStream` | what logging promises: an ordered stream per sink, losses only by overflow or replacement | abstract specification |
| `Logging` | logging.go: ring, workers, `Configure`, `Close`, rotation | component, implements `LogStream` |
| `LoggingProofs` | | theorems |
| `MCLogging` | | instances for TLC |

The components meet at few points, so each module keeps the others as choices:
for `Scheduler` a run is a job the worker holds until `Run` returns; for `Syncer`
a goroutine calls `Run` with a job id, whichever way it got it, and a look-up gives some
of the addresses its names may have, and the controller reads and replaces a list or
fails; `Resolver` is one such look-up, and a `get` and a `put` of `Client` are what a run
does between `Fetch` and `Put`; `Settings` says which controller and key a run gets
(`RunKeepsController`), and `LoadController` of `Syncer` may fail where it gets none; logging is
invisible to both, except that a goroutine which logs may have to wait (see
`LoggersReturn`).

### Scheduler

`jobs` is the table, reduced to `enabled` and `schedule`; `entries` the map,
`cron` the live entries of the cron library, `mu` the mutex, `workQ` the channel,
`firing` the trigger goroutines cron has started and not seen return, `req` the
handlers in progress with their place in the code, `main` the lifecycle.

A handler is split where others can get in between: the SQL statement of
`createJob`, `updateJob` and `deleteJob`; taking `s.mu` and removing the old entry
(`ReloadLock`); the read of the row (`ReloadLoad`), which happens with the mutex
held while the table changes underneath; scheduling it (`ReloadSchedule`). A DELETE
arrives (`DeleteJob`), waits for the mutex in `Remove` (`RemoveLock`) and only then
deletes the row (`DeleteRow`). Requests are taken, and go on, until the process ends: a
handler that `srv.Shutdown` no longer waits for runs beside `Stop`. `Start`
adds the entries one by one. `Stop` stops cron and waits for the triggers
(`CronStop`), closes `stopQ` (`CloseStopQ`), and the process ends (`Exit`) while the
worker is wherever it is. `Crash` and `Restart` lose all memory.

The scheduler's runner, its entry ids and its trigger goroutines are those of
`robfig/cron`, modelled from how the code uses them: `AddFunc` rejects an expression
it cannot parse, `Remove` takes an entry off, `Stop` returns a context that is done
when the started triggers have returned.

### Syncer

`run[r]` is the program counter and the locals of a goroutine in `Run`; `running` is
the `sync.Map`. Each SQL statement and each request is an action, in the order of
the code: `Acquire` or `Skip`, `LoadJob`, `OpenLog`, `Resolve`, `Record`, `Expire`,
`Observe` (or `Clear`), `LoadController`, `Fetch`, `Put`, `CloseLog`, `SetLast`, `Unlock`.
Every error path is a disjunct. `LoadController` may fail although no statement does: it looks
for the controller of the row that was read at the start, which may have been deleted once the
job has been moved or deleted (`ControllerMayBeGone`). `Events` says what may happen around the runs; `FKModes` whether a
statement gets a connection of the pool on which `PRAGMA foreign_keys` was
executed. `seen` is a history variable: when a run of the job last recorded an
address, kept through expiry and deletion, so that the properties of retention do
not restate the table. Two more histories keep track of what excuses a property: `loose`
has the jobs whose DELETE, or an insert after it, ran on a connection without the pragma, and
`untold` the lists that hold more or less than one job has logged, each since the step that
made it so (an edit on the controller, a push over ranges, a lost reply, a diff that no log has
got, a job moved from or to the list or deleted).

Addresses, lists and ranges are model values, a job is the set of its literals,
the set its names may resolve to, its ttl and its list. Times are whole hours.
`dns` stands for what the hostnames may resolve to; each run finds a subset.

### Resolver

`phase` is where `ResolveHostnames` stands: between two lines (`next`), in the NS queries
of a zone (`ns`), in the addresses of the name servers found (`nsaddr`) or in those of
the name itself (`addr`). `stack` holds the nested calls of `lookupAWithServers`, each
with the servers it has yet to ask and what it has found; `AskA` is one question,
`Follow` a nested call for an alias, `Return` the end of a call. `sources` is the result.

`spent` is the time since the context of the name was made. A question takes up to
twice `Slow` (UDP, then TCP), never more than is left, and none is sent, let alone succeeds,
once `Budget` is used up (`Sends`): the context has expired and the exchange fails at once. Servers answer with a member of `AAnswers` or `NSAnswers`, not always the same
one; `Silent` servers never answer, `Steady` ones always do and at once. What a line is
and which zones it has are constants. The servers are asked in the order of the table
and the addresses sorted at the end: the model takes any order and a set.
`heard` and `asked` are history variables; a server is in `asked` only if the question was sent.
Both callers refuse an empty table of servers (`syncer.go:78`, `handler.go:459`), so that
`Configured` has one is an assumption.

### Client

`client[c]` is a `Client` together with the call a goroutine is in: the label the settings
give, the base and the id of the site once they are found, what the call does (`op`), what
it has asked for (`req`: a probe of a base, the sites, the operation), and the answer it has
not looked at yet. A request and the look at its answer are two steps; in between the
controller serves it (`Answer`), refuses it (`Refuse`: no answer, a bad status, a body that
does not parse, a login page), or serves administrators, who edit lists (`Edit`), rename,
add and remove sites (`Arrange`) and upgrade the controller, which changes the bases where it
serves the API (`Upgrade`). An update takes effect when it is served, and its answer may
be lost. `Proceed` is `resolveSiteID` and `detectAPIBase`: what a call asks for next, from
what the client knows. The controller is not in the repository and is modelled from
the requests. A page of sites holds `PageLimit` of them.

A list is reduced to its content, and what a caller `c` writes is `c`. `ListAccess` has no
requests, pages or bases: the refinement mapping takes the site a client has found from
the first match on the page it has just received, and a call has taken effect when a list
was read or `wrote` is set.

### Settings

`ctrls`, `refs` and `servers` are the columns the properties need of the tables `controllers`,
`sync_jobs` and `dns_servers`; of servers, which nobody refers to, the number of
rows of each kind. Handlers of one statement are one action. `updateController` without a key
is two, `UpdateRead` and `UpdateWrite`, and `req` is the request in between. `Store` replaces a
row. `FKModes` is what it is in `Syncer`. `phase` and `seeding` are where `migrate` stands:
`Count` looks whether there are servers, `Seed` inserts one and drops its error, `Crash` ends
the process anywhere. `run` is a goroutine in `Run` between `RunReadsJob` and
`RunTakesController`, with the id it has read. Histories: `given` is the key an operator gave a controller
last, `left` the servers as operators have left them (`Untouched` before the first of them
does anything), `upset` the controllers whose key
an update has put back that was overtaken by one with a key, `born` how often a controller was
created under an id, and `loose` the ids whose references a connection without the pragma has
let dangle.

### Logging

An event is its number. `Push` is the ring's push with the counters and the
broadcast, one step under `Manager.mu`. A worker parks, collects all there is under
the mutex, and then writes event by event outside it. `Configure` and `Close` are
two steps each, for `stopWorkersLocked` gives the mutex back while it waits. Rotation
keeps the mutex between closing the file and opening the new one, and workers may
write in between. `worker[<<g, s>>]` is the worker that the g-th call of
`Configure` made for sink `s`, so old and new workers can be told apart.

The model starts behind `init`, which has called `Configure` with the defaults.
`main` is the only caller of `Configure` and `Close`, one after another. Two overlapping
calls are outside the model: the second would reset `workersDone` before the workers
of the first have seen it.

## Runs

All runs check for deadlock except those of `Logging`, where a watcher that is stuck in
its own log message stops everything.

| Run | What it shows |
|---|---|
| `schedule_safety` | `TypeOK`; `EntriesTrackCron`: no entry of cron is out of reach of the map; `ScheduleMatches`: whatever handlers ran at once, a job none of them is at fires exactly as its row says, also after a restart; `WorkerLeavesNothing` |
| `schedule_progress` | requests are answered and a shutdown ends even if a run hangs for ever; a queued job runs if runs return |
| `schedule_deleted` | violation: an update during a deletion leaves an entry for a job that is gone |
| `sync_runs` | `ImplementsRunLock` (refinement of `RunLock`), `OneRunPerJob`, `OpenLogHasItsRun`, `LastResultIsLatest`; `HistoryExplainsList`: the diffs of a job's history make up what its list holds; `JobReleased`: every run gives its job free |
| `sync_orphans` | violation: a deletion on a connection without foreign keys leaves the rows of the job |
| `sync_retention` | every event enabled, connections with and without foreign keys: `PushedWithinWindow`, `KeptThroughWindow`; `OrphansAreLoose`: only a connection without the pragma leaves rows of a deleted job; `HistoryExplainsList` up to the step that makes a list untold |
| `resolve_lookup` | `SourcesExact`: the result is all that servers said about the names, and nothing else; `EveryServerAsked`, as long as there is time; `Terminates`, with aliases in a loop |
| `resolve_silent` | violation: one silent server uses up the budget before the name is asked |
| `client_access` | `ImplementsListAccess` (refinement of `ListAccess`); `CallsReturn`: every call ends, whatever earlier calls left in the client |
| `settings_rows` | `KeyIsLastGiven`; `RunKeepsController`: a run finds the controller its job had, or none, and none only if the job was moved or a reference dangles; `DeletedStaysDeleted`: no update revives a controller; `RestartKeepsServers`: a start leaves alone the servers operators have left, and an interrupted seeding repeats none |
| `log_outputs` | `ImplementsStream` (refinement of `LogStream`), `RingHoldsWindow`, `StoppedDrained`, `MissedCountsLosses`, `HandlerIsCurrent`, `EventsReachSinks`, `CallerReturns`, for every choice of outputs, with rotation and failing opens |
| `log_stuck` | violation: the clean-up of rotated files logs with the mutex held |

### Bounds

* Two jobs and two requests: a race between handlers needs two of them at one job;
  the second job competes for the queue and the worker. Three entry ids, for each
  job can have one and a reload gets a new one. A queue of two (one in
  `schedule_progress`) with one trigger per job on its way fills and empties. Rows cover
  two schedules, one cron rejects, an empty one and a disabled job.
* Two goroutines in `Run`, the worker and a manual run: they meet at one job or work
  on two. Two jobs and two lists in `sync_runs`, so that jobs have a list each or one in
  common, and a range on one of the lists; one job that may be moved between two lists in
`sync_retention`, where the data grow. Its rows have one ttl, since `KeptThroughWindow` is about
a ttl that stays; that `PushedWithinWindow` holds through changes of the ttl rests on the theorem
`PushesNothingOld`. Two addresses: one that
  stays while the other comes and goes. `MaxTime` is longer than the ttl, so
  addresses expire; `MaxLogs` bounds the runs that get as far as a log (two or three:
  one that leaves something behind and one that meets it).
* A literal and two names that alias each other, two configured servers and one found by
  discovery, which may fail in each of its parts. In `resolve_lookup` the budget is
  three units with one per timeout, so that it lasts for some questions and not for all,
  and the depth is two, so that the loop of aliases is cut. `resolve_silent` has the
  code's numbers: 5 seconds, 2 per question, depth 8.
* One client: clients share nothing but the controller, and what another client does to a
  list is what an administrator does. The tables of sites have the name at one site, at
  another, at two, and at one that is not on the first page of two.
* Two controllers, so that an id comes after a deleted one (`MaxID`), one key and the mask,
  which `createController` takes for one, two updates
  without a key at once, a job and a run of it. Two well-known servers, and at most two rows beside what
  seeding inserts (`MaxServers`).
* A ring of two slots and three events wraps around and overflows; one logging
  goroutine suffices for safety, for a push is a single step. Two calls of
  `Configure`, one rotation (two in `log_stuck`).

### Fairness

`FairSpec` of `Scheduler` gives weak fairness to every goroutine that can go on and
strong fairness to taking `s.mu`, which a `sync.Mutex` hands to a starving waiter.
Requests, cron's clock, signals and crashes have none. That `Run` returns is no part
of it: the HTTP client of a run has no timeout (`client.go:146`), so a controller
that never answers holds the worker for ever. `QueuedJobRuns` has it as its
hypothesis, `RunsReturn`; the shutdown and the requests do without it.

`FairSpec` of `Syncer` lets a run go on from step to step, that is, name servers and
controller answer or fail. `FairSpec` of `Client` says the same of each request; for the
HTTP client without a timeout that is for the network to see to. `FairSpec` of `Resolver` is weak fairness of its steps: the
deadline of the context and the timeout of the DNS client end every exchange.
`FairSpec` of `Logging` lets goroutines run and writes return.
All four are weak fairness only.

## Proofs

TLAPS proves, for every value of the constants that satisfies the stated
assumptions:

| Theorem | States | Argument |
|---|---|---|
| `TypeCorrect` (Scheduler) | `TypeOK` | part of `BookInv` |
| `EntriesSafe` | `EntriesTrackCron` | `BookInv` |
| `ScheduleSafe` | `ScheduleMatches`, if `~DBMayFail` | `MatchInv` |
| `WorkerSafe` | `WorkerLeavesNothing` | `StopInv` |
| `TypeCorrect` (Syncer) | `TypeOK` | `TypeInv` |
| `RunsExclusive` | `OneRunPerJob` | `GuardInv` |
| `RunImplementsLock` | `ImplementsRunLock` | `GuardInv` |
| `DeletionComplete` | `OrphansAreLoose` | itself |
| `OpenLogsRunning` | `OpenLogHasItsRun`, if neither `"log"` nor `"crash"` is among `Events` | `LogInv`, `OpenInv` |
| `LastResultCurrent` | `LastResultIsLatest`, on the same condition | `LatestInv`, `ResultInv` |
| `HistoryComplete` | `HistoryExplainsList` | `RowInv`, `DiffInv` |
| `PushesNothingOld` | `PushedWithinWindow`, whatever the `Events` | `WindowInv` |
| `KeepsWhatIsRecent` | `KeptThroughWindow`, for a fixed ttl | `TtlInv`, `KeptInv` |
| `TypeCorrect` (Resolver) | `TypeOK` | part of `ResolveInv` |
| `ResultExact` | `SourcesExact` | `ResolveInv` |
| `AllServersAsked` | `EveryServerAsked` | `AskedInv` |
| `TypeCorrect` (Logging) | `TypeOK` | part of `LogInv` |
| `RingSound` | `RingHoldsWindow` | `RingInv` |
| `LossesCounted` | `MissedCountsLosses` | `LogInv` |
| `WorkersDrain` | `StoppedDrained` | `WorkerInv` |
| `HandlerCurrent` | `HandlerIsCurrent` | `ActiveInv` |
| `StreamImplemented` | `ImplementsStream` | `LogInv`, `ActiveInv`, `StreamInv` |
| `OutputsInOrder` | `Stream!InOrder`, which is not a property of a run | `Stream!OrderInv` |
| `TypeCorrect` (Client) | `TypeOK` | part of `ClientInv` |
| `ClientImplementsAccess` | `ImplementsListAccess` | `ClientInv` |
| `TypeCorrect` (Settings) | `TypeOK` | itself |
| `KeysSafe` | `KeyIsLastGiven` | `KeyInv` |
| `DeletedForGood` | `DeletedStaysDeleted` | `IdInv` |
| `RunsKeepController` | `RunKeepsController` | `RefInv` |
| `ServersSafe` | `RestartKeepsServers` | `ServerInv` |

`EntriesTrackCron` is not inductive: that `ReloadSchedule` may add an entry needs to
know that the handler holds the mutex and that the map has no entry for its job,
and that cron's ids are unique. `BookInv` adds this, and that `Start` works
before any request.

`ScheduleMatches` needs more, for while handlers overlap a row may already differ
from what is about to be scheduled. `StaleInv` says why that is harmless: whoever
is about to schedule an outdated row shares the job with a handler that will reload
it again (or delete it). The theorem assumes that the statements of handlers
succeed. It is false otherwise: `Reload` has removed the entry when its read fails.

`OneRunPerJob` follows from `running`: `GuardInv` says that the job of every goroutine
between `LoadOrStore` and `Delete` is in it. It must hold through every early return,
failure and crash, so the proof has a case for each step; `TypeInv` (which locals
are set at which step) comes first. `RunImplementsLock` maps the goroutines in `Run`, with
their jobs, to the pairs of `RunLock`: `Acquire` takes one, `Unlock` gives back the one it
took and no other, `Crash` drops them all, and every other step is a stutter.

The histories of a job rest on what the locals of `Run` say of the tables while other
goroutines change them. `LogInv` of Syncer: a log belongs to one run and to the job of that run.
`OpenInv` adds that an open log is one of a run that still has to close it, which a failing
`UpdateRunLog` or a crash makes false; hence the condition of `OpenLogsRunning`. For
`LastResultIsLatest`, `LatestInv` says that a run holds the newest log of its job, which
`OneRunPerJob` makes true: it is here that a second goroutine at the same job would show. The
log may be gone only with the job. `DeletedJobHasNoRows` is false (`sync_orphans`), since nothing
makes a connection of the pool have the pragma. `OrphansAreLoose` is what is left of it without
any assumption on the connections: the DELETE and the two inserts are the only places where the
pragma matters, so an update, a failure, a crash or an expiry never brings a row back.

`HistoryExplainsList` is about the time between two runs; `DiffInv` carries it across a run.
Before the PUT the diff is what separates the addresses from the list, and after it, until the
log is closed, the list is explained by the history with the diff of the run on top. The theorem
assumes nothing of the `Events`: what can separate history and list is named step by step in
`untold`, and the proof shows that there is nothing else. `RowInv` does this for edits and
deletions of a job under its run, which works on with the row it read: the lists of the two
rows are the same, or both are untold.

For retention, `ObservedInv` says that an address in the table has the time when a run recorded
it last. `PushesNothingOld` then follows from what `Expire` and `Observe` let through, and needs
no assumption. The other half is harder, since an address must not have left the table too early
and runs take their time at different moments: `KeptInv` says that a recorded address is in the
table with that time, or `Gone`, its ttl over for the clock and for every run that works with an
earlier time. `TtlInv` keeps the ttl of a run that of its job. If the ttl of a job could change,
a raised one would bring back the claim for addresses that have expired under the lower one.

`SourcesExact` compares the result with what was heard over a whole look-up, so its
invariant must say where the addresses are in between: `HeardInv` has it that, while a
name is being looked up, the calls on `stack` together hold exactly what servers have
said. Asking adds to the call on top and to `heard` alike, following an alias adds an
empty call, and returning moves the addresses of a call to its caller; the last return
moves them into `sources`. `TypeOK` bounds the stack by `MaxDepth`, for whatever aliases.

`AskedInv` follows the outermost call for a name: as long as time is left, the servers it has
asked and those it has left are together the configured ones and those found. Since `spent` only
grows, a look-up that ends in time has had time for every question. Nested calls for aliases ask the same
servers again and leave the outermost call as it is, and an error of one server never leaves
the loop.

`LogInv` of Logging is checked by TLC and proved inductive for any capacity. That
`push` keeps every number of the window in its slot rests on `DifferentSlots`: numbers
less than `Cap` apart differ modulo `Cap`, which is proved from division with remainder.
`StoppedDrained` needs two more facts: a worker holds a batch exactly while it
writes, and `workersDone` is set only after the workers have been taken off the list
(so none of the next set of workers is ever stopped by the old flag). That a batch
is well formed needs the ring to be sound, and that the counter covers the losses
needs the tail to move by one at a time, so the parts are proved together.

`ActiveInv` says which workers count: those that run are of the last call of `Configure`, on the
manager's list or waited for by the caller. For `HandlerIsCurrent`, `Configure` must not
find a worker of an earlier generation that still writes, and rotation must leave the handler
with the new file or without one.

That `Logging` implements `LogStream` is the largest proof. The next event a sink has to write,
`due`, is where the batch of its latest worker begins, or the place where it collects next.
`StreamInv` makes this one number: a batch ends just before `next` and has no gaps, the window
is full once anything has been overwritten, and of the workers of a sink one is the
latest. Collecting from a reader left behind is then `Miss` (or a stutter), writing is `Write`
or `Lose`, `Configure` is `Attach` for the sinks that get a new worker, and rotation is
`Rotate`. `OutputsInOrder` draws the consequence for the reader of a sink from `LogStream`
alone: numbers go up, none twice.

`ClientImplementsAccess` has one lemma per action of `Client`, which says which action of
`ListAccess` it is. Most are stutters; `Call` begins, an answer with a list or an update that is
served takes effect, an answer with a page on which a site bears the label locates it, and
the end of a call returns. That they fit needs three facts, for each client alone: a request
belongs to a call and an answer to its request (`CallInv`); the site is known before the
list is asked for, and not looked up again (`PlaceInv`); `wrote` is set exactly by an update
that took effect (`WroteInv`). The table of sites, the size of a page, the labels and the
number of callers are arbitrary.

`KeysSafe` rests on `ReadInv`: an update without a key that nothing has overtaken holds the
key given last, and on `IdInv`: an id given out is never used again, so that an update on its
way cannot meet another controller under its id. The latter also gives `DeletedForGood`.
`RunsKeepController` rests on `RefInv`: an id beyond the last one given out has borne no
controller, so that none can be created under the id a run holds; a run whose job has not moved
holds the id the job refers to, and that reference leads to a controller or is `loose`. Nothing is
assumed of the connections. The foreign keys alone would not do: they keep the controller of a
job, not that of a run.
`ServersSafe` needs to know, while servers are being seeded, that operators have left
none and that those still to be inserted are not in the table (`SeedInv`), for which the
well-known servers must differ (`SettingsAssumption`).

Every property of a passing run that is not about liveness is stated by a theorem. The liveness
properties, `QueuedJobRuns`, `ShutdownTerminates`, `RequestsComplete`, `JobReleased`,
`EventsReachSinks`, `CallerReturns`, `CallsReturn` and `Terminates`, need fairness and `ENABLED`,
which TLAPS does not prove here, and are checked by TLC only. So are the properties of the
violation runs, which are false.

## Where code and documentation differ

The violation runs are listed under `findings`. Others were met while modelling
and are not run:

* A literal taken off a job stays in the table of observed addresses, where it was
  recorded as if it were an answer (`syncer.go:90`, `store.go:150`), and is pushed until
  its ttl is over.
* Address ranges on a list are skipped when it is read (`syncer.go:223`), so the PUT
  erases them and no diff mentions them, though `README.md:18` promises diffs.
* The log of a run that is cut off, or whose `UpdateRunLog` fails, says `running` for
  ever (`syncer.go:51`).
* `PRAGMA foreign_keys=ON` reaches one connection of the pool (`store.go:82`), so
  deletions on another leave rows behind (`sync_orphans`) and a controller can be deleted
  under its jobs.
* A run looks its controller up by the id in the row it read at the start (`syncer.go:40`,
  `syncer.go:107`). If the job is moved to another controller meanwhile, the old one can be
  deleted, with foreign keys on, and the run fails although its job is in order.
* `Stop` closes `stopQ` and `main` returns, with triggers in the queue and a run under way,
  although the worker is said to drain the queue before it exits (`scheduler.go:44`,
  `scheduler.go:74`).
* Lists and sites are read with `limit=200` and no second page (`client.go:235`,
  `client.go:263`): a site or a list beyond it is not found.
* `createController` takes the mask for a key, and an update with a blank site stores it,
  where a new controller gets the default.
* An update of a controller without a key that overlaps one with a key brings the older key
  back (`handler.go:196`), and the update of a controller that is gone answers 200.
* The DNS servers come back at every start that finds the table empty, also if an operator has
  emptied it, though they are to be seeded "on first run" (`store.go:160`); `RestartKeepsServers`
  says nothing of such a table. A seeding that was cut off is never completed.
* `runJob` answers `started` for a run that is then skipped (`handler.go:419`).
* Manual runs write the database beside the worker, whose comment
  (`scheduler.go:37`) says that the queue prevents this.
* A PUT that was applied and whose reply is lost is in no diff; a change made on the
  controller between GET and PUT is overwritten.
* An event that is overwritten is counted twice in `missed`, and one that is
  written to a file closed by rotation is not counted.

## Not modelled

* The web page, which keeps no state on the server, and the connection of the syslog sink,
  which no flag of the program enables; as a sink it behaves like the console.
* JSON and HTTP decoding, formatting of log lines, level filters and attributes, SQL as
  such, TLS, parsing of lines and of DNS messages: data that no property tells apart. In
  `Client` an answer of status 2xx whose JSON comes from something other than the API is left out.
* Which connection of the pool a statement gets, and SQLite's single writer: they belong
  to `database/sql` and the driver. A statement may get either kind of connection and may fail.
* Sinks that hang in a write: `Close` then never returns (`logging.go:198`).
* Overlapping calls of `Configure` and `Close`, which `main` does not make.

## Plan

1. Proofs: what `RunLock` and `ListAccess` are worth to their users, as `OutputsInOrder` is
   for `LogStream`.
2. `App`: `Scheduler` and `Syncer` composed, the worker's hold on a job being a run, and
   `Client` in place of `Fetch` and `Put`.
3. `RetentionWindow`: what the table of observed addresses promises a run, with `Syncer`
   as its implementation.
