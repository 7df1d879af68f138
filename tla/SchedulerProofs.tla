-------------------------- MODULE SchedulerProofs --------------------------
(***************************************************************************)
(* Safety of Scheduler for every number of jobs, requests and entries and  *)
(* every queue capacity.                                                   *)
(***************************************************************************)
EXTENDS Scheduler, TLAPS

(* Actions that leave the table, the entries and the requests alone *)
QuietStep ==
  \/ \E e \in cron : Fire(e)
  \/ \E j \in Jobs : Enqueue(j)
  \/ WorkerStep
  \/ CronStart \/ CronStop \/ CloseStopQ \/ Exit \/ Signal

(* Next, with its actions regrouped by what they touch. *)
LEMMA NextCases ==
  ASSUME [Next]_vars
  PROVE  \/ \E c \in Clients, j \in Jobs, row \in Rows : CreateJob(c, j, row) \/ UpdateJob(c, j, row)
         \/ \E c \in Clients, j \in Jobs : DeleteJob(c, j)
         \/ \E c \in Clients : ReloadLock(c)
         \/ \E c \in Clients : ReloadLoad(c)
         \/ \E c \in Clients : ReloadSchedule(c)
         \/ \E c \in Clients : RemoveLock(c)
         \/ \E c \in Clients : DeleteRow(c)
         \/ \E j \in Jobs : StartJob(j)
         \/ Crash \/ Restart
         \/ QuietStep
         \/ UNCHANGED vars
  BY DEF Next, Arrive, HandlerStep, MainStep, QuietStep

(* The id AddFunc returns is an id, and no live entry has it. *)
LEMMA FreshId ==
  ASSUME FreeIDs # {}
  PROVE  LET id == CHOOSE i \in FreeIDs : TRUE IN
         id \in EntryIDs /\ \A e \in cron : e.id # id
  BY DEF FreeIDs
-----------------------------------------------------------------------------
LEMMA InitBook == Init => BookInv
<1> SUFFICES ASSUME Init PROVE BookInv
  OBVIOUS
<1>1. TypeOK
  BY ConstantsAssumption DEF Init, TypeOK, Request, IdleRequest, IdleWorker, WorkerPC, MainPC
<1>2. RequestInv /\ IdsUnique /\ EntriesTrackCron /\ StartInv
  BY DEF Init, RequestInv, IdsUnique, EntriesTrackCron, IdleRequest, StartInv
<1> QED BY <1>1, <1>2 DEF BookInv

(* What scheduleJob does to a job that has no entry. *)
LEMMA ScheduleBook ==
  ASSUME BookInv, NEW j \in Jobs, NEW row \in Rows \cup {NoRow},
         entries[j] = NoEntry, ScheduleJob(j, row)
  PROVE  /\ entries' \in [Jobs -> EntryIDs \cup {NoEntry}]
         /\ cron' \in SUBSET CronEntry
         /\ IdsUnique'
         /\ EntriesTrackCron'
         /\ \A k \in Jobs \ {j} : entries'[k] = entries[k]
<1> USE ConstantsAssumption
<1>1. CASE row.schedule \in Specs
  <2> DEFINE id == CHOOSE i \in FreeIDs : TRUE
             new == [id |-> id, job |-> j, schedule |-> row.schedule]
  <2>1. /\ FreeIDs # {}
        /\ cron' = cron \cup {new}
        /\ entries' = [entries EXCEPT ![j] = id]
    BY <1>1 DEF ScheduleJob
  <2>2. id \in EntryIDs /\ \A e \in cron : e.id # id
    BY <2>1, FreshId
  <2>3. new \in CronEntry /\ new.id = id /\ new.job = j
    BY <1>1, <2>2 DEF CronEntry
  <2> HIDE DEF id, new
  <2>4. /\ entries \in [Jobs -> EntryIDs \cup {NoEntry}]
        /\ cron \in SUBSET CronEntry /\ \A e \in cron : e.job \in Jobs
    BY DEF BookInv, TypeOK, CronEntry
  <2>5. entries' \in [Jobs -> EntryIDs \cup {NoEntry}] /\ cron' \in SUBSET CronEntry
    BY <2>1, <2>2, <2>3, <2>4
  <2>6. IdsUnique'
    BY <2>1, <2>2, <2>3 DEF BookInv, IdsUnique
  <2>7. \A e \in cron : e.job # j
    BY <2>4 DEF BookInv, EntriesTrackCron, CronEntry
  <2>8. EntriesTrackCron'
    BY <2>1, <2>2, <2>3, <2>4, <2>7 DEF BookInv, EntriesTrackCron
  <2>9. \A k \in Jobs \ {j} : entries'[k] = entries[k]
    BY <2>1, <2>4
  <2> QED BY <2>5, <2>6, <2>8, <2>9
<1>2. CASE row.schedule \notin Specs
  BY <1>2 DEF ScheduleJob, BookInv, TypeOK, IdsUnique, EntriesTrackCron
<1> QED BY <1>1, <1>2

(* What dropping the entry of a job does, whether it has one or not. *)
LEMMA UnscheduleBook ==
  ASSUME BookInv, NEW j \in Jobs, Unschedule(j)
  PROVE  /\ entries' \in [Jobs -> EntryIDs \cup {NoEntry}]
         /\ cron' \in SUBSET CronEntry
         /\ IdsUnique'
         /\ EntriesTrackCron'
         /\ entries'[j] = NoEntry
         /\ \A k \in Jobs \ {j} : entries'[k] = entries[k]
         /\ cron' = {e \in cron : e.job # j}
<1> USE ConstantsAssumption
<1>1. /\ entries \in [Jobs -> EntryIDs \cup {NoEntry}]
      /\ cron \in SUBSET CronEntry
      /\ \A e \in cron : e.job \in Jobs /\ e.id \in EntryIDs
  BY DEF BookInv, TypeOK, CronEntry
<1>2. /\ cron' = {e \in cron : e.id # entries[j]}
      /\ entries' = [entries EXCEPT ![j] = NoEntry]
  BY DEF Unschedule
<1>3. \A e \in cron : e.id = entries[j] <=> e.job = j
  BY <1>1 DEF BookInv, EntriesTrackCron, IdsUnique
<1>4. cron' = {e \in cron : e.job # j}
  BY <1>2, <1>3
<1>5. /\ entries' \in [Jobs -> EntryIDs \cup {NoEntry}] /\ cron' \in SUBSET CronEntry
      /\ entries'[j] = NoEntry
      /\ \A k \in Jobs \ {j} : entries'[k] = entries[k]
  BY <1>1, <1>2
<1>6. IdsUnique'
  BY <1>4 DEF BookInv, IdsUnique
<1>7. EntriesTrackCron'
  BY <1>1, <1>4, <1>5 DEF BookInv, EntriesTrackCron
<1> QED BY <1>4, <1>5, <1>6, <1>7
-----------------------------------------------------------------------------
(* BookInv is inductive. *)
LEMMA NextBook == BookInv /\ [Next]_vars => BookInv'
<1> SUFFICES ASSUME BookInv, [Next]_vars PROVE BookInv'
  OBVIOUS
<1> USE ConstantsAssumption, RowsAssumption
<1>0. TypeOK /\ RequestInv /\ IdsUnique /\ EntriesTrackCron
  BY DEF BookInv
<1>a. StartInv
  BY DEF BookInv
<1>1. ASSUME NEW c \in Clients, NEW j \in Jobs, NEW row \in Rows,
             CreateJob(c, j, row) \/ UpdateJob(c, j, row)
      PROVE  BookInv'
  <2>0. /\ jobs' \in [Jobs -> Rows \cup {NoRow}] /\ used' \in SUBSET Jobs
        /\ main # "boot" /\ Goto(c, "lock", j, NoRow)
        /\ UNCHANGED <<entries, mu, cron, firing, workQ, worker, main, toStart>>
    <3>1. CASE CreateJob(c, j, row)
      BY <1>0, <3>1 DEF TypeOK, CreateJob, Accepting, book, queue
    <3>2. CASE UpdateJob(c, j, row)
      BY <1>0, <3>2 DEF TypeOK, UpdateJob, Accepting, book, queue
    <3> QED BY <1>1, <3>1, <3>2
  <2>1. TypeOK'
    BY <1>0, <2>0 DEF TypeOK, Request, Goto
  <2>2. RequestInv' /\ IdsUnique' /\ EntriesTrackCron' /\ StartInv'
    BY <1>0, <2>0 DEF TypeOK, Request, Goto, RequestInv, IdsUnique, EntriesTrackCron, StartInv
  <2> QED BY <2>1, <2>2 DEF BookInv
<1>2. ASSUME NEW c \in Clients, NEW j \in Jobs, DeleteJob(c, j)
      PROVE  BookInv'
  <2>1. TypeOK'
    BY <1>0, <1>2 DEF TypeOK, Request, DeleteJob, Goto, tables, book, queue
  <2>2. RequestInv' /\ IdsUnique' /\ EntriesTrackCron' /\ StartInv'
    BY <1>0, <1>2 DEF TypeOK, Request, DeleteJob, Accepting, Goto, tables, book,
                      RequestInv, IdsUnique, EntriesTrackCron, StartInv
  <2> QED BY <2>1, <2>2 DEF BookInv
<1>3. ASSUME NEW c \in Clients, ReloadLock(c)
      PROVE  BookInv'
  <2>1. req[c].job \in Jobs /\ Unschedule(req[c].job) /\ mu = Free /\ mu' = c
    BY <1>0, <1>3 DEF ReloadLock, RequestInv
  <2>2. TypeOK'
    BY <1>0, <1>3, <2>1, UnscheduleBook DEF TypeOK, Request, ReloadLock, Goto, tables, queue
  <2>3. RequestInv'
    BY <1>0, <1>3, <2>1, UnscheduleBook DEF TypeOK, Request, ReloadLock, Goto, RequestInv
  <2>4. StartInv'
    BY <1>a, <1>3 DEF ReloadLock, StartInv
  <2> QED BY <2>1, <2>2, <2>3, <2>4, UnscheduleBook DEF BookInv
<1>4. ASSUME NEW c \in Clients, ReloadLoad(c)
      PROVE  BookInv'
  <2>1. req[c].job \in Jobs /\ mu = c /\ jobs[req[c].job] \in Rows \cup {NoRow}
    BY <1>0, <1>4 DEF ReloadLoad, RequestInv, TypeOK
  <2>2. TypeOK'
    <3>1. req' \in [Clients -> Request] /\ mu' \in Clients \cup {Free}
      <4>1. CASE Goto(c, "schedule", req[c].job, jobs[req[c].job]) /\ UNCHANGED mu
        BY <1>0, <2>1, <4>1 DEF TypeOK, Goto, Request
      <4>2. CASE Finish(c) /\ mu' = Free
        BY <1>0, <4>2 DEF TypeOK, Finish, Request, IdleRequest
      <4> QED BY <1>4, <4>1, <4>2 DEF ReloadLoad
    <3> QED BY <1>0, <1>4, <3>1 DEF TypeOK, ReloadLoad, tables, queue
  <2>3. RequestInv'
    <3>1. CASE /\ Wanted(jobs[req[c].job]) /\ UNCHANGED <<mu, entries>>
               /\ Goto(c, "schedule", req[c].job, jobs[req[c].job])
      BY <1>0, <1>4, <3>1 DEF TypeOK, ReloadLoad, Goto, RequestInv
    <3>2. CASE Finish(c) /\ mu' = Free /\ UNCHANGED entries
      BY <1>0, <2>1, <3>2 DEF TypeOK, Finish, IdleRequest, RequestInv
    <3> QED BY <1>4, <3>1, <3>2 DEF ReloadLoad
  <2>4. IdsUnique' /\ EntriesTrackCron' /\ StartInv'
    BY <1>0, <1>a, <1>4 DEF ReloadLoad, IdsUnique, EntriesTrackCron, StartInv
  <2> QED BY <2>2, <2>3, <2>4 DEF BookInv
<1>5. ASSUME NEW c \in Clients, ReloadSchedule(c)
      PROVE  BookInv'
  <2>1. /\ req[c].job \in Jobs /\ mu = c /\ entries[req[c].job] = NoEntry
        /\ req[c].row \in Rows \cup {NoRow}
        /\ ScheduleJob(req[c].job, req[c].row)
    BY <1>0, <1>5 DEF ReloadSchedule, RequestInv, TypeOK, Request
  <2>2. /\ entries' \in [Jobs -> EntryIDs \cup {NoEntry}] /\ cron' \in SUBSET CronEntry
        /\ IdsUnique' /\ EntriesTrackCron'
    BY <2>1, ScheduleBook
  <2>3. TypeOK'
    BY <1>0, <1>5, <2>2 DEF TypeOK, Request, ReloadSchedule, Finish, IdleRequest, tables, queue
  <2>4. RequestInv'
    BY <1>0, <1>5, <2>1 DEF TypeOK, Request, ReloadSchedule, Finish, IdleRequest, RequestInv
  <2>5. StartInv'
    BY <1>a, <1>5 DEF ReloadSchedule, StartInv
  <2> QED BY <2>2, <2>3, <2>4, <2>5 DEF BookInv
<1>6. ASSUME NEW c \in Clients, DeleteRow(c)
      PROVE  BookInv'
  <2>1. TypeOK'
    BY <1>0, <1>6 DEF TypeOK, Request, DeleteRow, Finish, IdleRequest, book, queue
  <2>2. RequestInv' /\ IdsUnique' /\ EntriesTrackCron' /\ StartInv'
    BY <1>0, <1>a, <1>6 DEF TypeOK, Request, DeleteRow, Finish, IdleRequest, book,
                            RequestInv, IdsUnique, EntriesTrackCron, StartInv
  <2> QED BY <2>1, <2>2 DEF BookInv
<1>7. ASSUME NEW c \in Clients, RemoveLock(c)
      PROVE  BookInv'
  <2>1. req[c].job \in Jobs /\ Unschedule(req[c].job) /\ mu = Free /\ mu' = mu
    BY <1>0, <1>7 DEF RemoveLock, RequestInv
  <2>2. TypeOK'
    BY <1>0, <1>7, <2>1, UnscheduleBook DEF TypeOK, Request, RemoveLock, Goto, tables, queue
  <2>3. RequestInv'
    BY <1>0, <1>7, <2>1 DEF TypeOK, Request, RemoveLock, Goto, RequestInv
  <2>4. StartInv'
    BY <1>a, <1>7 DEF RemoveLock, StartInv
  <2> QED BY <2>1, <2>2, <2>3, <2>4, UnscheduleBook DEF BookInv
<1>8. ASSUME NEW j \in Jobs, StartJob(j)
      PROVE  BookInv'
  <2>1. /\ jobs[j] \in Rows \cup {NoRow} /\ entries[j] = NoEntry
        /\ ScheduleJob(j, jobs[j])
        /\ \A c \in Clients : req[c].pc = "idle"
        /\ toStart' = toStart \ {j}
        /\ UNCHANGED <<jobs, used, mu, firing, workQ, worker, req, main>>
    BY <1>0, <1>a, <1>8 DEF StartJob, TypeOK, StartInv, tables, queue
  <2>2. TypeOK'
    BY <1>0, <2>1, ScheduleBook DEF TypeOK
  <2>3. RequestInv'
    BY <1>0, <2>1 DEF RequestInv
  <2>4. StartInv'
    BY <1>0, <1>a, <2>1, ScheduleBook DEF StartInv, TypeOK
  <2> QED BY <2>1, <2>2, <2>3, <2>4, ScheduleBook DEF BookInv
<1>9. ASSUME Crash \/ Restart
      PROVE  BookInv'
  <2>1. /\ ResetMemory /\ UNCHANGED tables /\ main' \in MainPC /\ toStart' \in SUBSET Jobs
        /\ \A j \in toStart' : Wanted(jobs[j])
    BY <1>9 DEF Crash, Restart, MainPC, Listed
  <2>2. TypeOK'
    BY <1>0, <2>1 DEF ResetMemory, TypeOK, Request, IdleRequest, IdleWorker, WorkerPC, tables
  <2>3. RequestInv' /\ IdsUnique' /\ EntriesTrackCron' /\ StartInv'
    BY <1>0, <2>1 DEF ResetMemory, TypeOK, RequestInv, IdsUnique, EntriesTrackCron, StartInv,
                       IdleRequest, tables
  <2> QED BY <2>2, <2>3 DEF BookInv
<1>10. ASSUME QuietStep
      PROVE  BookInv'
  <2>1. /\ UNCHANGED <<jobs, used, entries, mu, cron, req, toStart>>
        /\ main' = "boot" => main = "boot"
    BY <1>10 DEF QuietStep, Fire, Enqueue, WorkerStep, WorkerTake, WorkerStop, WorkerReturn,
                WorkerExit, CronStart, CronStop, CloseStopQ, Exit, Signal, tables, book, queue
  <2>2. firing' \in [Jobs -> Nat]
    <3>1. ASSUME NEW e \in cron, Fire(e) PROVE firing' \in [Jobs -> Nat]
      BY <1>0, <3>1 DEF TypeOK, CronEntry, Fire
    <3>2. ASSUME NEW j \in Jobs, Enqueue(j) PROVE firing' \in [Jobs -> Nat]
      BY <1>0, <3>2 DEF TypeOK, Enqueue
    <3>3. CASE UNCHANGED firing
      BY <1>0, <3>3 DEF TypeOK
    <3> QED BY <1>10, <3>1, <3>2, <3>3 DEF QuietStep, WorkerStep, WorkerTake, WorkerStop,
                WorkerReturn, WorkerExit, CronStart, CronStop, CloseStopQ, Exit, Signal, queue
  <2>3. workQ' \in Seq(Jobs) /\ Len(workQ') <= QueueCap
    <3>1. ASSUME NEW j \in Jobs, Enqueue(j) PROVE workQ' \in Seq(Jobs) /\ Len(workQ') <= QueueCap
      BY <1>0, <3>1 DEF TypeOK, Enqueue
    <3>2. CASE WorkerTake
      BY <1>0, <3>2 DEF TypeOK, WorkerTake
    <3>3. CASE UNCHANGED workQ
      BY <1>0, <3>3 DEF TypeOK
    <3> QED BY <1>10, <3>1, <3>2, <3>3 DEF QuietStep, Fire, WorkerStep, WorkerStop,
                WorkerReturn, WorkerExit, CronStart, CronStop, CloseStopQ, Exit, Signal, queue
  <2>4. worker' \in [pc : WorkerPC, job : Jobs \cup {NoJob}]
    BY <1>0, <1>10 DEF TypeOK, WorkerPC, QuietStep, Fire, Enqueue, WorkerStep, WorkerTake,
                WorkerStop, WorkerReturn, WorkerExit, CronStart, CronStop, CloseStopQ, Exit,
                Signal, queue
  <2>5. main' \in MainPC
    BY <1>0, <1>10 DEF TypeOK, MainPC, QuietStep, Fire, Enqueue, WorkerStep, WorkerTake,
                WorkerStop, WorkerReturn, WorkerExit, CronStart, CronStop, CloseStopQ, Exit, Signal
  <2>6. TypeOK'
    BY <1>0, <2>1, <2>2, <2>3, <2>4, <2>5 DEF TypeOK
  <2>7. RequestInv' /\ IdsUnique' /\ EntriesTrackCron' /\ StartInv'
    BY <1>0, <1>a, <2>1 DEF RequestInv, IdsUnique, EntriesTrackCron, StartInv
  <2> QED BY <2>6, <2>7 DEF BookInv
<1>11. ASSUME UNCHANGED vars
       PROVE  BookInv'
  BY <1>0, <1>a, <1>11 DEF vars, TypeOK, RequestInv, IdsUnique, EntriesTrackCron, StartInv, BookInv
<1> QED BY NextCases, <1>1, <1>2, <1>3, <1>4, <1>5, <1>6, <1>7, <1>8, <1>9, <1>10, <1>11

(* Type correctness: every variable keeps its shape. *)
THEOREM TypeCorrect == Spec => []TypeOK
<1>1. Spec => []BookInv
  BY InitBook, NextBook, PTL DEF Spec
<1> QED BY <1>1, PTL DEF BookInv

(* No cron entry is ever out of reach of Reload and Remove: the map of the  *)
(* scheduler and the live entries of cron describe each other.              *)
THEOREM EntriesSafe == Spec => []EntriesTrackCron
<1>1. Spec => []BookInv
  BY InitBook, NextBook, PTL DEF Spec
<1> QED BY <1>1, PTL DEF BookInv
-----------------------------------------------------------------------------
(* The schedule cron runs a job by, after Unschedule and after ScheduleJob. *)
LEMMA UnscheduleEffect ==
  ASSUME BookInv, NEW j \in Jobs, Unschedule(j)
  PROVE  \A k \in Jobs \ {j} : ScheduleOf(k)' = ScheduleOf(k)
  BY UnscheduleBook DEF ScheduleOf

LEMMA NoEntryNoSchedule ==
  ASSUME BookInv, NEW j \in Jobs, entries[j] = NoEntry
  PROVE  ScheduleOf(j) = {}
  BY ConstantsAssumption DEF BookInv, TypeOK, CronEntry, EntriesTrackCron, ScheduleOf

LEMMA ScheduleEffect ==
  ASSUME BookInv, NEW j \in Jobs, NEW row \in Rows \cup {NoRow},
         entries[j] = NoEntry, ScheduleJob(j, row)
  PROVE  /\ ScheduleOf(j)' = {row.schedule} \cap Specs
         /\ \A k \in Jobs \ {j} : ScheduleOf(k)' = ScheduleOf(k)
<1>1. ScheduleOf(j) = {}
  BY NoEntryNoSchedule
<1>2. CASE row.schedule \in Specs
  <2>1. PICK new : new.job = j /\ new.schedule = row.schedule /\ cron' = cron \cup {new}
    BY <1>2 DEF ScheduleJob
  <2> QED BY <1>1, <1>2, <2>1 DEF ScheduleOf
<1>3. CASE row.schedule \notin Specs
  BY <1>1, <1>3 DEF ScheduleJob, ScheduleOf
<1> QED BY <1>2, <1>3

LEMMA InitMatch == Init => MatchInv
<1> SUFFICES ASSUME Init PROVE MatchInv
  OBVIOUS
<1>1. StaleInv /\ BootInv /\ ScheduleMatches
  BY DEF Init, StaleInv, BootInv, ScheduleMatches, IdleRequest
<1> QED BY <1>1, InitBook DEF MatchInv

(* A failing read would leave a job unscheduled for good, so the statement  *)
(* is about a store whose statements succeed.                               *)
LEMMA NextMatch ==
  ASSUME ~DBMayFail, MatchInv, [Next]_vars
  PROVE  MatchInv'
<1> USE ConstantsAssumption, RowsAssumption
<1>0. BookInv /\ BookInv' /\ TypeOK /\ RequestInv
  BY NextBook DEF MatchInv, BookInv
<1>a. StaleInv /\ BootInv /\ ScheduleMatches
  BY DEF MatchInv
<1>1. ASSUME NEW c \in Clients, NEW j \in Jobs, NEW row \in Rows,
             CreateJob(c, j, row) \/ UpdateJob(c, j, row)
      PROVE  MatchInv'
  <2>1. /\ \A k \in Jobs \ {j} : jobs'[k] = jobs[k]
        /\ main # "boot" /\ main' = main /\ cron' = cron /\ req[c].pc = "idle"
        /\ Goto(c, "lock", j, NoRow)
    BY <1>0, <1>1 DEF TypeOK, CreateJob, UpdateJob, Accepting, book
  <2>2. /\ req'[c].pc = "lock" /\ req'[c].job = j
        /\ \A d \in Clients \ {c} : req'[d] = req[d]
    BY <1>0, <2>1 DEF TypeOK, Goto
  <2>3. Pending(j)' /\ InFlight(j)'
    BY <2>2 DEF Pending, InFlight
  <2>4. StaleInv'
    BY <1>a, <1>0, <2>1, <2>2, <2>3 DEF StaleInv, Pending, RequestInv
  <2>5. ScheduleMatches'
    BY <1>a, <2>1, <2>2, <2>3 DEF ScheduleMatches, InFlight, ScheduleOf, ScheduleWanted
  <2> QED BY <1>0, <2>1, <2>4, <2>5 DEF MatchInv, BootInv
<1>2. ASSUME NEW c \in Clients, NEW j \in Jobs, DeleteJob(c, j)
      PROVE  MatchInv'
  <2>1. /\ jobs' = jobs /\ main # "boot" /\ main' = main /\ cron' = cron
        /\ req[c].pc = "idle" /\ Goto(c, "remove", j, NoRow)
    BY <1>2 DEF DeleteJob, Accepting, tables, book
  <2>2. /\ req'[c].pc = "remove" /\ req'[c].job = j
        /\ \A d \in Clients \ {c} : req'[d] = req[d]
    BY <1>0, <2>1 DEF TypeOK, Goto
  <2>3. StaleInv'
    BY <1>a, <1>0, <2>1, <2>2 DEF StaleInv, Pending, RequestInv
  <2>4. ScheduleMatches'
    BY <1>a, <2>1, <2>2 DEF ScheduleMatches, InFlight, ScheduleOf, ScheduleWanted
  <2> QED BY <1>0, <2>1, <2>3, <2>4 DEF MatchInv, BootInv
<1>3. ASSUME NEW c \in Clients, RemoveLock(c)
      PROVE  MatchInv'
  <2>0. PICK j \in Jobs : j = req[c].job
    BY <1>0, <1>3 DEF RemoveLock, RequestInv
  <2>1. /\ jobs' = jobs /\ main' = main /\ toStart' = toStart
        /\ Unschedule(j) /\ Goto(c, "deleteRow", j, NoRow) /\ req[c].pc = "remove"
    BY <1>3, <2>0 DEF RemoveLock, tables
  <2>2. /\ req'[c].pc = "deleteRow" /\ req'[c].job = j
        /\ \A d \in Clients \ {c} : req'[d] = req[d]
    BY <1>0, <2>1 DEF TypeOK, Goto
  <2>3. Pending(j)' /\ InFlight(j)'
    BY <2>2 DEF Pending, InFlight
  <2>4. ASSUME NEW k \in Jobs, Pending(k) PROVE Pending(k)'
    <3>1. PICK d \in Clients : req[d].pc \in {"lock", "deleteRow"} /\ req[d].job = k
      BY <2>4 DEF Pending
    <3>2. req'[d] = req[d]
      BY <2>1, <2>2, <3>1
    <3> QED BY <3>1, <3>2 DEF Pending
  <2>5. StaleInv'
    BY <1>a, <1>0, <2>1, <2>2, <2>4 DEF StaleInv, RequestInv
  <2>6. main # "boot"
    BY <1>0, <2>1 DEF BookInv, StartInv
  <2>7. ScheduleMatches'
    BY <1>a, <1>0, <2>1, <2>2, <2>3, UnscheduleEffect DEF ScheduleMatches, InFlight, ScheduleWanted
  <2> QED BY <1>0, <2>1, <2>5, <2>6, <2>7 DEF MatchInv, BootInv
<1>4. ASSUME NEW c \in Clients, ReloadLock(c)
      PROVE  MatchInv'
  <2> DEFINE j == req[c].job
  <2>1. /\ j \in Jobs /\ jobs' = jobs /\ main' = main /\ toStart' = toStart /\ mu = Free
        /\ Unschedule(j) /\ Goto(c, "load", j, NoRow) /\ req[c].pc = "lock"
    BY <1>0, <1>4 DEF ReloadLock, RequestInv, tables
  <2> HIDE DEF j
  <2>2. /\ req'[c].pc = "load" /\ req'[c].job = j
        /\ \A d \in Clients \ {c} : req'[d] = req[d]
    BY <1>0, <2>1 DEF TypeOK, Goto
  <2>3. \A d \in Clients : req[d].pc # "schedule"
    BY <1>0, <2>1 DEF RequestInv
  <2>4. StaleInv'
    BY <2>2, <2>3 DEF StaleInv
  <2>5. main # "boot"
    BY <1>0, <2>1 DEF BookInv, StartInv
  <2>6. ScheduleMatches'
    BY <1>a, <1>0, <2>1, <2>2, UnscheduleEffect DEF j, ScheduleMatches, InFlight, ScheduleWanted
  <2> QED BY <1>0, <2>1, <2>4, <2>5, <2>6 DEF MatchInv, BootInv
<1>5. ASSUME NEW c \in Clients, ReloadLoad(c)
      PROVE  MatchInv'
  <2> DEFINE j == req[c].job
  <2>1. /\ j \in Jobs /\ jobs' = jobs /\ main' = main /\ toStart' = toStart /\ mu = c
        /\ cron' = cron /\ entries[j] = NoEntry /\ req[c].pc = "load"
    BY <1>0, <1>5 DEF ReloadLoad, RequestInv, tables
  <2>2. main # "boot"
    BY <1>0, <2>1 DEF BookInv, StartInv
  <2>3. ScheduleOf(j) = {}
    BY <1>0, <2>1, NoEntryNoSchedule
  <2>4. CASE Goto(c, "schedule", j, jobs[j])
    <3>1. /\ req'[c] = [pc |-> "schedule", job |-> j, row |-> jobs[j]]
          /\ \A d \in Clients \ {c} : req'[d] = req[d]
      BY <1>0, <2>4 DEF TypeOK, Goto
    <3>2. StaleInv'
      BY <1>a, <1>0, <2>1, <3>1 DEF StaleInv, Pending, RequestInv
    <3>3. ScheduleMatches'
      BY <1>a, <2>1, <3>1 DEF ScheduleMatches, InFlight, ScheduleOf, ScheduleWanted
    <3> QED BY <1>0, <2>1, <2>2, <3>2, <3>3 DEF MatchInv, BootInv
  <2>5. CASE Finish(c) /\ ~Wanted(jobs[j])
    <3>1. /\ req'[c].pc = "idle"
          /\ \A d \in Clients \ {c} : req'[d] = req[d]
      BY <1>0, <2>5 DEF TypeOK, Finish, IdleRequest
    <3>2. StaleInv'
      BY <1>a, <1>0, <2>1, <3>1 DEF StaleInv, Pending, RequestInv
    <3>3. ScheduleMatches'
      BY <1>a, <2>1, <2>3, <2>5, <3>1 DEF ScheduleMatches, InFlight, ScheduleOf, ScheduleWanted
    <3> QED BY <1>0, <2>1, <2>2, <3>2, <3>3 DEF MatchInv, BootInv
  <2> QED BY <1>5, <2>4, <2>5 DEF ReloadLoad
<1>6. ASSUME NEW c \in Clients, ReloadSchedule(c)
      PROVE  MatchInv'
  <2>0. PICK j \in Jobs, row \in Rows \cup {NoRow} : j = req[c].job /\ row = req[c].row
    BY <1>0, <1>6 DEF ReloadSchedule, RequestInv, TypeOK, Request
  <2>1. /\ Wanted(row) /\ entries[j] = NoEntry /\ ScheduleJob(j, row) /\ mu = c
        /\ jobs' = jobs /\ main' = main /\ toStart' = toStart
        /\ Finish(c) /\ req[c].pc = "schedule"
    BY <1>0, <1>6, <2>0 DEF ReloadSchedule, RequestInv, tables
  <2>2. main # "boot"
    BY <1>0, <2>1 DEF BookInv, StartInv
  <2>3. /\ ScheduleOf(j)' = {row.schedule} \cap Specs
        /\ \A k \in Jobs \ {j} : ScheduleOf(k)' = ScheduleOf(k)
    BY <1>0, <2>1, ScheduleEffect
  <2>4. /\ req'[c].pc = "idle"
        /\ \A d \in Clients \ {c} : req'[d] = req[d]
    BY <1>0, <2>1 DEF TypeOK, Finish, IdleRequest
  <2>5. StaleInv'
    BY <1>a, <1>0, <2>1, <2>4 DEF StaleInv, Pending, RequestInv
  <2>6. jobs[j] # NoRow /\ ~InFlight(j)' => row = jobs[j]
    BY <1>a, <2>0, <2>1, <2>4 DEF StaleInv, Pending, InFlight
  <2>7. ScheduleMatches'
    <3> SUFFICES ASSUME NEW k \in Jobs, main' \in {"serving", "draining", "stopping", "stopped"},
                        jobs[k] # NoRow, ~InFlight(k)'
                 PROVE  ScheduleOf(k)' = ScheduleWanted(k)'
      BY <2>1 DEF ScheduleMatches
    <3>1. CASE k = j
      BY <2>1, <2>3, <2>6, <3>1 DEF ScheduleWanted
    <3>2. CASE k # j
      BY <1>a, <2>0, <2>1, <2>3, <2>4, <3>2 DEF ScheduleMatches, InFlight, ScheduleWanted
    <3> QED BY <3>1, <3>2
  <2> QED BY <1>0, <2>1, <2>2, <2>5, <2>7 DEF MatchInv, BootInv
<1>7. ASSUME NEW c \in Clients, DeleteRow(c)
      PROVE  MatchInv'
  <2> DEFINE j == req[c].job
  <2>1. /\ j \in Jobs /\ jobs' = [jobs EXCEPT ![j] = NoRow] /\ main' = main
        /\ toStart' = toStart /\ cron' = cron /\ Finish(c) /\ req[c].pc = "deleteRow"
    BY <1>0, <1>7 DEF DeleteRow, RequestInv, book
  <2>2. main # "boot"
    BY <1>0, <2>1 DEF BookInv, StartInv
  <2>3. /\ jobs'[j] = NoRow
        /\ \A k \in Jobs \ {j} : jobs'[k] = jobs[k]
        /\ req'[c].pc = "idle"
        /\ \A d \in Clients \ {c} : req'[d] = req[d]
    BY <1>0, <2>1 DEF TypeOK, Finish, IdleRequest
  <2>4. StaleInv'
    BY <1>a, <1>0, <2>1, <2>3 DEF StaleInv, Pending, RequestInv
  <2>5. ScheduleMatches'
    BY <1>a, <2>1, <2>3 DEF ScheduleMatches, InFlight, ScheduleOf, ScheduleWanted
  <2> QED BY <1>0, <2>1, <2>2, <2>4, <2>5 DEF MatchInv, BootInv
<1>8. ASSUME NEW j \in Jobs, StartJob(j)
      PROVE  MatchInv'
  <2>1. /\ jobs[j] \in Rows \cup {NoRow} /\ entries[j] = NoEntry /\ ScheduleJob(j, jobs[j])
        /\ toStart' = toStart \ {j} /\ jobs' = jobs /\ req' = req
        /\ main = "boot" /\ main' = "boot" /\ j \in toStart
    BY <1>0, <1>8 DEF StartJob, TypeOK, BookInv, StartInv, tables
  <2>2. /\ ScheduleOf(j)' = {jobs[j].schedule} \cap Specs
        /\ \A k \in Jobs \ {j} : ScheduleOf(k)' = ScheduleOf(k)
    BY <1>0, <2>1, ScheduleEffect
  <2>3. Wanted(jobs[j])
    BY <1>0, <2>1 DEF BookInv, StartInv
  <2>4. BootInv'
    BY <1>a, <2>1, <2>2, <2>3 DEF BootInv, ScheduleWanted
  <2>5. StaleInv'
    BY <1>a, <2>1 DEF StaleInv, Pending
  <2> QED BY <1>0, <2>1, <2>4, <2>5 DEF MatchInv, ScheduleMatches
<1>9. CASE Crash
  BY <1>0, <1>9 DEF Crash, ResetMemory, MatchInv, StaleInv, BootInv, ScheduleMatches, IdleRequest
<1>10. CASE Restart
  <2>1. BootInv'
    BY <1>10 DEF Restart, ResetMemory, BootInv, Listed, ScheduleOf, ScheduleWanted, tables
  <2> QED BY <1>0, <1>10, <2>1 DEF Restart, ResetMemory, MatchInv, StaleInv, ScheduleMatches, IdleRequest
<1>11. CASE QuietStep
  <2>1. UNCHANGED <<jobs, cron, req, toStart>>
    BY <1>11 DEF QuietStep, Fire, Enqueue, WorkerStep, WorkerTake, WorkerStop, WorkerReturn,
                 WorkerExit, CronStart, CronStop, CloseStopQ, Exit, Signal, tables, book, queue
  <2>2. StaleInv'
    BY <1>a, <2>1 DEF StaleInv, Pending
  <2>3. main' = "boot" => main = "boot"
    BY <1>11 DEF QuietStep, Fire, Enqueue, WorkerStep, WorkerTake, WorkerStop, WorkerReturn,
                 WorkerExit, CronStart, CronStop, CloseStopQ, Exit, Signal
  <2>4. CASE CronStart
    BY <1>0, <1>a, <2>1, <2>2, <2>4
       DEF CronStart, MatchInv, BootInv, ScheduleMatches, ScheduleOf, ScheduleWanted
  <2>5. CASE ~CronStart
    <3>1. main' \in {"serving", "draining", "stopping", "stopped"} =>
            main \in {"serving", "draining", "stopping", "stopped"}
      BY <1>11, <2>5 DEF QuietStep, Fire, Enqueue, WorkerStep, WorkerTake, WorkerStop,
                 WorkerReturn, WorkerExit, CronStop, CloseStopQ, Exit, Signal
    <3> QED BY <1>0, <1>a, <2>1, <2>2, <2>3, <3>1
            DEF MatchInv, BootInv, ScheduleMatches, InFlight, ScheduleOf, ScheduleWanted
  <2> QED BY <2>4, <2>5
<1>12. CASE UNCHANGED vars
  BY <1>0, <1>a, <1>12 DEF vars, MatchInv, StaleInv, Pending, BootInv, ScheduleMatches, InFlight,
                           ScheduleOf, ScheduleWanted
<1> QED BY NextCases, <1>1, <1>2, <1>3, <1>4, <1>5, <1>6, <1>7, <1>8, <1>9, <1>10, <1>11, <1>12

(* When no request on a job is in progress, cron fires it exactly as its    *)
(* row says, in whatever order the handlers ran.                            *)
THEOREM ScheduleSafe == ASSUME ~DBMayFail PROVE Spec => []ScheduleMatches
<1>1. MatchInv /\ [Next]_vars => MatchInv'
  BY NextMatch
<1>2. MatchInv => ScheduleMatches
  BY DEF MatchInv
<1> QED BY InitMatch, <1>1, <1>2, PTL DEF Spec
-----------------------------------------------------------------------------
LEMMA NextStop == BookInv /\ StopInv /\ [Next]_vars => StopInv'
<1> SUFFICES ASSUME BookInv, StopInv, [Next]_vars PROVE StopInv'
  OBVIOUS
<1>0. /\ firing \in [Jobs -> Nat] /\ workQ \in Seq(Jobs)
      /\ worker \in [pc : WorkerPC, job : Jobs \cup {NoJob}]
  BY DEF BookInv, TypeOK
<1>1. CASE UNCHANGED <<firing, workQ, worker, main>>
  BY <1>1 DEF StopInv, StopClosed
<1>2. CASE Crash \/ Restart
  BY <1>2 DEF Crash, Restart, ResetMemory, IdleWorker, StopInv, StopClosed
<1>3. CASE QuietStep
  <2>1. ASSUME NEW e \in cron, Fire(e) PROVE StopInv'
    BY <2>1 DEF Fire, CronRunning, StopInv, StopClosed
  <2>2. ASSUME NEW j \in Jobs, Enqueue(j) PROVE StopInv'
    BY <1>0, <2>2 DEF Enqueue, StopInv, StopClosed
  <2>3. CASE WorkerTake
    BY <2>3 DEF WorkerTake, StopInv, StopClosed
  <2>4. CASE WorkerStop \/ WorkerReturn \/ WorkerExit
    BY <1>0, <2>4 DEF WorkerStop, WorkerReturn, WorkerExit, StopInv, StopClosed
  <2>5. CASE CronStart \/ CronStop \/ CloseStopQ \/ Exit \/ Signal
    BY <2>5 DEF CronStart, CronStop, CloseStopQ, Exit, Signal, queue, StopInv, StopClosed
  <2> QED BY <1>3, <2>1, <2>2, <2>3, <2>4, <2>5 DEF QuietStep, WorkerStep
<1>4. CASE UNCHANGED vars
  BY <1>1, <1>4 DEF vars
<1> QED BY NextCases, <1>1, <1>2, <1>3, <1>4
        DEF CreateJob, UpdateJob, DeleteJob, ReloadLock, ReloadLoad, ReloadSchedule, RemoveLock,
            DeleteRow, StartJob, queue

(* The worker stops only after the last trigger has reached the queue and   *)
(* the queue is empty.                                                      *)
THEOREM WorkerSafe == Spec => []WorkerLeavesNothing
<1>1. Init => StopInv
  BY DEF Init, IdleWorker, StopInv, StopClosed
<1>2. StopInv => WorkerLeavesNothing
  BY DEF StopInv, WorkerLeavesNothing
<1> QED BY <1>1, <1>2, InitBook, NextBook, NextStop, PTL DEF Spec
=============================================================================
