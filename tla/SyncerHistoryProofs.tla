------------------------ MODULE SyncerHistoryProofs ------------------------
(***************************************************************************)
(* The run logs of Syncer and the last result of a job, for every number   *)
(* of jobs, goroutines, lists and addresses: what the tables say of the    *)
(* runs, in progress, finished and of jobs that are gone.                  *)
(***************************************************************************)
EXTENDS SyncerProofs

USE DEF hist

(* What a step does to one goroutine and the tables of jobs and logs. *)

\* before it has a log
Starts(r) ==
  /\ Only(r) /\ run[r].pc \in {"idle", "called", "load"} /\ run'[r].pc \in {"called", "load", "open"}
  /\ run'[r].log = run[r].log
  /\ UNCHANGED <<jobs, last, logs, lists>>

\* it returns
Leaves(r) ==
  /\ Only(r) /\ run[r].pc \in {"called", "load", "open", "unlock"} /\ run'[r] = IdleRun
  /\ UNCHANGED <<jobs, last, logs, lists>>

\* within execute
Passes(r) ==
  /\ run[r].pc \in Logged /\ \E pc \in Logged \ {"resolve"} : Moves(r, pc)
  /\ UNCHANGED <<jobs, last, logs>>

Flow(r) ==
  \/ Starts(r)
  \/ Leaves(r)
  \/ run[r].pc = "open" /\ Opens(r) /\ UNCHANGED <<jobs, last, lists>>
  \/ Passes(r)
  \/ CloseLog(r) /\ Moves(r, "last")
  \/ SetLast(r) /\ Moves(r, "unlock")

LEMMA PassesFlow ==
  ASSUME TypeInv, NEW r \in Runners,
         \/ Resolve(r) \/ Record(r) \/ Expire(r) \/ Observe(r) \/ Clear(r)
         \/ LoadController(r) \/ Fetch(r) \/ Put(r)
  PROVE  Passes(r)
<1>1. run[r].pc \in Logged /\ UNCHANGED <<jobs, last, logs>>
  BY DEF Resolve, Record, Expire, Observe, Clear, LoadController, Fetch, Put, At, Logged, db
<1>2. \/ Fail(r) \/ Succeed(r) \/ Resolves(r) \/ Goto(r, "expire") \/ Goto(r, "observe")
      \/ Goto(r, "fetch") \/ Diffs(r) \/ \E ips : Merges(r, ips)
  BY ResolveMoves, ObserveMoves, ClearMoves, FetchMoves DEF Record, Expire, LoadController, Put
<1>3. \E pc \in {"close", "record", "clear", "expire", "observe", "controller", "fetch", "put"} :
        Moves(r, pc)
  BY <1>2, FailMoves, SucceedMoves, GotoMoves DEF Resolves, Diffs, Merges
<1> QED BY <1>1, <1>3 DEF Passes, Logged

LEMMA StepFlow ==
  ASSUME TypeInv, NEW r \in Runners, Step(r)
  PROVE  Flow(r)
<1>1. CASE Acquire(r)
  BY <1>1, GotoMoves DEF Acquire, At, Moves, Starts, Flow, db
<1>2. CASE Skip(r)
  BY <1>2, BecomesOnly DEF Skip, At, Leaves, Flow, db
<1>3. CASE LoadJob(r)
  <2>1. UNCHANGED <<jobs, last, logs, lists>> /\ run[r].pc = "load"
    BY <1>3 DEF LoadJob, At, db
  <2> QED BY <1>3, <2>1, LoadMoves, BecomesOnly DEF Return, Loads, Starts, Leaves, Flow
<1>4. CASE OpenLog(r)
  <2>1. UNCHANGED <<jobs, last, lists>> /\ run[r].pc = "open"
    BY <1>4 DEF OpenLog, At
  <2> QED BY <1>4, <2>1, OpenMoves, BecomesOnly DEF Return, Leaves, Flow
<1>5. CASE \/ Resolve(r) \/ Record(r) \/ Expire(r) \/ Observe(r) \/ Clear(r)
           \/ LoadController(r) \/ Fetch(r) \/ Put(r)
  BY <1>5, PassesFlow DEF Flow
<1>6. CASE CloseLog(r)
  BY <1>6, GotoMoves DEF CloseLog, Flow
<1>7. CASE SetLast(r)
  BY <1>7, GotoMoves DEF SetLast, Flow
<1>8. CASE Unlock(r)
  BY <1>8, BecomesOnly DEF Unlock, Return, At, Leaves, Flow, db
<1> QED BY <1>1, <1>2, <1>3, <1>4, <1>5, <1>6, <1>7, <1>8 DEF Step

LEMMA NextFlow ==
  ASSUME TypeInv, [Next]_vars
  PROVE  \/ \E r \in Runners : Flow(r)
         \/ \E j \in Jobs : DeleteJob(j)
         \/ \E j \in Jobs, row \in Rows : EditJob(j, row)
         \/ Crash
         \/ UNCHANGED <<db, run>>
<1>1. ASSUME NEW r \in Runners, NEW j \in Jobs, Call(r, j) PROVE Starts(r)
  <2> DEFINE new == [run[r] EXCEPT !.pc = "called", !.job = j]
  <2>1. run'[r] = new /\ Only(r) /\ run[r].pc = "idle" /\ UNCHANGED <<jobs, last, logs, lists>>
    BY <1>1, BecomesOnly DEF Call, At, db
  <2>2. new.pc = "called" /\ new.log = run[r].log
    BY LocalTyped DEF Run
  <2> QED BY <2>1, <2>2 DEF Starts
<1>2. CASE UNCHANGED vars \/ Tick \/ \E l \in Lists, items \in SUBSET (Addrs \cup Ranges) : AdminEdit(l, items)
  BY <1>2 DEF AdminEdit, Tick, vars, db
<1> QED BY <1>1, <1>2, StepFlow, NextCases DEF Flow

(* How the table of logs changes. *)

LEMMA AppendLog ==
  ASSUME TypeInv, NEW j \in Jobs, logs' = Append(logs, NewLog(j))
  PROVE  /\ Len(logs) + 1 \in Nat \ DOMAIN logs
         /\ DOMAIN logs' = DOMAIN logs \cup {Len(logs) + 1}
         /\ \A i \in DOMAIN logs : logs'[i] = logs[i] /\ i < Len(logs) + 1 /\ i \in Nat
         /\ logs'[Len(logs) + 1] = NewLog(j) /\ NewLog(j) # Deleted
<1> DEFINE T == RunLog \cup {Deleted}
           e == NewLog(j)
<1>1. e \in RunLog
  BY DEF NewLog, RunLog
<1>2. logs \in Seq(T) /\ e \in T /\ logs' = Append(logs, e) /\ e # Deleted
  BY <1>1, DeletedAssumption DEF TypeInv, TypeOK
<1> HIDE DEF T, e
<1>3. /\ Len(logs) \in Nat /\ DOMAIN logs = 1 .. Len(logs) /\ DOMAIN logs' = 1 .. Len(logs) + 1
      /\ \A i \in 1 .. Len(logs) : logs'[i] = logs[i]
      /\ logs'[Len(logs) + 1] = e
  BY <1>2
<1> QED BY <1>2, <1>3 DEF e

LEMMA LogTyped ==
  ASSUME TypeInv, NEW i \in DOMAIN logs
  PROVE  i \in Nat /\ (logs[i] # Deleted => logs[i] \in RunLog)
<1> DEFINE T == RunLog \cup {Deleted}
<1>1. logs \in Seq(T)
  BY DEF TypeInv, TypeOK
<1> HIDE DEF T
<1>2. logs[i] \in T /\ i \in Nat
  BY <1>1
<1> QED BY <1>2 DEF T

(* UpdateRunLog touches the log of the run only, and not its job. *)
Closes(r) ==
  LET i == run[r].log IN
  /\ logs'[i] # Deleted
  /\ logs'[i].job = logs[i].job
  /\ logs'[i].status = run[r].status
  /\ logs'[i].added = run[r].added
  /\ logs'[i].removed = run[r].removed

\* the update fails, and a diff with it
Loses(r) == "log" \in Events /\ (Differs(r) => run[r].row.list \in untold')

LEMMA CloseLogTable ==
  ASSUME TypeInv, NEW r \in Runners, CloseLog(r)
  PROVE  /\ run[r].pc = "close" /\ run[r].log \in DOMAIN logs
         /\ run[r].status \in {"success", "error"}
         /\ DOMAIN logs' = DOMAIN logs
         /\ \A i \in DOMAIN logs \ {run[r].log} : logs'[i] = logs[i]
         /\ \/ Closes(r) /\ logs[run[r].log] # Deleted
            \/ UNCHANGED logs /\ (Loses(r) \/ logs[run[r].log] = Deleted)
<1>1. /\ run[r].pc = "close" /\ run[r].log \in DOMAIN logs
      /\ run[r].status \in {"success", "error"}
  BY LocalTyped DEF CloseLog, At, LocalOK, Logged
<1>2. CASE UNCHANGED logs /\ (Loses(r) \/ logs[run[r].log] = Deleted)
  BY <1>1, <1>2
<1>3. CASE /\ logs[run[r].log] # Deleted
           /\ logs' = [logs EXCEPT ![run[r].log] =
                        [@ EXCEPT !.status = run[r].status,
                                  !.added = run[r].added, !.removed = run[r].removed]]
  <2>1. PICK i \in DOMAIN logs : i = run[r].log
    BY <1>1
  <2> DEFINE new == [logs[i] EXCEPT !.status = run[r].status,
                                    !.added = run[r].added, !.removed = run[r].removed]
  <2>2. logs[i] \in RunLog /\ run[r].added \in SUBSET Addrs /\ run[r].removed \in SUBSET Addrs
    BY <1>3, <2>1, LogTyped, LocalTyped DEF Run
  <2>3. new \in RunLog /\ new.job = logs[i].job /\ new.status = run[r].status
        /\ new.added = run[r].added /\ new.removed = run[r].removed
    BY <1>1, <2>2 DEF RunLog
  <2>4. logs' = [logs EXCEPT ![i] = new] /\ DOMAIN logs' = DOMAIN logs
        /\ \E T : logs \in Seq(T)
    BY <1>3, <2>1 DEF TypeInv, TypeOK
  <2> HIDE DEF new
  <2>5. logs'[i] = new /\ \A k \in DOMAIN logs \ {i} : logs'[k] = logs[k]
    BY <2>4
  <2> QED BY <1>1, <1>3, <2>1, <2>3, <2>4, <2>5, DeletedAssumption DEF Closes
<1> QED BY <1>2, <1>3 DEF CloseLog, Loses, Untell, RowOf

(* A deletion takes logs of the job only, if any. *)
LEMMA DeleteLogs ==
  ASSUME TypeInv, NEW j \in Jobs, DeleteJob(j)
  PROVE  /\ DOMAIN logs' = DOMAIN logs
         /\ \A i \in DOMAIN logs :
              logs'[i] = logs[i] \/ (logs'[i] = Deleted /\ logs[i] # Deleted /\ logs[i].job = j)
         /\ jobs' = [jobs EXCEPT ![j] = NoRow] /\ UNCHANGED run
         /\ j \notin loose' => Cascade(j)
<1>1. jobs' = [jobs EXCEPT ![j] = NoRow] /\ UNCHANGED run
  BY DEF DeleteJob
<1>2. Cascade(j) \/ (j \in loose' /\ UNCHANGED logs)
  BY DEF DeleteJob
<1>3. CASE Cascade(j)
  BY <1>1, <1>3 DEF Cascade
<1> QED BY <1>1, <1>2, <1>3
-----------------------------------------------------------------------------
(* What is left of a deleted job has come through a loose connection. *)

LEMMA LooseGrows ==
  ASSUME TypeInv, [Next]_vars
  PROVE  loose \subseteq loose'
<1>1. ASSUME NEW r \in Runners, Step(r) PROVE loose \subseteq loose'
  <2>1. CASE OpenLog(r)
    BY <2>1 DEF OpenLog, Inserted
  <2>2. CASE Record(r)
    BY <2>2 DEF Record, Inserted
  <2>3. CASE UNCHANGED loose
    BY <2>3
  <2> QED BY <1>1, <2>1, <2>2, <2>3
          DEF Step, Acquire, Skip, LoadJob, Resolve, Expire, Observe, Clear, LoadController, Fetch,
              Put, CloseLog, SetLast, Unlock
<1>2. ASSUME NEW j \in Jobs, DeleteJob(j) PROVE loose \subseteq loose'
  BY <1>2 DEF DeleteJob
<1>3. CASE UNCHANGED loose
  BY <1>3
<1> QED BY <1>1, <1>2, <1>3, NextCases DEF Call, EditJob, AdminEdit, Tick, Crash, vars

LEMMA NextDeleted ==
  ASSUME TypeInv, OrphansAreLoose, [Next]_vars
  PROVE  OrphansAreLoose'
<1> DEFINE NoLogs(j) == \A i \in DOMAIN logs : logs[i] # Deleted => logs[i].job # j
           NoObserved(j) == \A a \in Addrs : observed[j][a] = Never
<1> USE ConstantsAssumption
<1>0. TypeOK /\ loose \subseteq loose'
      /\ \A j \in Jobs : jobs[j] = NoRow /\ j \notin loose => NoLogs(j) /\ NoObserved(j)
  BY LooseGrows DEF TypeInv, OrphansAreLoose, NoRowsOf
<1>1. ASSUME NEW j \in Jobs, jobs'[j] = NoRow, j \notin loose' PROVE NoLogs(j)'
  <2>1. CASE \E r \in Runners : Flow(r)
    <3>1. PICK r \in Runners : Flow(r)
      BY <2>1
    <3>2. jobs' = jobs /\ NoLogs(j)
      BY <1>0, <1>1, <3>1 DEF Flow, Starts, Leaves, Passes, CloseLog, SetLast
    <3>3. CASE run[r].pc = "open" /\ Opens(r)
      <4>1. run[r].job \in Jobs
        BY <3>3, LocalTyped DEF LocalOK
      <4>2. run[r].job # j
        BY <1>1, <3>2, <3>3 DEF Opens, Inserted, Job
      <4>3. NewLog(run[r].job).job # j
        BY <4>2 DEF NewLog
      <4> QED BY <3>2, <3>3, <4>1, <4>3, AppendLog DEF Opens
    <3>4. CASE CloseLog(r)
      BY <3>2, <3>4, CloseLogTable DEF Closes
    <3> QED BY <3>1, <3>2, <3>3, <3>4 DEF Flow, Starts, Leaves, Passes, SetLast
  <2>2. ASSUME NEW k \in Jobs, DeleteJob(k) PROVE NoLogs(j)'
    <3>1. CASE k = j
      BY <1>0, <1>1, <2>2, <3>1, DeleteLogs DEF Cascade
    <3>2. CASE k # j
      <4>1. jobs[j] = NoRow /\ NoLogs(j)
        BY <1>0, <1>1, <2>2, <3>2, DeleteLogs DEF TypeOK
      <4> QED BY <2>2, <4>1, DeleteLogs
    <3> QED BY <3>1, <3>2
  <2>3. ASSUME NEW k \in Jobs, NEW row \in Rows, EditJob(k, row) PROVE NoLogs(j)'
    <3>1. jobs[j] = NoRow /\ NoLogs(j)
      BY <1>0, <1>1, <2>3 DEF EditJob, TypeOK
    <3> QED BY <2>3, <3>1 DEF EditJob
  <2>4. CASE Crash \/ UNCHANGED <<db, run>>
    BY <1>0, <1>1, <2>4 DEF Crash, db
  <2> QED BY <2>1, <2>2, <2>3, <2>4, NextFlow
<1>2. ASSUME NEW j \in Jobs, jobs'[j] = NoRow, j \notin loose' PROVE NoObserved(j)'
  <2>1. CASE jobs[j] = NoRow
    <3>1. NoObserved(j)
      BY <1>0, <1>2, <2>1
    <3>2. ASSUME NEW r \in Runners, Stamps(r) PROVE NoObserved(j)'
      <4>1. run[r].job \in Jobs /\ run[r].job # j
        BY <1>2, <2>1, <3>2, LocalTyped DEF LocalOK, Stamps, Inserted, Job
      <4> QED BY <1>0, <3>1, <3>2, <4>1, StampType DEF Stamps, TypeOK
    <3> QED BY <3>1, <3>2, NextObserved DEF Drops
  <2>2. CASE jobs[j] # NoRow
    <3>1. \E k \in Jobs : DeleteJob(k) \/ \E row \in Rows : EditJob(k, row)
      BY <1>2, <2>2, NextFlow DEF Flow, Starts, Leaves, Passes, CloseLog, SetLast, Crash, db
    <3>2. ASSUME NEW k \in Jobs, NEW row \in Rows, EditJob(k, row) PROVE FALSE
      <4>1. row # NoRow /\ jobs' = [jobs EXCEPT ![k] = row]
        BY <3>2, ConstantsAssumption DEF EditJob
      <4> QED BY <1>0, <1>2, <2>2, <4>1 DEF TypeOK
    <3>3. ASSUME NEW k \in Jobs, DeleteJob(k) PROVE k = j
      <4>1. jobs' = [jobs EXCEPT ![k] = NoRow]
        BY <3>3 DEF DeleteJob
      <4> QED BY <1>0, <1>2, <2>2, <4>1 DEF TypeOK
    <3>4. DeleteJob(j)
      BY <3>1, <3>2, <3>3
    <3> QED BY <1>0, <1>2, <3>4, DeleteLogs DEF Cascade, TypeOK
  <2> QED BY <2>1, <2>2
<1> QED BY <1>1, <1>2 DEF OrphansAreLoose, NoRowsOf

(* "Delete a job and its history", as far as the code goes, on whatever     *)
(* connections the statements run: a run of the job that goes on writes     *)
(* nothing that outlives it, wherever the deletion and the crashes hit it,  *)
(* unless the DELETE, or an insert of the run after it, gets a connection   *)
(* without the pragma (Open, deleteJob, the cascades, CreateRunLog,         *)
(* UpsertObservedIPs).                                                      *)
THEOREM DeletionComplete == Spec => []OrphansAreLoose
<1>1. Init => OrphansAreLoose
  BY ConstantsAssumption DEF Init, OrphansAreLoose
<1>2. TypeInv /\ OrphansAreLoose /\ [Next]_vars => OrphansAreLoose'
  BY NextDeleted
<1> QED BY <1>1, <1>2, TypeInductive, PTL DEF Spec
-----------------------------------------------------------------------------
(* A log is of the run that has opened it. *)

LEMMA InitLog == Init => LogInv /\ LatestInv /\ OpenInv
BY DEF Init, LogInv, LatestInv, OpenInv, IdleRun, Logged

LEMMA IdleLog == IdleRun.log = NoLog /\ IdleRun.pc = "idle"
BY DEF IdleRun

(* A run that keeps its log, while the table keeps that log and its job. *)
LEMMA KeepsLog ==
  ASSUME LogInv, DOMAIN logs \subseteq DOMAIN logs',
         \A i \in DOMAIN logs : logs'[i] # Deleted => logs[i] # Deleted /\ logs'[i].job = logs[i].job,
         \A r \in Runners :
           \/ run'[r] = run[r] \/ run'[r] = IdleRun
           \/ /\ run'[r].log = run[r].log
              /\ run'[r].pc \in {"called", "load", "open"} <=> run[r].pc \in {"idle", "called", "load"}
              /\ run'[r].pc # "idle" /\ run[r].pc # "open"
              /\ run[r].log # NoLog => run'[r].job = run[r].job
  PROVE  LogInv'
<1> USE ConstantsAssumption, IdleLog
<1>1. \A r \in Runners : IF run'[r].pc \in {"idle", "called", "load", "open"}
                         THEN run'[r].log = NoLog ELSE run'[r].log \in DOMAIN logs'
  BY DEF LogInv
<1>2. \A r \in Runners : run'[r].log # NoLog => run'[r].log = run[r].log
  OBVIOUS
<1>3. \A q, r \in Runners : run'[q].log = run'[r].log /\ run'[r].log # NoLog => q = r
  BY <1>2 DEF LogInv
<1>4. ASSUME NEW r \in Runners, run'[r].log # NoLog, logs'[run'[r].log] # Deleted
      PROVE  logs'[run'[r].log].job = run'[r].job
  <2>1. run'[r].log = run[r].log /\ run'[r].job = run[r].job
    BY <1>4
  <2>2. run[r].log \in DOMAIN logs
    BY <1>4, <2>1 DEF LogInv
  <2> QED BY <1>4, <2>1, <2>2 DEF LogInv
<1> QED BY <1>1, <1>3, <1>4 DEF LogInv

LEMMA NextLog ==
  ASSUME TypeInv, LogInv, [Next]_vars
  PROVE  LogInv'
<1>1. ASSUME NEW r \in Runners, Flow(r) PROVE LogInv'
  <2>1. CASE Starts(r)
    <3>1. run[r].log = NoLog
      BY <2>1 DEF Starts, LogInv
    <3> QED BY <2>1, <3>1, KeepsLog DEF Starts, Only
  <2>2. CASE Leaves(r)
    BY <2>2, KeepsLog DEF Leaves, Only
  <2>3. CASE run[r].pc = "open" /\ Opens(r)
    <3>1. run[r].job \in Jobs
      BY <2>3, LocalTyped DEF LocalOK
    <3>2. PICK n : n = Len(logs) + 1
      OBVIOUS
    <3>3. /\ n \notin DOMAIN logs /\ n \in Nat /\ DOMAIN logs' = DOMAIN logs \cup {n}
          /\ \A i \in DOMAIN logs : logs'[i] = logs[i]
          /\ logs'[n].job = run[r].job
      BY <2>3, <3>1, <3>2, AppendLog DEF Opens, NewLog
    <3>4. /\ run'[r].log = n /\ run'[r].pc = "resolve" /\ run'[r].job = run[r].job
          /\ \A q \in Runners \ {r} : run'[q] = run[q]
      BY <2>3, <3>2 DEF Opens, Only, SameRow
    <3>5. \A q \in Runners \ {r} : run'[q].log = NoLog \/ run'[q].log \in DOMAIN logs
      BY <3>4 DEF LogInv
    <3>6. \A q \in Runners \ {r} : run'[q].log # n
      BY <3>3, <3>5, ConstantsAssumption
    <3> QED BY <3>3, <3>4, <3>5, <3>6 DEF LogInv
  <2>4. CASE Passes(r)
    BY <2>4, KeepsLog DEF Passes, Moves, Only, SameRow, Logged
  <2>5. CASE CloseLog(r) /\ Moves(r, "last")
    <3>1. /\ DOMAIN logs \subseteq DOMAIN logs'
          /\ \A i \in DOMAIN logs :
               logs'[i] # Deleted => logs[i] # Deleted /\ logs'[i].job = logs[i].job
          /\ run[r].pc = "close"
      BY <2>5, CloseLogTable DEF Closes
    <3> QED BY <2>5, <3>1, KeepsLog DEF Moves, Only, SameRow
  <2>6. CASE SetLast(r) /\ Moves(r, "unlock")
    BY <2>6, KeepsLog DEF SetLast, At, Moves, Only, SameRow
  <2> QED BY <1>1, <2>1, <2>2, <2>3, <2>4, <2>5, <2>6 DEF Flow
<1>2. ASSUME NEW j \in Jobs, DeleteJob(j) PROVE LogInv'
  BY <1>2, DeleteLogs, KeepsLog
<1>3. CASE \E j \in Jobs, row \in Rows : EditJob(j, row)
  BY <1>3, KeepsLog DEF EditJob
<1>4. CASE Crash
  BY <1>4, KeepsLog DEF Crash, db
<1>5. CASE UNCHANGED <<db, run>>
  BY <1>5, KeepsLog DEF db
<1> QED BY <1>1, <1>2, <1>3, <1>4, <1>5, NextFlow

LEMMA LogInductive == Spec => []LogInv
BY InitLog, NextLog, TypeInductive, PTL DEF Spec
-----------------------------------------------------------------------------
(* An open log is of a run that has not closed it. *)

LEMMA NextOpen ==
  ASSUME "log" \notin Events, "crash" \notin Events, TypeInv, LogInv, OpenInv, [Next]_vars
  PROVE  OpenInv'
<1>0. ASSUME NEW i \in DOMAIN logs, Open(i)
      PROVE  \E q \in Runners : run[q].pc \in Logged /\ run[q].log = i
  BY <1>0 DEF OpenInv
<1>1. ASSUME NEW r \in Runners, Flow(r), NEW i \in DOMAIN logs', Open(i)'
      PROVE  \E q \in Runners : run'[q].pc \in Logged /\ run'[q].log = i
  <2>1. CASE Starts(r) \/ Leaves(r) \/ (SetLast(r) /\ Moves(r, "unlock"))
    <3>1. run[r].pc \notin Logged /\ logs' = logs /\ Only(r)
      BY <2>1 DEF Starts, Leaves, SetLast, At, Moves, Logged
    <3> QED BY <1>0, <1>1, <3>1 DEF Only, Open
  <2>2. CASE run[r].pc = "open" /\ Opens(r)
    <3>1. run[r].job \in Jobs /\ run[r].pc \notin Logged
      BY <2>2, LocalTyped DEF LocalOK, Logged
    <3>2. CASE i = Len(logs) + 1
      BY <2>2, <3>2 DEF Opens, Logged
    <3>3. CASE i # Len(logs) + 1
      <4>1. i \in DOMAIN logs /\ logs'[i] = logs[i]
        BY <1>1, <2>2, <3>1, <3>3, AppendLog DEF Opens
      <4> QED BY <1>0, <1>1, <2>2, <3>1, <4>1 DEF Opens, Only, Open
    <3> QED BY <3>2, <3>3
  <2>3. CASE Passes(r)
    BY <1>0, <1>1, <2>3 DEF Passes, Moves, Only, Open
  <2>4. CASE CloseLog(r) /\ Moves(r, "last")
    <3>1. i \in DOMAIN logs /\ i # run[r].log /\ logs'[i] = logs[i]
      BY <1>1, <2>4, CloseLogTable DEF Closes, Loses, Open
    <3> QED BY <1>0, <1>1, <2>4, <3>1 DEF Moves, Only, Open
  <2> QED BY <1>1, <2>1, <2>2, <2>3, <2>4 DEF Flow
<1>2. ASSUME NEW j \in Jobs, DeleteJob(j) PROVE OpenInv'
  <2>1. run' = run
    BY <1>2, DeleteLogs
  <2>2. ASSUME NEW i \in DOMAIN logs', Open(i)' PROVE i \in DOMAIN logs /\ Open(i)
    BY <1>2, <2>2, DeleteLogs DEF Open
  <2> QED BY <1>0, <2>1, <2>2 DEF OpenInv
<1>3. CASE \E j \in Jobs, row \in Rows : EditJob(j, row)
  BY <1>3 DEF EditJob, OpenInv, Open
<1>4. CASE UNCHANGED <<db, run>>
  BY <1>4 DEF OpenInv, Open, db
<1> QED BY <1>1, <1>2, <1>3, <1>4, NextFlow DEF OpenInv, Crash

(* A log that says "running" belongs to a run in progress, and to one only, *)
(* for any number of jobs and goroutines, with foreign keys on or off, and  *)
(* whatever statements and requests fail, as long as the updates that Run   *)
(* does not check succeed and the process lives (Run, execute).             *)
THEOREM OpenLogsRunning ==
  ASSUME "log" \notin Events, "crash" \notin Events
  PROVE  Spec => []OpenLogHasItsRun
<1>1. TypeInv /\ LogInv /\ OpenInv => OpenLogHasItsRun
  <2> SUFFICES ASSUME TypeInv, LogInv, OpenInv, NEW i \in DOMAIN logs, Open(i)
               PROVE  \E r \in Runners : /\ run[r].pc \in Logged /\ run[r].log = i
                                         /\ run[r].job = logs[i].job
                                         /\ \A q \in Runners \ {r} : run[q].log # i
    BY DEF OpenLogHasItsRun
  <2>1. PICK r \in Runners : run[r].pc \in Logged /\ run[r].log = i
    BY DEF OpenInv
  <2>2. i # NoLog
    BY LogTyped, ConstantsAssumption
  <2> QED BY <2>1, <2>2 DEF LogInv, Open
<1>2. TypeInv /\ LogInv /\ OpenInv /\ [Next]_vars => OpenInv'
  BY NextOpen
<1> QED BY <1>1, <1>2, InitLog, LogInductive, TypeInductive, PTL DEF Spec
-----------------------------------------------------------------------------
(* The log of a run is the latest of its job. *)

Latest(r) ==
  /\ \A i \in DOMAIN logs :
       logs[i] # Deleted /\ logs[i].job = run[r].job => i <= run[r].log
  /\ jobs[run[r].job] # NoRow => logs[run[r].log] # Deleted
  /\ run[r].pc # "last" => logs[run[r].log] = Deleted \/ Open(run[r].log)

\* the part of Run in which a run has its log
HasLog == Logged \cup {"last"}

LEMMA LatestIs == LatestInv <=> \A r \in Runners : run[r].pc \in HasLog => Latest(r)
BY DEF LatestInv, Latest, HasLog

LEMMA HasLogHolds ==
  ASSUME TypeInv, NEW r \in Runners, run[r].pc \in HasLog \cup {"open"}
  PROVE  run[r].job \in Jobs /\ Holds(r, run[r].job)
BY LocalTyped DEF LocalOK, HasLog, Logged, Holds, Holding, PC

LEMMA NextLatest ==
  ASSUME TypeInv, GuardInv, LogInv, LatestInv, [Next]_vars
  PROVE  LatestInv'
<1>0. \A r \in Runners : run[r].pc \in HasLog => Latest(r) /\ run[r].log \in DOMAIN logs
  BY LatestIs, LocalTyped DEF HasLog, LocalOK
<1>1. ASSUME NEW r \in Runners, Flow(r), NEW q \in Runners, run'[q].pc \in HasLog
      PROVE  Latest(q)'
  <2>1. CASE Starts(r) \/ Leaves(r) \/ (SetLast(r) /\ Moves(r, "unlock"))
    <3>1. run'[r].pc \notin HasLog /\ logs' = logs /\ jobs' = jobs /\ Only(r)
      BY <2>1, IdleLog DEF Starts, Leaves, SetLast, Moves, HasLog, Logged
    <3> QED BY <1>0, <1>1, <3>1 DEF Only, Latest, Open
  <2>2. CASE run[r].pc = "open" /\ Opens(r) /\ jobs' = jobs
    <3>1. run[r].job \in Jobs /\ Holds(r, run[r].job)
      BY <2>2, HasLogHolds
    <3>2. PICK n : n = Len(logs) + 1
      OBVIOUS
    <3>3. /\ n \in Nat /\ DOMAIN logs' = DOMAIN logs \cup {n}
          /\ \A i \in DOMAIN logs : logs'[i] = logs[i] /\ i <= n
          /\ logs'[n] # Deleted /\ logs'[n].job = run[r].job /\ logs'[n].status = "running"
      BY <2>2, <3>1, <3>2, AppendLog DEF Opens, NewLog
    <3>4. CASE q = r
      <4>1. run'[q].log = n
        BY <2>2, <3>2, <3>4 DEF Opens
      <4> QED BY <3>3, <4>1 DEF Latest, Open
    <3>5. CASE q # r
      <4>1. run'[q] = run[q] /\ run[q].pc \in HasLog
        BY <1>1, <2>2, <3>5 DEF Opens, Only
      <4>2. run[q].job # run[r].job
        BY <3>1, <3>5, <4>1, HasLogHolds DEF GuardInv, OneRunPerJob
      <4> QED BY <1>0, <2>2, <3>3, <4>1, <4>2 DEF Latest, Open
    <3> QED BY <3>4, <3>5
  <2>3. CASE Passes(r) \/ (CloseLog(r) /\ Moves(r, "last"))
    <3>1. /\ jobs' = jobs /\ DOMAIN logs' = DOMAIN logs
          /\ \A i \in DOMAIN logs : /\ logs'[i] = Deleted <=> logs[i] = Deleted
                                  /\ logs'[i].job = logs[i].job
      BY <2>3, CloseLogTable DEF Passes, CloseLog, Closes
    <3>2. /\ run'[q].job = run[q].job /\ run'[q].log = run[q].log /\ run[q].pc \in HasLog
          /\ run'[q].pc # "last" => run[q].pc # "last"
      BY <1>1, <2>3 DEF Passes, CloseLog, At, Moves, Only, SameRow, HasLog, Logged
    <3>3. run'[q].pc # "last" => logs'[run[q].log] = logs[run[q].log]
      <4>1. CASE Passes(r)
        BY <4>1 DEF Passes
      <4>2. ASSUME CloseLog(r), Moves(r, "last"), run'[q].pc # "last"
            PROVE  logs'[run[q].log] = logs[run[q].log]
        <5>1. q # r
          BY <4>2 DEF Moves
        <5>2. run[q].log # NoLog /\ run[q].log \in DOMAIN logs
          BY <1>0, <3>2, LogTyped, ConstantsAssumption
        <5> QED BY <4>2, <5>1, <5>2, CloseLogTable DEF LogInv
      <4> QED BY <2>3, <4>1, <4>2
    <3> QED BY <1>0, <3>1, <3>2, <3>3 DEF Latest, Open
  <2> QED BY <1>1, <2>1, <2>2, <2>3 DEF Flow
<1>2. ASSUME NEW j \in Jobs, DeleteJob(j), NEW q \in Runners, run'[q].pc \in HasLog
      PROVE  Latest(q)'
  <2>1. Latest(q) /\ run[q].log \in DOMAIN logs /\ run' = run /\ run[q].job \in Jobs
    BY <1>0, <1>2, DeleteLogs, HasLogHolds
  <2>2. jobs'[run[q].job] # NoRow => run[q].job # j /\ jobs[run[q].job] # NoRow
    BY <1>2, <2>1, DeleteLogs DEF TypeInv, TypeOK
  <2>3. run[q].log # NoLog
    BY <2>1, LogTyped, ConstantsAssumption
  <2> QED BY <1>2, <2>1, <2>2, <2>3, DeleteLogs DEF Latest, LogInv, Open
<1>3. ASSUME NEW j \in Jobs, NEW row \in Rows, EditJob(j, row), NEW q \in Runners, run'[q].pc \in HasLog
      PROVE  Latest(q)'
  <2>1. logs' = logs /\ run' = run /\ run[q].job \in Jobs /\ Latest(q)
    BY <1>0, <1>3, HasLogHolds DEF EditJob
  <2>2. jobs'[run[q].job] # NoRow => jobs[run[q].job] # NoRow
    BY <1>3, <2>1 DEF EditJob, TypeInv, TypeOK
  <2> QED BY <2>1, <2>2 DEF Latest, Open
<1>4. CASE Crash
  BY <1>4, IdleLog DEF Crash, LatestInv, Logged
<1>5. CASE UNCHANGED <<db, run>>
  BY <1>5 DEF LatestInv, Open, db
<1>6. LatestInv' <=> \A q \in Runners : run'[q].pc \in HasLog => Latest(q)'
  BY DEF LatestInv, Latest, HasLog, Open
<1> QED BY <1>1, <1>2, <1>3, <1>4, <1>5, <1>6, NextFlow

LEMMA LatestInductive == Spec => []LatestInv
BY InitLog, NextLatest, LogInductive, GuardInductive, TypeInductive, PTL DEF Spec
-----------------------------------------------------------------------------
(* The result of a job is that of its latest closed log. *)

ShowsLatest(j) ==
  IF Closed(j) = {} THEN last[j] = NoLog
  ELSE last[j] \in Closed(j) /\ \A i \in Closed(j) : i <= last[j]
NoneAtLast(j) == \A r \in Runners : Holds(r, j) => ~At(r, "last")

LEMMA ResultIs ==
  ResultInv <=> /\ \A r \in Runners : At(r, "last") => ~Open(run[r].log)
                /\ \A j \in Jobs : jobs[j] # NoRow /\ NoneAtLast(j) => ShowsLatest(j)
BY DEF ResultInv, LastResultIsLatest, ShowsLatest, NoneAtLast

(* The closed logs of a job change only when one of its runs closes one, or *)
(* with the job.                                                            *)
LEMMA ClosedSame ==
  ASSUME TypeInv, LogInv, NEW j \in Jobs,
         \/ UNCHANGED logs
         \/ \E r \in Runners : run[r].pc = "open" /\ Opens(r)
         \/ \E r \in Runners : CloseLog(r) /\ run[r].job # j
         \/ \E k \in Jobs \ {j} : DeleteJob(k)
  PROVE  /\ Closed(j)' = Closed(j)
         /\ \A i \in Closed(j) : logs'[i] = logs[i]
<1>1. CASE UNCHANGED logs
  BY <1>1 DEF Closed, Open
<1>2. ASSUME NEW r \in Runners, run[r].pc = "open", Opens(r)
      PROVE  /\ Closed(j)' = Closed(j)
             /\ \A i \in Closed(j) : logs'[i] = logs[i]
  <2>1. run[r].job \in Jobs
    BY <1>2, HasLogHolds
  <2>2. PICK n : n = Len(logs) + 1
    OBVIOUS
  <2>3. /\ n \notin DOMAIN logs /\ DOMAIN logs' = DOMAIN logs \cup {n}
        /\ \A i \in DOMAIN logs : logs'[i] = logs[i]
        /\ logs'[n].status = "running" /\ logs'[n] # Deleted
    BY <1>2, <2>1, <2>2, AppendLog DEF Opens, NewLog
  <2> QED BY <2>3 DEF Closed, Open
<1>3. ASSUME NEW r \in Runners, CloseLog(r), run[r].job # j
      PROVE  /\ Closed(j)' = Closed(j)
             /\ \A i \in Closed(j) : logs'[i] = logs[i]
  <2>1. run[r].log # NoLog /\ run[r].log \in DOMAIN logs
    BY <1>3, CloseLogTable, LogTyped, ConstantsAssumption
  <2>2. logs[run[r].log] # Deleted => logs[run[r].log].job # j
    BY <1>3, <2>1 DEF LogInv
  <2>3. logs'[run[r].log] # Deleted => logs'[run[r].log].job # j
    BY <1>3, <2>2, CloseLogTable DEF Closes
  <2> QED BY <1>3, <2>1, <2>2, <2>3, CloseLogTable DEF Closed, Open
<1>4. ASSUME NEW k \in Jobs \ {j}, DeleteJob(k)
      PROVE  /\ Closed(j)' = Closed(j)
             /\ \A i \in Closed(j) : logs'[i] = logs[i]
  <2>1. /\ DOMAIN logs' = DOMAIN logs
        /\ \A i \in DOMAIN logs :
             logs'[i] = logs[i] \/ (logs'[i] = Deleted /\ logs[i] # Deleted /\ logs[i].job # j)
    BY <1>4, DeleteLogs
  <2> QED BY <2>1 DEF Closed, Open
<1> QED BY <1>1, <1>2, <1>3, <1>4

LEMMA NextLastClosed ==
  ASSUME "log" \notin Events, TypeInv, LogInv, ResultInv, [Next]_vars,
         NEW q \in Runners, run'[q].pc = "last"
  PROVE  ~Open(run[q].log)'
<1>0. run[q].pc = "last" => /\ ~Open(run[q].log) /\ run[q].log \in DOMAIN logs
                            /\ run[q].log # NoLog
  BY LocalTyped, LogTyped, ConstantsAssumption DEF ResultInv, At, LocalOK
<1>1. ASSUME NEW r \in Runners, Flow(r) PROVE ~Open(run[q].log)'
  <2>1. CASE CloseLog(r) /\ Moves(r, "last")
    <3>1. CASE q = r
      BY <2>1, <3>1, CloseLogTable DEF Closes, Loses, Open, Moves
    <3>2. CASE q # r
      <4>1. run'[q] = run[q]
        BY <2>1, <3>2 DEF Moves, Only
      <4>2. run[q].log # run[r].log
        BY <1>0, <3>2, <4>1 DEF LogInv
      <4> QED BY <1>0, <2>1, <4>1, <4>2, CloseLogTable DEF Open
    <3> QED BY <3>1, <3>2
  <2>2. CASE run[r].pc = "open" /\ Opens(r)
    <3>1. run'[q] = run[q]
      BY <2>2 DEF Opens, Only
    <3>2. logs'[run[q].log] = logs[run[q].log]
      BY <1>0, <2>2, <3>1, HasLogHolds, AppendLog DEF Opens
    <3> QED BY <1>0, <3>1, <3>2 DEF Open
  <2>3. CASE Starts(r) \/ Leaves(r) \/ Passes(r) \/ (SetLast(r) /\ Moves(r, "unlock"))
    <3>1. logs' = logs /\ run'[q] = run[q]
      BY <2>3, IdleLog DEF Starts, Leaves, Passes, SetLast, Moves, Only, Logged
    <3> QED BY <1>0, <3>1 DEF Open
  <2> QED BY <1>1, <2>1, <2>2, <2>3 DEF Flow
<1>2. ASSUME NEW j \in Jobs, DeleteJob(j) PROVE ~Open(run[q].log)'
  BY <1>0, <1>2, DeleteLogs DEF Open
<1>3. CASE (\E j \in Jobs, row \in Rows : EditJob(j, row)) \/ UNCHANGED <<db, run>>
  BY <1>0, <1>3 DEF EditJob, Open, db
<1>4. CASE Crash
  BY <1>4, IdleLog DEF Crash
<1> QED BY <1>1, <1>2, <1>3, <1>4, NextFlow

LEMMA NextResult ==
  ASSUME "log" \notin Events, "crash" \notin Events,
         TypeInv, LogInv, LatestInv, ResultInv, [Next]_vars
  PROVE  ResultInv'
<1>0. ASSUME NEW j \in Jobs, jobs[j] # NoRow, NoneAtLast(j), Closed(j)' = Closed(j), last'[j] = last[j]
      PROVE  ShowsLatest(j)'
  <2>1. ShowsLatest(j)
    BY <1>0, ResultIs
  <2> QED BY <1>0, <2>1 DEF ShowsLatest
<1>1. ASSUME NEW j \in Jobs, jobs'[j] # NoRow, NoneAtLast(j)', NEW r \in Runners, Flow(r)
      PROVE  ShowsLatest(j)'
  <2>1. jobs' = jobs
    BY <1>1 DEF Flow, Starts, Leaves, Passes, CloseLog, SetLast
  <2>2. CASE Starts(r) \/ Leaves(r) \/ Passes(r) \/ (run[r].pc = "open" /\ Opens(r) /\ last' = last)
    <3>1. NoneAtLast(j)
      BY <1>1, <2>2 DEF Starts, Leaves, Passes, Opens, Moves, Only, Logged, NoneAtLast, At, Holds
    <3>2. Closed(j)' = Closed(j)
      BY <2>2, ClosedSame DEF Starts, Leaves, Passes
    <3> QED BY <1>0, <1>1, <2>1, <2>2, <3>1, <3>2 DEF Starts, Leaves, Passes
  <2>3. CASE CloseLog(r) /\ Moves(r, "last")
    <3>1. run[r].job # j
      BY <1>1, <2>3 DEF NoneAtLast, At, Holds, Moves, SameRow, Holding, PC
    <3>2. NoneAtLast(j)
      BY <1>1, <2>3 DEF CloseLog, Moves, Only, NoneAtLast, At, Holds
    <3> QED BY <1>0, <1>1, <2>1, <2>3, <3>1, <3>2, ClosedSame DEF CloseLog
  <2>4. CASE SetLast(r) /\ Moves(r, "unlock")
    <3>0. Closed(j)' = Closed(j) /\ run[r].pc = "last"
      BY <2>4, ClosedSame DEF SetLast, At
    <3>1. CASE run[r].job = j
      <4>1. last'[j] = run[r].log
        BY <1>1, <2>1, <2>4, <3>1 DEF SetLast, Job, TypeInv, TypeOK
      <4>2. run[r].log \in DOMAIN logs /\ ~Open(run[r].log) /\ Latest(r)
        BY <3>0, LocalTyped, LatestIs DEF ResultInv, At, LocalOK, HasLog
      <4>3. run[r].log # NoLog
        BY <4>2, LogTyped, ConstantsAssumption
      <4>4. run[r].log \in Closed(j) /\ \A i \in Closed(j) : i <= run[r].log
        BY <1>1, <2>1, <3>1, <4>2, <4>3 DEF LogInv, Latest, Closed
      <4> QED BY <3>0, <4>1, <4>4 DEF ShowsLatest
    <3>2. CASE run[r].job # j
      <4>1. NoneAtLast(j)
        BY <1>1, <2>4, <3>2 DEF Moves, Only, NoneAtLast, At, Holds
      <4>2. last'[j] = last[j]
        BY <2>4, <3>2 DEF SetLast, Job, TypeInv, TypeOK
      <4> QED BY <1>0, <1>1, <2>1, <3>0, <4>1, <4>2
    <3> QED BY <3>1, <3>2
  <2> QED BY <1>1, <2>2, <2>3, <2>4 DEF Flow
<1>2. ASSUME NEW j \in Jobs, jobs'[j] # NoRow, NoneAtLast(j)', NEW k \in Jobs, DeleteJob(k)
      PROVE  ShowsLatest(j)'
  <2>0. jobs' = [jobs EXCEPT ![k] = NoRow] /\ DOMAIN jobs = Jobs /\ run' = run
    BY <1>2, DeleteLogs DEF TypeInv, TypeOK
  <2>1. k # j /\ jobs[j] # NoRow /\ run' = run
    BY <1>2, <2>0
  <2>2. last'[j] = last[j] /\ NoneAtLast(j)
    BY <1>2, <2>1 DEF DeleteJob, TypeInv, TypeOK, NoneAtLast, Holds, At
  <2> QED BY <1>0, <1>2, <2>1, <2>2, ClosedSame
<1>3. ASSUME NEW j \in Jobs, jobs'[j] # NoRow, NoneAtLast(j)',
             (\E k \in Jobs, row \in Rows : EditJob(k, row)) \/ UNCHANGED <<db, run>>
      PROVE  ShowsLatest(j)'
  <2>1. UNCHANGED <<logs, last, run>> /\ jobs[j] # NoRow
    BY <1>3 DEF EditJob, db, TypeInv, TypeOK
  <2>2. NoneAtLast(j) /\ Closed(j)' = Closed(j)
    BY <1>3, <2>1, ClosedSame DEF NoneAtLast, Holds, At
  <2> QED BY <1>0, <2>1, <2>2
<1>4. \A j \in Jobs : jobs'[j] # NoRow /\ NoneAtLast(j)' => ShowsLatest(j)'
  BY <1>1, <1>2, <1>3, NextFlow DEF Crash
<1>5. \A q \in Runners : run'[q].pc = "last" => ~Open(run[q].log)'
  BY NextLastClosed
<1>6. LastResultIsLatest'
  BY <1>4 DEF LastResultIsLatest, ShowsLatest, NoneAtLast
<1> QED BY <1>5, <1>6 DEF ResultInv, At

(* The overview shows the latest finished run of a job, never an earlier    *)
(* one, however many goroutines ask for it and whatever fails on the way,   *)
(* as long as the updates that Run does not check succeed and the process   *)
(* lives (Run, UpdateRunLog, UpdateJobLastRun).                             *)
THEOREM LastResultCurrent ==
  ASSUME "log" \notin Events, "crash" \notin Events
  PROVE  Spec => []LastResultIsLatest
<1>1. Init => ResultInv
  BY DEF Init, ResultInv, LastResultIsLatest, Closed, At, IdleRun
<1>2. TypeInv /\ LogInv /\ LatestInv /\ ResultInv /\ [Next]_vars => ResultInv'
  BY NextResult
<1>3. ResultInv => LastResultIsLatest
  BY DEF ResultInv
<1> QED BY <1>1, <1>2, <1>3, LatestInductive, LogInductive, TypeInductive, PTL DEF Spec
-----------------------------------------------------------------------------
(* The history of a job explains the list it has for its own. *)

LEMMA UntoldGrows ==
  ASSUME TypeInv, [Next]_vars
  PROVE  untold \subseteq untold'
<1>1. ASSUME NEW r \in Runners, Step(r) PROVE untold \subseteq untold'
  <2>1. CASE Put(r)
    BY <2>1 DEF Put, Untell
  <2>2. CASE CloseLog(r)
    BY <2>2 DEF CloseLog, Untell
  <2>3. CASE UNCHANGED untold
    BY <2>3
  <2> QED BY <1>1, <2>1, <2>2, <2>3
          DEF Step, Acquire, Skip, LoadJob, OpenLog, Resolve, Record, Expire, Observe, Clear,
              LoadController, Fetch, SetLast, Unlock
<1>2. CASE (\E j \in Jobs : DeleteJob(j)) \/ \E j \in Jobs, row \in Rows : EditJob(j, row)
  BY <1>2 DEF DeleteJob, EditJob, Untell
<1>3. CASE Crash \/ \E l \in Lists, items \in SUBSET (Addrs \cup Ranges) : AdminEdit(l, items)
  BY <1>3 DEF Crash, AdminEdit, Untell
<1>4. CASE UNCHANGED untold
  BY <1>4
<1> QED BY <1>1, <1>2, <1>3, <1>4, NextCases DEF Call, Tick, vars

(* The row of a job stays on its list, or both the lists are untold. *)
Stays(j) ==
  \/ jobs'[j] = jobs[j]
  \/ jobs[j] # NoRow /\ jobs'[j] = NoRow /\ jobs[j].list \in untold'
  \/ /\ jobs[j] # NoRow /\ jobs'[j] # NoRow
     /\ jobs'[j].list = jobs[j].list \/ {jobs'[j].list, jobs[j].list} \subseteq untold'

LEMMA NextStays ==
  ASSUME TypeInv, [Next]_vars, NEW j \in Jobs
  PROVE  Stays(j)
<1>0. DOMAIN jobs = Jobs
  BY DEF TypeInv, TypeOK
<1>1. ASSUME NEW k \in Jobs, DeleteJob(k) PROVE Stays(j)
  BY <1>0, <1>1 DEF DeleteJob, Untell, Stays
<1>2. ASSUME NEW k \in Jobs, NEW row \in Rows, EditJob(k, row) PROVE Stays(j)
  BY <1>0, <1>2, ConstantsAssumption DEF EditJob, Untell, Stays
<1>3. CASE UNCHANGED jobs
  BY <1>3 DEF Stays
<1> QED BY <1>1, <1>2, <1>3, NextFlow DEF Flow, Starts, Leaves, Passes, CloseLog, SetLast, Crash, db

(* The list of a run is that of its job, but for untold ones. *)
OnList(read, now, ls) ==
  IF now = NoRow THEN read.list \in ls
  ELSE read.list = now.list \/ {read.list, now.list} \subseteq ls

LEMMA RowIs ==
  RowInv <=> \A r \in Runners : run[r].pc \in HasRow => OnList(run[r].row, jobs[run[r].job], untold)
BY DEF RowInv, HasRow, OnList

LEMMA NextRowInv ==
  ASSUME TypeInv, RowInv, [Next]_vars
  PROVE  RowInv'
<1>1. ASSUME NEW r \in Runners, run'[r].pc \in HasRow
      PROVE  OnList(run'[r].row, jobs'[run'[r].job], untold')
  <2>1. RowStep(r)
    BY NextRow
  <2>2. CASE run[r].pc \in HasRow /\ SameRow(r)
    <3>1. PICK j \in Jobs : j = run[r].job
      BY <2>2, LocalTyped DEF LocalOK, HasRow, Holding
    <3>2. Stays(j) /\ untold \subseteq untold' /\ OnList(run[r].row, jobs[j], untold)
      BY <2>2, <3>1, NextStays, UntoldGrows, RowIs
    <3>3. run'[r].row = run[r].row /\ run'[r].job = j
      BY <2>2, <3>1 DEF SameRow
    <3> QED BY <3>2, <3>3 DEF Stays, OnList
  <2>3. CASE TakesRow(r)
    BY <2>3 DEF TakesRow, OnList
  <2> QED BY <1>1, <2>1, <2>2, <2>3 DEF RowStep
<1> QED BY <1>1 DEF RowInv, HasRow, OnList

(* What the steps of a run do to its diff and to the lists. *)

NoDiff(r) == run'[r].added = {} /\ run'[r].removed = {}

\* it has no diff yet, or no longer
Idles(r) ==
  /\ run'[r].pc \notin {"put", "close"} /\ UNCHANGED lists
  /\ run'[r].pc \in {"last", "unlock"} \/ NoDiff(r)
\* execute ends and has not touched the list
Gives0(r) == Moves(r, "close") /\ NoDiff(r) /\ UNCHANGED lists
\* execute ends and has written the list: with its diff, or with nobody told
Writes(r) ==
  /\ run[r].pc = "put" /\ Moves(r, "close")
  /\ lists' = [lists EXCEPT ![run[r].row.list] = run[r].ips]
  /\ \/ SameDiff(r) /\ lists[run[r].row.list] \subseteq Addrs
     \/ run[r].row.list \in untold'

NoDiffYet(r) == run[r].pc \notin {"put", "close", "last", "unlock"} => run[r].added = {} /\ run[r].removed = {}

LEMMA FlowDiff ==
  ASSUME TypeInv, NEW r \in Runners, NoDiffYet(r), Step(r)
  PROVE  Idles(r) \/ Gives0(r) \/ Writes(r) \/ (run[r].pc = "fetch" /\ Diffs(r) /\ UNCHANGED lists)
<1>1. CASE (Skip(r) \/ Return(r)) /\ UNCHANGED lists
  BY <1>1, BecomesOnly DEF Skip, Return, IdleRun, Idles, NoDiff
<1>2. CASE Acquire(r)
  BY <1>2, GotoMoves DEF Acquire, At, Moves, SameDiff, NoDiffYet, NoDiff, Idles
<1>3. CASE LoadJob(r)
  BY <1>1, <1>3, LoadMoves DEF LoadJob, At, Loads, SameDiff, NoDiffYet, NoDiff, Idles
<1>4. CASE OpenLog(r)
  BY <1>1, <1>4, OpenMoves DEF OpenLog, At, Opens, SameDiff, NoDiffYet, NoDiff, Idles
<1>5. CASE Fail(r) /\ UNCHANGED lists
  BY <1>5, FailMoves DEF Gives0, NoDiff
<1>6. CASE Resolve(r)
  BY <1>5, <1>6, ResolveMoves DEF Resolve, At, Resolves, Moves, SameDiff, NoDiffYet, NoDiff, Idles
<1>7. CASE Record(r) \/ Expire(r) \/ LoadController(r)
  BY <1>5, <1>7, GotoMoves DEF Record, Expire, LoadController, At, Moves, SameDiff, NoDiffYet, NoDiff, Idles
<1>8. CASE Observe(r) \/ Clear(r)
  <2>1. Fail(r) \/ \E ips : Merges(r, ips)
    BY <1>8, ObserveMoves, ClearMoves
  <2>2. UNCHANGED lists /\ run[r].pc \in {"observe", "clear"}
    BY <1>8 DEF Observe, Clear, At, db
  <2>3. ASSUME NEW ips, Merges(r, ips) PROVE Idles(r)
    BY <2>2, <2>3 DEF Merges, Moves, SameDiff, NoDiffYet, NoDiff, Idles
  <2> QED BY <1>5, <2>1, <2>2, <2>3
<1>9. CASE Fetch(r)
  <2>1. run[r].pc = "fetch" /\ UNCHANGED lists
    BY <1>9 DEF Fetch, At
  <2>2. CASE Succeed(r)
    BY <2>1, <2>2, SucceedMoves DEF SameDiff, NoDiffYet, NoDiff, Gives0
  <2> QED BY <1>5, <1>9, <2>1, <2>2, FetchMoves
<1>10. CASE Put(r)
  <2>1. run[r].pc = "put"
    BY <1>10 DEF Put, At
  <2>2. CASE Push(r) /\ Succeed(r) /\ Untell(IF Ours(r) THEN {} ELSE {RowOf(r).list})
    <3>1. Moves(r, "close") /\ SameDiff(r)
      BY <2>2, SucceedMoves
    <3>2. lists[run[r].row.list] \subseteq Addrs \/ run[r].row.list \in untold'
      BY <2>2 DEF Untell, Ours, RowOf
    <3> QED BY <2>1, <2>2, <3>1, <3>2 DEF Push, RowOf, Writes
  <2>3. CASE Push(r) /\ Fail(r) /\ Untell({RowOf(r).list})
    <3>1. Moves(r, "close") /\ NoDiff(r)
      BY <2>3, FailMoves DEF NoDiff
    <3> QED BY <2>1, <2>3, <3>1 DEF Push, RowOf, Writes, Untell
  <2> QED BY <1>5, <1>10, <2>2, <2>3 DEF Put
<1>11. CASE CloseLog(r) \/ SetLast(r)
  BY <1>11, GotoMoves DEF CloseLog, SetLast, Moves, Idles
<1>12. CASE Unlock(r) \/ Skip(r)
  BY <1>1, <1>12 DEF Unlock, Skip
<1> QED BY <1>2, <1>3, <1>4, <1>6, <1>7, <1>8, <1>9, <1>10, <1>11, <1>12 DEF Step

LEMMA NextDiffYet ==
  ASSUME TypeInv, \A r \in Runners : NoDiffYet(r), [Next]_vars
  PROVE  \A r \in Runners : NoDiffYet(r)'
<1>1. ASSUME NEW r \in Runners, Only(r), Idles(r) \/ Gives0(r) \/ run'[r].pc \in {"put", "close"}
      PROVE  \A q \in Runners : NoDiffYet(q)'
  BY <1>1 DEF Only, NoDiffYet, Idles, Gives0, NoDiff
<1>2. ASSUME NEW r \in Runners, Step(r) PROVE \A q \in Runners : NoDiffYet(q)'
  <2>1. Only(r)
    BY <1>2, StepFlow DEF Flow, Starts, Leaves, Opens, Passes, Moves
  <2> QED BY <1>1, <1>2, <2>1, FlowDiff DEF Writes, Diffs, Moves
<1>3. ASSUME NEW r \in Runners, NEW j \in Jobs, Call(r, j) PROVE \A q \in Runners : NoDiffYet(q)'
  <2> DEFINE new == [run[r] EXCEPT !.pc = "called", !.job = j]
  <2>1. run'[r] = new /\ Only(r) /\ run[r].pc = "idle" /\ UNCHANGED lists
    BY <1>3, BecomesOnly DEF Call, At
  <2>2. new.pc = "called" /\ new.added = run[r].added /\ new.removed = run[r].removed
    BY LocalTyped DEF Run
  <2> HIDE DEF new
  <2>3. Idles(r)
    BY <2>1, <2>2 DEF Idles, NoDiff, NoDiffYet
  <2> QED BY <1>1, <2>1, <2>3
<1>4. CASE Crash
  BY <1>4 DEF NoDiffYet, Crash, IdleRun
<1>5. CASE UNCHANGED run
  BY <1>5 DEF NoDiffYet
<1> QED BY <1>2, <1>3, <1>4, <1>5, NextCases DEF DeleteJob, EditJob, AdminEdit, Tick, vars

(* The conjunct of DiffInv about one job with a list of its own. *)
DiffOf(r, j, l) ==
  /\ At(r, "put") => /\ run[r].added = run[r].ips \ lists[l]
                     /\ run[r].removed = (lists[l] \cap Addrs) \ run[r].ips
  /\ At(r, "close") => \A a \in Addrs \cup Ranges :
       a \in lists[l] <=> a \in run[r].added \/ (a \notin run[r].removed /\ Told(j, l, a))
NoneAtClose(j) == \A r \in Runners : Holds(r, j) => ~At(r, "close")
Accounted(j, l) ==
  /\ \A r \in Runners : Holds(r, j) => DiffOf(r, j, l)
  /\ NoneAtClose(j) => Explained(j, l)

LEMMA DiffIs ==
  DiffInv <=> /\ \A r \in Runners : NoDiffYet(r)
              /\ \A j \in Jobs : \A l \in Lists \ untold : OwnList(j, l) => Accounted(j, l)
<1>1. (\A j \in Jobs : \A l \in Lists \ untold : OwnList(j, l) => Accounted(j, l)) <=>
      /\ \A j \in Jobs : \A l \in Lists \ untold : OwnList(j, l) =>
           \A r \in Runners : Holds(r, j) => DiffOf(r, j, l)
      /\ HistoryExplainsList
  BY DEF Accounted, NoneAtClose, HistoryExplainsList
<1> QED BY <1>1 DEF DiffInv, NoDiffYet, DiffOf

LEMMA ClosedSameLogs ==
  ASSUME NEW j \in Jobs, UNCHANGED logs
  PROVE  /\ Closed(j)' = Closed(j)
         /\ \A i \in Closed(j) : logs'[i] = logs[i]
BY DEF Closed, Open

(* What the history says changes with the closed logs only. *)
LEMMA ToldSame ==
  ASSUME NEW j \in Jobs, Closed(j)' = Closed(j), \A i \in Closed(j) : logs'[i] = logs[i]
  PROVE  \A l, a : Told(j, l, a)' <=> Told(j, l, a)
<1>1. \A a : Mentions(j, a)' = Mentions(j, a)
  BY DEF Mentions
<1>2. \A a : \A i \in Mentions(j, a) : logs'[i] = logs[i]
  BY DEF Mentions
<1> QED BY <1>1, <1>2 DEF Told

(* Nothing changes for a job when the run of another one takes a step. *)
LEMMA OthersSame ==
  ASSUME NEW j \in Jobs, NEW l \in Lists, Accounted(j, l), NEW r \in Runners, Only(r),
         ~Holds(r, j),
         Holds(r, j)' => run'[r].pc \notin {"put", "close"},
         lists'[l] = lists[l], \A a : Told(j, l, a)' <=> Told(j, l, a)
  PROVE  Accounted(j, l)'
<1>1. \A q \in Runners : Holds(q, j)' /\ run'[q].pc \in {"put", "close"} =>
        run'[q] = run[q] /\ Holds(q, j)
  BY DEF Only, Holds
<1>2. \A q \in Runners : Holds(q, j)' => DiffOf(q, j, l)'
  BY <1>1 DEF Accounted, DiffOf, At
<1>3. NoneAtClose(j)' => NoneAtClose(j)
  BY DEF NoneAtClose, At, Holds, Only
<1>4. Explained(j, l) => Explained(j, l)'
  BY DEF Explained
<1> QED BY <1>2, <1>3, <1>4 DEF Accounted

(* Until a run of the job closes its log, the history says what it said. *)
LEMMA StepTold ==
  ASSUME TypeInv, LogInv, NEW j \in Jobs, NEW r \in Runners, Step(r),
         run[r].pc # "close" \/ run[r].job # j
  PROVE  \A l, a : Told(j, l, a)' <=> Told(j, l, a)
<1>1. Flow(r)
  BY StepFlow
<1>2. CASE CloseLog(r)
  BY <1>2, ClosedSame, ToldSame DEF CloseLog, At
<1>3. CASE Starts(r) \/ Leaves(r) \/ Passes(r) \/ SetLast(r)
  <2>1. UNCHANGED logs
    BY <1>3 DEF Starts, Leaves, Passes, SetLast
  <2> QED BY <2>1, ClosedSame, ToldSame
<1>4. CASE run[r].pc = "open" /\ Opens(r)
  BY <1>4, ClosedSame, ToldSame
<1> QED BY <1>1, <1>2, <1>3, <1>4 DEF Flow

(* The log of the run is the last word on what it mentions. *)
LEMMA CloseTold ==
  ASSUME TypeInv, LogInv, LatestInv,
         NEW r \in Runners, CloseLog(r), NEW j \in Jobs, run[r].job = j, jobs[j] # NoRow,
         NEW l, run[r].row.list = l, l \notin untold'
  PROVE  \A a : Told(j, l, a)' <=> a \in run[r].added \/ (a \notin run[r].removed /\ Told(j, l, a))
<1>0. CASE UNCHANGED logs /\ ~Differs(r)
  <2>1. \A a : Told(j, l, a)' <=> Told(j, l, a)
    BY <1>0, ClosedSame, ToldSame
  <2> QED BY <1>0, <2>1 DEF Differs
<1> SUFFICES ASSUME ~(UNCHANGED logs /\ ~Differs(r))
             PROVE  \A a : Told(j, l, a)' <=> a \in run[r].added \/ (a \notin run[r].removed /\ Told(j, l, a))
  BY <1>0
<1>1. PICK n \in DOMAIN logs : n = run[r].log
  BY CloseLogTable
<1>2. /\ Latest(r) /\ n \in Nat /\ n # NoLog /\ logs[n] # Deleted
      /\ logs[n].job = j /\ Open(n)
  BY <1>1, CloseLogTable, LatestIs, LogTyped, ConstantsAssumption DEF HasLog, Logged, Latest, LogInv
<1>3. /\ Closes(r) /\ DOMAIN logs' = DOMAIN logs
      /\ \A i \in DOMAIN logs \ {n} : logs'[i] = logs[i]
      /\ run[r].status # "running"
  BY <1>1, <1>2, CloseLogTable DEF Loses
<1>4. n \notin Closed(j) /\ Closed(j)' = Closed(j) \cup {n}
  BY <1>1, <1>2, <1>3 DEF Closed, Open, Closes
<1>5. \A i \in Closed(j) : i <= n /\ i \in Nat /\ logs'[i] = logs[i]
  BY <1>1, <1>2, <1>3, <1>4, LogTyped DEF Closed, Latest
<1>6. logs'[n].added = run[r].added /\ logs'[n].removed = run[r].removed
  BY <1>1, <1>3 DEF Closes
<1>7. ASSUME NEW a
      PROVE  Told(j, l, a)' <=> a \in run[r].added \/ (a \notin run[r].removed /\ Told(j, l, a))
  <2>1. CASE a \in run[r].added \cup run[r].removed
    <3>1. Mentions(j, a)' = Mentions(j, a) \cup {n}
      BY <1>4, <1>5, <1>6, <2>1 DEF Mentions
    <3>2. \A k \in Mentions(j, a)' : k <= n /\ (n <= k => k = n)
      BY <1>2, <1>5, <3>1 DEF Mentions
    <3>3. Told(j, l, a)' <=> a \in logs'[n].added
      BY <3>1, <3>2 DEF Told
    <3> QED BY <1>6, <2>1, <3>3
  <2>2. CASE a \notin run[r].added \cup run[r].removed
    <3>1. Mentions(j, a)' = Mentions(j, a)
      BY <1>4, <1>5, <1>6, <2>2 DEF Mentions
    <3>2. \A i \in Mentions(j, a) : logs'[i] = logs[i]
      BY <1>5 DEF Mentions
    <3> QED BY <2>2, <3>1, <3>2 DEF Told
  <2> QED BY <2>1, <2>2
<1> QED BY <1>7

(* The run of a job with a list of its own works on that list. *)
LEMMA OwnRow ==
  ASSUME RowInv, NEW j \in Jobs, NEW l \in Lists \ untold, OwnList(j, l),
         NEW r \in Runners, run[r].pc \in HasRow, run[r].job \in Jobs
  PROVE  run[r].row.list = l <=> run[r].job = j
<1>1. OnList(run[r].row, jobs[run[r].job], untold)
  BY RowIs
<1> QED BY <1>1 DEF OnList, OwnList

LEMMA HolderSteps ==
  ASSUME TypeInv, GuardInv, LogInv, LatestInv, RowInv, [Next]_vars,
         \A q \in Runners : NoDiffYet(q),
         NEW j \in Jobs, NEW l \in Lists \ untold', OwnList(j, l), Accounted(j, l),
         NEW r \in Runners, Step(r), Holds(r, j)
  PROVE  Accounted(j, l)'
<1>0. /\ Only(r) /\ run[r].job = j /\ jobs[j] # NoRow /\ l \in Lists \ untold
      /\ \A q \in Runners \ {r} : ~Holds(q, j)
      /\ lists \in [Lists -> SUBSET (Addrs \cup Ranges)]
  BY StepFlow, UntoldGrows DEF Flow, Starts, Leaves, Opens, Passes, Moves, Holds, OwnList,
     GuardInv, OneRunPerJob, TypeInv, TypeOK
<1>1. \A q \in Runners : Holds(q, j)' => q = r
  BY <1>0 DEF Only, Holds
<1>2. SUFFICES /\ Holds(r, j)' => DiffOf(r, j, l)'
               /\ (Holds(r, j)' => run'[r].pc # "close") => Explained(j, l)'
  BY <1>1 DEF Accounted, NoneAtClose, At
<1>3. run[r].pc # "close" => Explained(j, l) /\ \A a : Told(j, l, a)' <=> Told(j, l, a)
  BY <1>0, StepTold DEF Accounted, NoneAtClose, At
<1>4. run[r].pc \in {"fetch", "put", "close"} => run[r].row.list = l
  BY <1>0, OwnRow DEF HasRow, Holding, PC
<1>5. CASE CloseLog(r)
  <2>1. /\ run[r].pc = "close" /\ run'[r].pc = "last" /\ UNCHANGED lists
    BY <1>5, GotoMoves DEF CloseLog, At, Moves
  <2>2. \A a \in Addrs \cup Ranges :
          a \in lists[l] <=> a \in run[r].added \/ (a \notin run[r].removed /\ Told(j, l, a))
    BY <2>1 DEF Accounted, DiffOf, At
  <2>3. Explained(j, l)'
    BY <1>0, <1>4, <1>5, <2>1, <2>2, CloseTold DEF Explained
  <2> QED BY <2>1, <2>3 DEF DiffOf, At
<1>6. CASE ~CloseLog(r)
  <2>0. run[r].pc # "close"
    BY <1>6 DEF Step, Acquire, Skip, LoadJob, OpenLog, Resolve, Record, Expire, Observe, Clear,
       LoadController, Fetch, Put, SetLast, Unlock, At
  <2>1. CASE Idles(r)
    BY <1>3, <2>0, <2>1 DEF Idles, DiffOf, At, Explained
  <2>2. CASE Gives0(r)
    BY <1>0, <1>3, <2>0, <2>2 DEF Gives0, NoDiff, Moves, SameRow, Holds, Holding, PC, DiffOf, At, Explained
  <2>3. CASE run[r].pc = "fetch" /\ Diffs(r) /\ UNCHANGED lists
    <3>1. run[r].ips \subseteq Addrs
      BY LocalTyped DEF Run
    <3>2. /\ run'[r].pc = "put" /\ run'[r].ips = run[r].ips
          /\ run'[r].added = run[r].ips \ lists[l]
          /\ run'[r].removed = (lists[l] \cap Addrs) \ run[r].ips
      BY <1>4, <2>3, <3>1 DEF Diffs, Moves
    <3> QED BY <1>3, <2>0, <2>3, <3>2 DEF DiffOf, At, Explained
  <2>4. CASE Writes(r)
    <3>1. /\ run'[r].pc = "close" /\ run'[r].job = j /\ lists'[l] = run[r].ips
          /\ run'[r].added = run[r].added /\ run'[r].removed = run[r].removed
          /\ lists[l] \subseteq Addrs
      BY <1>0, <1>4, <2>4 DEF Writes, Moves, SameRow, SameDiff
    <3>2. /\ run[r].added = run[r].ips \ lists[l]
          /\ run[r].removed = (lists[l] \cap Addrs) \ run[r].ips
      BY <1>0, <2>4 DEF Writes, Accounted, DiffOf, At
    <3>3. DiffOf(r, j, l)'
      BY <1>3, <2>0, <3>1, <3>2 DEF DiffOf, At, Explained
    <3> QED BY <3>1, <3>3 DEF Holds, Holding, PC
  <2> QED BY <2>1, <2>2, <2>3, <2>4, FlowDiff
<1> QED BY <1>5, <1>6

(* A list is a job's own already before the step, unless it is untold after *)
(* it.                                                                      *)
LEMMA NextOwn ==
  ASSUME TypeInv, NEW j \in Jobs, NEW l \in Lists \ untold', OwnList(j, l)', [Next]_vars
  PROVE  OwnList(j, l) /\ l \notin untold
<1>1. \A k \in Jobs : Stays(k)
  BY NextStays
<1>2. jobs[j] # NoRow /\ jobs[j].list = l
  BY <1>1 DEF OwnList, Stays
<1>3. ASSUME NEW k \in Jobs \ {j}, jobs[k] # NoRow PROVE jobs[k].list # l
  BY <1>1, <1>3 DEF OwnList, Stays
<1> QED BY <1>2, <1>3, UntoldGrows DEF OwnList

(* Nothing changes for a job either while its runs and its list stay as     *)
(* they are and its history says the same.                                  *)
LEMMA NothingNew ==
  ASSUME NEW j \in Jobs, NEW l \in Lists, Accounted(j, l), run' = run,
         lists'[l] = lists[l], \A a : Told(j, l, a)' <=> Told(j, l, a)
  PROVE  Accounted(j, l)'
<1>1. \A q \in Runners : (Holds(q, j)' <=> Holds(q, j)) /\ (At(q, "close")' <=> At(q, "close"))
  BY DEF Holds, At
<1>2. \A q \in Runners : DiffOf(q, j, l) => DiffOf(q, j, l)'
  BY DEF DiffOf, At
<1>3. Explained(j, l) => Explained(j, l)'
  BY DEF Explained
<1> QED BY <1>1, <1>2, <1>3 DEF Accounted, NoneAtClose

(* The process ends: a diff that has not reached the log leaves the list    *)
(* untold.                                                                  *)
LEMMA CrashAccounted ==
  ASSUME TypeInv, RowInv, NEW j \in Jobs, NEW l \in Lists \ untold, l \notin untold',
         OwnList(j, l), Accounted(j, l), Crash
  PROVE  Accounted(j, l)'
<1>1. \A q \in Runners : ~Holds(q, j)'
  BY DEF Crash, Holds, IdleRun, Holding
<1>2. Explained(j, l)
  <2>1. CASE NoneAtClose(j)
    BY <2>1 DEF Accounted
  <2>2. ASSUME NEW r \in Runners, Holds(r, j), At(r, "close") PROVE Explained(j, l)
    <3>1. run[r].row.list = l
      BY <2>2, OwnRow DEF Holds, At, HasRow, Holding, PC
    <3>2. ~Differs(r)
      BY <2>2, <3>1 DEF Crash, Untell, RowOf
    <3>3. \A a \in Addrs \cup Ranges : a \in lists[l] <=> Told(j, l, a)
      BY <2>2, <3>2 DEF Accounted, DiffOf, Differs
    <3> QED BY <3>3 DEF Explained
  <2> QED BY <2>1, <2>2 DEF NoneAtClose
<1>3. \A a : Told(j, l, a)' <=> Told(j, l, a)
  BY ClosedSameLogs, ToldSame DEF Crash, db
<1>4. Explained(j, l)'
  BY <1>2, <1>3 DEF Explained, Crash
<1> QED BY <1>1, <1>4 DEF Accounted

LEMMA NextAccounted ==
  ASSUME TypeInv, GuardInv, LogInv, LatestInv, RowInv, DiffInv, [Next]_vars,
         NEW j \in Jobs, NEW l \in Lists \ untold', OwnList(j, l)'
  PROVE  Accounted(j, l)'
<1>0. /\ OwnList(j, l) /\ Accounted(j, l) /\ l \in Lists \ untold
      /\ \A q \in Runners : NoDiffYet(q)
  BY NextOwn, DiffIs
<1>1. ASSUME NEW r \in Runners, Step(r), ~Holds(r, j) PROVE Accounted(j, l)'
  <2>1. Only(r) /\ \A a : Told(j, l, a)' <=> Told(j, l, a)
    <3>1. run[r].pc # "close" \/ run[r].job # j
      BY <1>1 DEF Holds, Holding, PC
    <3> QED BY <1>1, <3>1, StepTold, StepKind DEF Kind
  <2>2. Holds(r, j)' => run'[r].pc \notin {"put", "close"}
    <3>1. Acquire(r) => run'[r].pc = "load"
      BY GotoMoves DEF Acquire, Moves
    <3>2. Gives(r) => run'[r].pc = "idle"
      BY BecomesOnly DEF Gives, Return, IdleRun
    <3>3. Keeps(r) => ~Holds(r, j)'
      BY <1>1 DEF Keeps, Holds
    <3> QED BY <1>1, <3>1, <3>2, <3>3, StepKind DEF Kind
  <2>3. lists'[l] = lists[l]
    <3>1. CASE Writes(r)
      <4>1. run[r].pc = "put" /\ run[r].pc \in HasRow
        BY <3>1 DEF Writes, HasRow, Holding, PC
      <4>2. run[r].job \in Jobs \ {j}
        BY <1>1, <4>1, LocalTyped DEF LocalOK, Holds, HasRow
      <4>3. run[r].row.list # l
        BY <1>0, <4>1, <4>2, OwnRow
      <4> QED BY <1>0, <3>1, <4>3 DEF Writes, TypeInv, TypeOK
    <3> QED BY <1>0, <1>1, <3>1, FlowDiff DEF Idles, Gives0
  <2> QED BY <1>0, <1>1, <2>1, <2>2, <2>3, OthersSame
<1>2. ASSUME NEW r \in Runners, NEW k \in Jobs, Call(r, k) PROVE Accounted(j, l)'
  <2> DEFINE new == [run[r] EXCEPT !.pc = "called", !.job = k]
  <2>1. run'[r] = new /\ Only(r) /\ run[r].pc = "idle" /\ UNCHANGED <<logs, lists>>
    BY <1>2, BecomesOnly DEF Call, At, db
  <2>2. new.pc = "called"
    BY LocalTyped DEF Run
  <2> HIDE DEF new
  <2>3. ~Holds(r, j) /\ ~Holds(r, j)' /\ \A a : Told(j, l, a)' <=> Told(j, l, a)
    BY <2>1, <2>2, ClosedSameLogs, ToldSame DEF Holds, Holding
  <2> QED BY <1>0, <2>1, <2>3, OthersSame
<1>3. CASE UNCHANGED <<run, logs>> /\ lists'[l] = lists[l]
  BY <1>0, <1>3, ClosedSameLogs, ToldSame, NothingNew
<1>4. ASSUME NEW k \in Jobs, DeleteJob(k) PROVE Accounted(j, l)'
  <2>1. k # j /\ UNCHANGED <<run, lists>>
    BY <1>4 DEF OwnList, DeleteJob, TypeInv, TypeOK
  <2> QED BY <1>0, <1>4, <2>1, ClosedSame, ToldSame, NothingNew
<1>5. ASSUME NEW r \in Runners, Step(r), Holds(r, j) PROVE Accounted(j, l)'
  BY <1>0, <1>5, HolderSteps
<1>6. ASSUME NEW m \in Lists, NEW items, AdminEdit(m, items) PROVE Accounted(j, l)'
  <2>1. m # l /\ UNCHANGED <<run, logs>>
    BY <1>6 DEF AdminEdit, Untell, db
  <2> QED BY <1>3, <1>6, <2>1 DEF AdminEdit, TypeInv, TypeOK
<1>7. CASE Crash
  BY <1>0, <1>7, CrashAccounted
<1> QED BY <1>1, <1>2, <1>3, <1>4, <1>5, <1>6, <1>7, NextCases DEF EditJob, Tick, vars, db

LEMMA NextDiff ==
  ASSUME TypeInv, GuardInv, LogInv, LatestInv, RowInv, DiffInv, [Next]_vars
  PROVE  DiffInv'
<1>1. /\ \A r \in Runners : NoDiffYet(r)'
      /\ \A j \in Jobs : \A l \in Lists \ untold' : OwnList(j, l)' => Accounted(j, l)'
  BY NextDiffYet, NextAccounted, DiffIs
<1>2. (/\ \A r \in Runners : NoDiffYet(r)
       /\ \A j \in Jobs : \A l \in Lists \ untold : OwnList(j, l) => Accounted(j, l))' => DiffInv'
  BY DiffIs, PTL
<1> QED BY <1>1, <1>2

(* "detailed diffs of every sync": from the history of a job one can tell   *)
(* what the list it has for its own holds, between any two of its runs and  *)
(* whatever else happens, until a step that leaves the list untold: an edit *)
(* on the controller, a push over ranges or one whose reply is lost, a diff *)
(* that never reaches its log because of a crash or a failed update, a job  *)
(* moved from or to the list, a job on it deleted (execute, UpdateRunLog).  *)
THEOREM HistoryComplete == Spec => []HistoryExplainsList
<1>1. Init => RowInv /\ DiffInv
  <2> SUFFICES ASSUME Init PROVE RowInv /\ DiffInv
    OBVIOUS
  <2>1. \A r \in Runners : /\ run[r].pc = "idle" /\ run[r].added = {} /\ run[r].removed = {}
                          /\ \A j \in Jobs : ~Holds(r, j)
    BY DEF Init, IdleRun, Holds, Holding
  <2>2. \A j \in Jobs : \A l, a : Told(j, l, a) <=> a \in Initial[l]
    <3>1. \A j \in Jobs : Closed(j) = {}
      BY DEF Init, Closed
    <3> QED BY <3>1 DEF Mentions, Told
  <2>3. HistoryExplainsList
    BY <2>2 DEF Init, HistoryExplainsList, Explained
  <2>4. RowInv
    BY <2>1 DEF RowInv, Holding
  <2> QED BY <2>1, <2>3, <2>4 DEF DiffInv
<1>2. TypeInv /\ RowInv /\ [Next]_vars => RowInv'
  BY NextRowInv
<1>3. TypeInv /\ GuardInv /\ LogInv /\ LatestInv /\ RowInv /\ DiffInv /\ [Next]_vars => DiffInv'
  BY NextDiff
<1>4. DiffInv => HistoryExplainsList
  BY DEF DiffInv
<1> QED BY <1>1, <1>2, <1>3, <1>4, LatestInductive, LogInductive, GuardInductive, TypeInductive, PTL
        DEF Spec
=============================================================================
