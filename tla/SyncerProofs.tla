---------------------------- MODULE SyncerProofs ----------------------------
(***************************************************************************)
(* Safety of Syncer for every number of jobs, goroutines, lists and        *)
(* addresses, and for every set of events.                                 *)
(***************************************************************************)
EXTENDS Syncer, TLAPS

USE DEF hist     \* it only abbreviates

(* Next, one disjunct per action. *)
LEMMA NextCases ==
  ASSUME [Next]_vars
  PROVE  \/ \E r \in Runners : Step(r)
         \/ \E r \in Runners, j \in Jobs : Call(r, j)
         \/ \E j \in Jobs : DeleteJob(j)
         \/ \E j \in Jobs, row \in Rows : EditJob(j, row)
         \/ \E l \in Lists, items \in SUBSET (Addrs \cup Ranges) : AdminEdit(l, items)
         \/ Tick \/ Crash \/ UNCHANGED vars
  BY DEF Next, Rest
-----------------------------------------------------------------------------
LEMMA InitType == Init => TypeInv
<1> SUFFICES ASSUME Init PROVE TypeInv
  OBVIOUS
<1>1. TypeOK
  BY ConstantsAssumption DEF Init, TypeOK, Run, IdleRun, PC, Status, Times
<1>2. LocalInv
  BY DEF Init, LocalInv, LocalOK, IdleRun, Holding, Logged
<1> QED BY <1>1, <1>2 DEF TypeInv

(* The histories name jobs, and lists of the rows of jobs and runs. *)
LEMMA HistoryType ==
  ASSUME TypeInv, [Next]_vars
  PROVE  loose' \in SUBSET Jobs /\ untold' \in SUBSET Lists
<1> USE ConstantsAssumption
<1>0. TypeOK /\ LocalInv /\ loose \in SUBSET Jobs /\ untold \in SUBSET Lists
  BY DEF TypeInv, TypeOK
<1>1. \A row \in Rows : row.list \in Lists
  OBVIOUS
<1>2. \A r \in Runners : run[r].pc \in Logged \cup {"open"} => run[r].job \in Jobs /\ run[r].row.list \in Lists
  BY <1>0, <1>1 DEF LocalInv, LocalOK, Logged, Holding, PC
<1>3. ASSUME NEW r \in Runners, Step(r) PROVE loose' \in SUBSET Jobs /\ untold' \in SUBSET Lists
  <2>1. CASE OpenLog(r)
    BY <1>0, <1>2, <2>1 DEF OpenLog, At, Inserted, Job
  <2>2. CASE Record(r)
    BY <1>0, <1>2, <2>2 DEF Record, At, Inserted, Job, Logged
  <2>3. CASE Put(r)
    BY <1>0, <1>2, <2>3 DEF Put, At, Untell, RowOf, Logged
  <2>4. CASE CloseLog(r)
    BY <1>0, <1>2, <2>4 DEF CloseLog, At, Untell, RowOf, Logged
  <2>5. CASE UNCHANGED <<loose, untold>>
    BY <1>0, <2>5
  <2> QED BY <1>3, <2>1, <2>2, <2>3, <2>4, <2>5
          DEF Step, Acquire, Skip, LoadJob, Resolve, Expire, Observe, Clear, LoadController, Fetch,
              SetLast, Unlock
<1>4. ASSUME NEW j \in Jobs, DeleteJob(j) PROVE loose' \in SUBSET Jobs /\ untold' \in SUBSET Lists
  BY <1>0, <1>1, <1>4 DEF DeleteJob, Untell, TypeOK
<1>5. ASSUME NEW j \in Jobs, NEW row \in Rows, EditJob(j, row)
      PROVE  loose' \in SUBSET Jobs /\ untold' \in SUBSET Lists
  BY <1>0, <1>1, <1>5 DEF EditJob, Untell, TypeOK
<1>6. ASSUME NEW l \in Lists, NEW items, AdminEdit(l, items)
      PROVE  loose' \in SUBSET Jobs /\ untold' \in SUBSET Lists
  BY <1>0, <1>6 DEF AdminEdit, Untell
<1>7. CASE Crash
  BY <1>0, <1>2, <1>7 DEF Crash, Untell, At, RowOf, Logged
<1>8. CASE UNCHANGED <<loose, untold>>
  BY <1>0, <1>8
<1> QED BY <1>3, <1>4, <1>5, <1>6, <1>7, <1>8, NextCases DEF Call, Tick, vars

(* The locals of one goroutine change, to something fit for where it is. *)
LEMMA BecomesType ==
  ASSUME TypeInv, NEW r \in Runners, NEW local \in Run, Becomes(r, local), LocalOK(local),
         DOMAIN logs \subseteq DOMAIN logs'
  PROVE  run' \in [Runners -> Run] /\ LocalInv'
<1>1. run \in [Runners -> Run] /\ run' = [run EXCEPT ![r] = local]
  BY DEF TypeInv, TypeOK, Becomes
<1>2. run' \in [Runners -> Run]
  BY <1>1
<1>3. run'[r] = local /\ \A q \in Runners \ {r} : run'[q] = run[q]
  BY <1>1
<1>4. LocalInv'
  BY <1>3 DEF TypeInv, LocalInv, LocalOK
<1> QED BY <1>2, <1>4

LEMMA LocalTyped ==
  ASSUME TypeInv, NEW r \in Runners
  PROVE  run[r] \in Run /\ LocalOK(run[r])
  BY DEF TypeInv, TypeOK, LocalInv

(* A run that returns, one that fails, and one that just moves on. *)
LEMMA ReturnType ==
  ASSUME TypeInv, NEW r \in Runners, Return(r), logs' = logs
  PROVE  run' \in [Runners -> Run] /\ running' \in SUBSET Jobs /\ LocalInv'
<1>1. IdleRun \in Run /\ LocalOK(IdleRun)
  BY DEF IdleRun, Run, PC, Status, LocalOK, Holding, Logged
<1>2. running' \in SUBSET Jobs
  BY DEF TypeInv, TypeOK, Return
<1> QED BY <1>1, <1>2, BecomesType DEF Return

LEMMA FailType ==
  ASSUME TypeInv, NEW r \in Runners, Fail(r), run[r].pc \in Logged, logs' = logs
  PROVE  run' \in [Runners -> Run] /\ LocalInv'
<1> DEFINE new == [run[r] EXCEPT !.pc = "close", !.status = "error", !.added = {}, !.removed = {}]
<1>1. new \in Run
  BY LocalTyped DEF Run, PC, Status
<1>2. LocalOK(new)
  BY LocalTyped DEF LocalOK, Holding, Logged, PC, Run
<1>3. Becomes(r, new)
  BY DEF Fail
<1> QED BY <1>1, <1>2, <1>3, BecomesType

LEMMA GotoType ==
  ASSUME TypeInv, NEW r \in Runners, NEW pc \in PC, Goto(r, pc),
         run[r].pc # "idle", pc # "close",
         pc \in Holding \ {"load"} => run[r].row \in Rows,
         pc \in Logged \cup {"last"} => run[r].log \in DOMAIN logs,
         DOMAIN logs \subseteq DOMAIN logs'
  PROVE  run' \in [Runners -> Run] /\ LocalInv'
<1> DEFINE new == [run[r] EXCEPT !.pc = pc]
<1>1. new \in Run
  BY LocalTyped DEF Run
<1>2. LocalOK(new)
  BY LocalTyped DEF LocalOK, Run
<1>3. Becomes(r, new)
  BY DEF Goto
<1> QED BY <1>1, <1>2, <1>3, BecomesType
-----------------------------------------------------------------------------
(* Every step within Run keeps the types. *)
LEMMA StepType ==
  ASSUME TypeInv, NEW r \in Runners, Step(r)
  PROVE  TypeInv'
<1> USE ConstantsAssumption
<1>0. /\ TypeOK /\ LocalInv /\ run[r] \in Run /\ LocalOK(run[r])
      /\ loose' \in SUBSET Jobs /\ untold' \in SUBSET Lists
  BY LocalTyped, HistoryType DEF TypeInv, Next
<1>1. CASE Acquire(r)
  <2>1. Goto(r, "load") /\ UNCHANGED <<jobs, last, logs, observed, lists, clock, seen>>
        /\ run[r].pc = "called" /\ running' \in SUBSET Jobs
    BY <1>0, <1>1 DEF Acquire, At, Job, TypeOK, LocalOK, db
  <2>2. run' \in [Runners -> Run] /\ LocalInv'
    BY <2>1, GotoType DEF PC, Logged
  <2> QED BY <1>0, <2>1, <2>2 DEF TypeInv, TypeOK
<1>2. CASE Skip(r)
  <2>1. Becomes(r, IdleRun) /\ UNCHANGED <<jobs, last, logs, observed, lists, running, clock, seen>>
    BY <1>2 DEF Skip, db
  <2>2. IdleRun \in Run /\ LocalOK(IdleRun)
    BY DEF IdleRun, Run, PC, Status, LocalOK, Holding, Logged
  <2>3. run' \in [Runners -> Run] /\ LocalInv'
    BY <2>1, <2>2, BecomesType
  <2> QED BY <1>0, <2>1, <2>3 DEF TypeInv, TypeOK
<1>3. CASE LoadJob(r)
  <2>1. UNCHANGED <<jobs, last, logs, observed, lists, clock, seen>> /\ run[r].pc = "load"
    BY <1>3 DEF LoadJob, At, db
  <2>2. CASE /\ jobs[Job(r)] # NoRow /\ UNCHANGED running
             /\ Becomes(r, [run[r] EXCEPT !.pc = "open", !.row = jobs[Job(r)]])
    <3> DEFINE new == [run[r] EXCEPT !.pc = "open", !.row = jobs[Job(r)]]
    <3>1. jobs[Job(r)] \in Rows
      BY <1>0, <2>1, <2>2 DEF TypeOK, Job, LocalOK
    <3>2. new \in Run
      BY <1>0, <3>1 DEF Run, PC
    <3>3. LocalOK(new)
      BY <1>0, <2>1, <3>1 DEF LocalOK, Logged, Run
    <3>4. Becomes(r, new) /\ DOMAIN logs \subseteq DOMAIN logs'
      BY <2>1, <2>2
    <3> HIDE DEF new
    <3>5. run' \in [Runners -> Run] /\ LocalInv'
      BY <3>2, <3>3, <3>4, BecomesType
    <3> QED BY <1>0, <2>1, <2>2, <3>5 DEF TypeInv, TypeOK
  <2>3. CASE Return(r)
    BY <1>0, <2>1, <2>3, ReturnType DEF TypeInv, TypeOK
  <2> QED BY <1>3, <2>2, <2>3 DEF LoadJob
<1>4. CASE OpenLog(r)
  <2>1. UNCHANGED <<jobs, last, observed, lists, clock, seen>> /\ run[r].pc = "open"
    BY <1>4 DEF OpenLog, At
  <2>2. CASE /\ logs' = Append(logs, NewLog(Job(r))) /\ UNCHANGED running
             /\ Becomes(r, [run[r] EXCEPT !.pc = "resolve", !.log = Len(logs) + 1])
    <3> DEFINE new == [run[r] EXCEPT !.pc = "resolve", !.log = Len(logs) + 1]
    <3>1. NewLog(Job(r)) \in RunLog \cup {Deleted}
      BY <1>0, <2>1 DEF NewLog, Job, RunLog, LocalOK
    <3>2. /\ logs' \in Seq(RunLog \cup {Deleted}) /\ Len(logs) \in Nat
          /\ DOMAIN logs = 1 .. Len(logs) /\ DOMAIN logs' = 1 .. Len(logs) + 1
      <4> HIDE DEF new
      <4> DEFINE T == RunLog \cup {Deleted}
                 e == NewLog(Job(r))
      <4>1. logs \in Seq(T) /\ e \in T /\ logs' = Append(logs, e)
        BY <1>0, <2>2, <3>1 DEF TypeOK
      <4> HIDE DEF T, e
      <4>2. /\ logs' \in Seq(T) /\ Len(logs') = Len(logs) + 1 /\ Len(logs) \in Nat
            /\ DOMAIN logs = 1 .. Len(logs) /\ DOMAIN logs' = 1 .. Len(logs')
        BY <4>1
      <4> QED BY <4>2 DEF T
    <3>3. new \in Run
      <4>1. PICK n \in Nat : n = Len(logs) + 1
        BY <3>2
      <4>2. [run[r] EXCEPT !.pc = "resolve", !.log = n] \in Run
        BY <1>0 DEF Run, PC
      <4> QED BY <4>1, <4>2
    <3>4. new.pc = "resolve" /\ new.log = Len(logs) + 1 /\ new.job = run[r].job /\ new.row = run[r].row
      BY <1>0 DEF Run
    <3>5. run' = [run EXCEPT ![r] = new]
      BY <2>2 DEF Becomes
    <3> HIDE DEF new
    <3>6. run' \in [Runners -> Run] /\ run'[r] = new /\ \A q \in Runners \ {r} : run'[q] = run[q]
      BY <1>0, <3>3, <3>5 DEF TypeOK
    <3>7. LocalInv'
      <4>1. LocalOK(run[r])'
        BY <1>0, <2>1, <3>2, <3>4, <3>6 DEF LocalOK, Holding, PC
      <4>2. \A q \in Runners \ {r} : LocalOK(run[q])'
        BY <1>0, <3>2, <3>6 DEF LocalInv, LocalOK
      <4> QED BY <4>1, <4>2 DEF LocalInv
    <3> QED BY <1>0, <2>1, <2>2, <3>2, <3>6, <3>7 DEF TypeInv, TypeOK
  <2>3. CASE Return(r) /\ UNCHANGED logs
    BY <1>0, <2>1, <2>3, ReturnType DEF TypeInv, TypeOK
  <2> QED BY <1>4, <2>2, <2>3 DEF OpenLog
<1>5. CASE Resolve(r)
  <2>1. UNCHANGED <<jobs, last, logs, observed, lists, running, clock, seen>> /\ run[r].pc = "resolve"
    BY <1>5 DEF Resolve, At, db
  <2>2. CASE Fail(r)
    BY <1>0, <2>1, <2>2, FailType DEF TypeInv, TypeOK, Logged
  <2>3. ASSUME NEW found \in SUBSET Addrs, NEW pc \in {"record", "clear"},
               Becomes(r, [run[r] EXCEPT !.pc = pc, !.found = found, !.now = clock])
        PROVE  TypeInv'
    <3> DEFINE new == [run[r] EXCEPT !.pc = pc, !.found = found, !.now = clock]
    <3>1. new \in Run
      BY <1>0 DEF TypeOK, Run, PC
    <3>2. LocalOK(new)
      BY <1>0, <2>1 DEF LocalOK, Holding, Logged, PC, Run
    <3>3. run' \in [Runners -> Run] /\ LocalInv'
      BY <2>1, <2>3, <3>1, <3>2, BecomesType
    <3> QED BY <1>0, <2>1, <3>3 DEF TypeInv, TypeOK
  <2>4. RowOf(r).literals \in SUBSET Addrs /\ RowOf(r).dns \in SUBSET Addrs
    BY <1>0, <2>1 DEF RowOf, LocalOK, Holding, PC
  <2>5. CASE \E answers \in SUBSET RowOf(r).dns :
               LET found == RowOf(r).literals \cup answers IN
               IF found = {} THEN Fail(r)
               ELSE Becomes(r, [run[r] EXCEPT !.pc = IF RowOf(r).ttl > 0 THEN "record" ELSE "clear",
                                              !.found = found, !.now = clock])
    <3>1. PICK answers \in SUBSET RowOf(r).dns :
               LET found == RowOf(r).literals \cup answers IN
               IF found = {} THEN Fail(r)
               ELSE Becomes(r, [run[r] EXCEPT !.pc = IF RowOf(r).ttl > 0 THEN "record" ELSE "clear",
                                              !.found = found, !.now = clock])
      BY <2>5
    <3>2. PICK found \in SUBSET Addrs : found = RowOf(r).literals \cup answers
      BY <2>4
    <3>3. PICK pc \in {"record", "clear"} : pc = IF RowOf(r).ttl > 0 THEN "record" ELSE "clear"
      OBVIOUS
    <3>4. Fail(r) \/ Becomes(r, [run[r] EXCEPT !.pc = pc, !.found = found, !.now = clock])
      BY <3>1, <3>2, <3>3
    <3> QED BY <2>2, <2>3, <3>4
  <2> QED BY <1>5, <2>2, <2>5 DEF Resolve
<1>6. CASE Record(r)
  <2>1. UNCHANGED <<jobs, last, logs, lists, running, clock>> /\ run[r].pc = "record"
    BY <1>6 DEF Record, At
  <2>2. CASE Goto(r, "expire") /\ observed' = Stamp(observed, r) /\ seen' = Stamp(seen, r)
    <3>1. run[r].now \in Times /\ Job(r) \in Jobs
      BY <1>0, <2>1 DEF Run, Times, LocalOK, Job
    <3>2. ASSUME NEW t \in [Jobs -> [Addrs -> Times]]
          PROVE  Stamp(t, r) \in [Jobs -> [Addrs -> Times]]
      BY <3>1 DEF Stamp
    <3>3. run' \in [Runners -> Run] /\ LocalInv'
      BY <1>0, <2>1, <2>2, GotoType DEF LocalOK, PC, Holding, Logged
    <3> QED BY <1>0, <2>1, <2>2, <3>2, <3>3 DEF TypeInv, TypeOK
  <2>3. CASE Fail(r) /\ UNCHANGED <<observed, seen>>
    BY <1>0, <2>1, <2>3, FailType DEF TypeInv, TypeOK, Logged
  <2> QED BY <1>6, <2>2, <2>3 DEF Record
<1>7. CASE Expire(r)
  <2>1. UNCHANGED <<jobs, last, logs, lists, running, clock, seen>> /\ run[r].pc = "expire"
    BY <1>7 DEF Expire, At
  <2>2. CASE /\ Goto(r, "observe")
             /\ observed' = [observed EXCEPT ![Job(r)] =
                              [a \in Addrs |-> IF Fresh(@[a], r) THEN @[a] ELSE Never]]
    <3>1. observed' \in [Jobs -> [Addrs -> Times]]
      BY <1>0, <2>1, <2>2 DEF TypeOK, Times, LocalOK, Job
    <3>2. run' \in [Runners -> Run] /\ LocalInv'
      BY <1>0, <2>1, <2>2, GotoType DEF LocalOK, PC, Holding, Logged
    <3> QED BY <1>0, <2>1, <3>1, <3>2 DEF TypeInv, TypeOK
  <2>3. CASE Fail(r) /\ UNCHANGED observed
    BY <1>0, <2>1, <2>3, FailType DEF TypeInv, TypeOK, Logged
  <2> QED BY <1>7, <2>2, <2>3 DEF Expire
<1>8. CASE Observe(r)
  <2>1. UNCHANGED <<jobs, last, logs, observed, lists, running, clock, seen>> /\ run[r].pc = "observe"
    BY <1>8 DEF Observe, At, db
  <2>2. ASSUME NEW cached \in SUBSET Addrs,
               Becomes(r, [run[r] EXCEPT !.pc = "controller", !.ips = run[r].found \cup cached])
        PROVE  TypeInv'
    <3> DEFINE new == [run[r] EXCEPT !.pc = "controller", !.ips = run[r].found \cup cached]
    <3>1. new \in Run
      BY <1>0 DEF Run, PC
    <3>2. LocalOK(new)
      BY <1>0, <2>1 DEF LocalOK, Holding, Logged, PC, Run
    <3>3. run' \in [Runners -> Run] /\ LocalInv'
      BY <2>1, <2>2, <3>1, <3>2, BecomesType
    <3> QED BY <1>0, <2>1, <3>3 DEF TypeInv, TypeOK
  <2>3. CASE Fail(r)
    BY <1>0, <2>1, <2>3, FailType DEF TypeInv, TypeOK, Logged
  <2>4. PICK cached \in SUBSET Addrs : cached = {a \in Addrs : Fresh(observed[Job(r)][a], r)}
    OBVIOUS
  <2> QED BY <1>8, <2>2, <2>3, <2>4 DEF Observe
<1>9. CASE Clear(r)
  <2>1. UNCHANGED <<jobs, last, logs, lists, running, clock, seen>> /\ run[r].pc = "clear"
    BY <1>9 DEF Clear, At
  <2>2. CASE /\ observed' = [observed EXCEPT ![Job(r)] = [a \in Addrs |-> Never]]
             /\ Becomes(r, [run[r] EXCEPT !.pc = "controller", !.ips = run[r].found])
    <3> DEFINE new == [run[r] EXCEPT !.pc = "controller", !.ips = run[r].found]
    <3>1. new \in Run
      BY <1>0 DEF Run, PC
    <3>2. LocalOK(new)
      BY <1>0, <2>1 DEF LocalOK, Holding, Logged, PC, Run
    <3>3. run' \in [Runners -> Run] /\ LocalInv'
      BY <2>1, <2>2, <3>1, <3>2, BecomesType
    <3>4. observed' \in [Jobs -> [Addrs -> Times]]
      BY <1>0, <2>1, <2>2 DEF TypeOK, Times
    <3> QED BY <1>0, <2>1, <3>3, <3>4 DEF TypeInv, TypeOK
  <2>3. CASE Fail(r) /\ UNCHANGED observed
    BY <1>0, <2>1, <2>3, FailType DEF TypeInv, TypeOK, Logged
  <2> QED BY <1>9, <2>2, <2>3 DEF Clear
<1>10. ASSUME Succeed(r), run[r].pc \in Logged, logs' = logs
       PROVE  run' \in [Runners -> Run] /\ LocalInv'
  <2> DEFINE new == [run[r] EXCEPT !.pc = "close", !.status = "success"]
  <2>1. new \in Run
    BY <1>0 DEF Run, PC, Status
  <2>2. LocalOK(new)
    BY <1>0, <1>10 DEF LocalOK, Holding, Logged, PC, Run
  <2> QED BY <1>10, <2>1, <2>2, BecomesType DEF Succeed
<1>11. CASE LoadController(r)
  <2>1. UNCHANGED <<jobs, last, logs, observed, lists, running, clock, seen>> /\ run[r].pc = "controller"
    BY <1>11 DEF LoadController, At, db
  <2>2. CASE Goto(r, "fetch")
    <3>1. run' \in [Runners -> Run] /\ LocalInv'
      BY <1>0, <2>1, <2>2, GotoType DEF LocalOK, PC, Holding, Logged
    <3> QED BY <1>0, <2>1, <3>1 DEF TypeInv, TypeOK
  <2>3. CASE Fail(r)
    BY <1>0, <2>1, <2>3, FailType DEF TypeInv, TypeOK, Logged
  <2> QED BY <1>11, <2>2, <2>3 DEF LoadController
<1>12. CASE Fetch(r)
  <2>1. UNCHANGED <<jobs, last, logs, observed, lists, running, clock, seen>> /\ run[r].pc = "fetch"
    BY <1>12 DEF Fetch, At, db
  <2>2. ASSUME NEW added \in SUBSET Addrs, NEW removed \in SUBSET Addrs,
               Becomes(r, [run[r] EXCEPT !.pc = "put", !.added = added, !.removed = removed])
        PROVE  TypeInv'
    <3> DEFINE new == [run[r] EXCEPT !.pc = "put", !.added = added, !.removed = removed]
    <3>1. new \in Run
      BY <1>0 DEF Run, PC
    <3>2. LocalOK(new)
      BY <1>0, <2>1 DEF LocalOK, Holding, Logged, PC, Run
    <3>3. run' \in [Runners -> Run] /\ LocalInv'
      BY <2>1, <2>2, <3>1, <3>2, BecomesType
    <3> QED BY <1>0, <2>1, <3>3 DEF TypeInv, TypeOK
  <2>3. CASE Fail(r)
    BY <1>0, <2>1, <2>3, FailType DEF TypeInv, TypeOK, Logged
  <2>4. CASE Succeed(r)
    BY <1>0, <1>10, <2>1, <2>4 DEF TypeInv, TypeOK, Logged
  <2>5. run[r].ips \in SUBSET Addrs
    BY <1>0 DEF Run
  <2>6. PICK added \in SUBSET Addrs, removed \in SUBSET Addrs :
          /\ added = run[r].ips \ (lists[RowOf(r).list] \cap Addrs)
          /\ removed = (lists[RowOf(r).list] \cap Addrs) \ run[r].ips
    BY <2>5
  <2>7. \/ Fail(r) \/ Succeed(r)
        \/ Becomes(r, [run[r] EXCEPT !.pc = "put", !.added = added, !.removed = removed])
    BY <1>12, <2>6 DEF Fetch
  <2> QED BY <2>2, <2>3, <2>4, <2>7
<1>13. CASE Put(r)
  <2>1. UNCHANGED <<jobs, last, logs, observed, running, clock, seen>> /\ run[r].pc = "put"
    BY <1>13 DEF Put, At, db
  <2>2. lists' \in [Lists -> SUBSET (Addrs \cup Ranges)]
    <3>1. run[r].ips \in SUBSET (Addrs \cup Ranges)
      BY <1>0 DEF Run
    <3> QED BY <1>0, <1>13, <3>1 DEF Put, Push, TypeOK
  <2>3. run' \in [Runners -> Run] /\ LocalInv'
    BY <1>10, <1>13, <2>1, FailType DEF Put, Logged
  <2> QED BY <1>0, <2>1, <2>2, <2>3 DEF TypeInv, TypeOK
<1>14. CASE CloseLog(r)
  <2> DEFINE i == run[r].log
  <2>1. /\ UNCHANGED <<jobs, last, observed, lists, running, clock, seen>>
        /\ run[r].pc = "close" /\ Goto(r, "last")
    BY <1>14 DEF CloseLog, At
  <2>2. i \in DOMAIN logs /\ run[r].status \in {"success", "error"}
    BY <1>0, <2>1 DEF LocalOK, Logged
  <2>3. logs' \in Seq(RunLog \cup {Deleted}) /\ DOMAIN logs' = DOMAIN logs
    <3>1. CASE UNCHANGED logs
      BY <1>0, <3>1 DEF TypeOK
    <3>2. CASE logs[i] # Deleted /\ logs' = [logs EXCEPT ![i] =
                  [@ EXCEPT !.status = run[r].status, !.added = run[r].added, !.removed = run[r].removed]]
      <4> DEFINE new == [logs[i] EXCEPT !.status = run[r].status, !.added = run[r].added,
                                        !.removed = run[r].removed]
      <4>1. logs[i] \in RunLog
        BY <1>0, <2>2, <3>2 DEF TypeOK
      <4>2. new \in RunLog
        BY <1>0, <2>2, <4>1 DEF RunLog, Run
      <4>3. logs' = [logs EXCEPT ![i] = new]
        BY <3>2
      <4> HIDE DEF new, i
      <4>4. logs \in Seq(RunLog \cup {Deleted})
        BY <1>0 DEF TypeOK
      <4> QED BY <2>2, <4>2, <4>3, <4>4
    <3> QED BY <1>14, <3>1, <3>2 DEF CloseLog
  <2>4. run' \in [Runners -> Run] /\ LocalInv'
    BY <1>0, <2>1, <2>2, <2>3, GotoType DEF LocalOK, PC, Holding, Logged
  <2> QED BY <1>0, <2>1, <2>3, <2>4 DEF TypeInv, TypeOK
<1>15. CASE SetLast(r)
  <2>1. /\ UNCHANGED <<jobs, logs, observed, lists, running, clock, seen>>
        /\ run[r].pc = "last" /\ Goto(r, "unlock")
    BY <1>15 DEF SetLast, At
  <2>2. last' \in [Jobs -> Nat \cup {NoLog}]
    <3>1. run[r].log \in Nat \cup {NoLog}
      BY <1>0 DEF Run
    <3> QED BY <1>0, <1>15, <3>1 DEF SetLast, TypeOK
  <2>3. run' \in [Runners -> Run] /\ LocalInv'
    BY <1>0, <2>1, GotoType DEF LocalOK, PC, Holding, Logged
  <2> QED BY <1>0, <2>1, <2>2, <2>3 DEF TypeInv, TypeOK
<1>16. CASE Unlock(r)
  <2>1. UNCHANGED <<jobs, last, logs, observed, lists, clock, seen>> /\ Return(r)
    BY <1>16 DEF Unlock, db
  <2> QED BY <1>0, <2>1, ReturnType DEF TypeInv, TypeOK
<1> QED BY <1>1, <1>2, <1>3, <1>4, <1>5, <1>6, <1>7, <1>8, <1>9, <1>11, <1>12, <1>13, <1>14, <1>15, <1>16
        DEF Step
-----------------------------------------------------------------------------
LEMMA NextType == TypeInv /\ [Next]_vars => TypeInv'
<1> SUFFICES ASSUME TypeInv, [Next]_vars PROVE TypeInv'
  OBVIOUS
<1> USE ConstantsAssumption
<1>0. TypeOK /\ LocalInv /\ loose' \in SUBSET Jobs /\ untold' \in SUBSET Lists
  BY HistoryType DEF TypeInv
<1>1. CASE \E r \in Runners : Step(r)
  BY <1>1, StepType
<1>2. ASSUME NEW r \in Runners, NEW j \in Jobs, Call(r, j) PROVE TypeInv'
  <2> DEFINE new == [run[r] EXCEPT !.pc = "called", !.job = j]
  <2>1. new \in Run /\ LocalOK(new)
    <3>1. run[r] \in Run
      BY <1>0 DEF TypeOK
    <3>2. new \in Run /\ new.pc = "called"
      BY <3>1 DEF Run, PC
    <3> QED BY <3>2 DEF LocalOK, Holding, Logged
  <2>2. Becomes(r, new) /\ UNCHANGED <<db, lists, running, clock, seen>>
    BY <1>2 DEF Call
  <2> HIDE DEF new
  <2>3. run' \in [Runners -> Run] /\ LocalInv'
    BY <2>1, <2>2, BecomesType DEF db
  <2> QED BY <1>0, <2>2, <2>3 DEF TypeInv, TypeOK, db
<1>3. ASSUME NEW j \in Jobs, DeleteJob(j) PROVE TypeInv'
  <2>1. UNCHANGED <<lists, running, run, clock, seen>>
        /\ jobs' = [jobs EXCEPT ![j] = NoRow] /\ last' = [last EXCEPT ![j] = NoLog]
    BY <1>3 DEF DeleteJob
  <2>2. jobs' \in [Jobs -> Rows \cup {NoRow}] /\ last' \in [Jobs -> Nat \cup {NoLog}]
    BY <1>0, <2>1 DEF TypeOK
  <2>3. /\ logs' \in Seq(RunLog \cup {Deleted}) /\ DOMAIN logs' = DOMAIN logs
        /\ observed' \in [Jobs -> [Addrs -> Times]]
    <3>1. CASE UNCHANGED <<logs, observed>>
      BY <1>0, <3>1 DEF TypeOK
    <3>2. CASE Cascade(j)
      <4> DEFINE T == RunLog \cup {Deleted}
                 f(i) == IF logs[i] # Deleted /\ logs[i].job = j THEN Deleted ELSE logs[i]
      <4>1. logs \in Seq(T) /\ Deleted \in T /\ logs' = [i \in DOMAIN logs |-> f(i)]
        BY <1>0, <3>2 DEF TypeOK, Cascade
      <4>2. \A i \in DOMAIN logs : f(i) \in T
        <5> HIDE DEF T
        <5>1. \A i \in DOMAIN logs : logs[i] \in T
          BY <4>1
        <5> QED BY <4>1, <5>1
      <4> HIDE DEF T, f
      <4>3. logs' \in Seq(T) /\ DOMAIN logs' = DOMAIN logs
        BY <4>1, <4>2
      <4>4. observed' \in [Jobs -> [Addrs -> Times]]
        BY <1>0, <3>2 DEF TypeOK, Cascade, Times
      <4> QED BY <4>3, <4>4 DEF T
    <3> QED BY <1>3, <3>1, <3>2 DEF DeleteJob
  <2>4. LocalInv'
    BY <1>0, <2>1, <2>3 DEF LocalInv, LocalOK
  <2> QED BY <1>0, <2>1, <2>2, <2>3, <2>4 DEF TypeInv, TypeOK
<1>4. ASSUME NEW j \in Jobs, NEW row \in Rows, EditJob(j, row) PROVE TypeInv'
  <2>1. LocalInv'
    BY <1>0, <1>4 DEF EditJob, LocalInv, LocalOK
  <2> QED BY <1>0, <1>4, <2>1 DEF EditJob, TypeInv, TypeOK
<1>5. ASSUME NEW l \in Lists, NEW items \in SUBSET (Addrs \cup Ranges), AdminEdit(l, items)
      PROVE  TypeInv'
  <2>1. LocalInv'
    BY <1>0, <1>5 DEF AdminEdit, db, LocalInv, LocalOK
  <2> QED BY <1>0, <1>5, <2>1 DEF AdminEdit, db, TypeInv, TypeOK
<1>6. CASE Tick
  <2>1. LocalInv'
    BY <1>0, <1>6 DEF Tick, db, LocalInv, LocalOK
  <2> QED BY <1>0, <1>6, <2>1 DEF Tick, db, TypeInv, TypeOK
<1>7. CASE Crash
  <2>1. IdleRun \in Run /\ LocalOK(IdleRun)'
    BY DEF IdleRun, Run, PC, Status, LocalOK, Holding, Logged
  <2>2. run' \in [Runners -> Run] /\ LocalInv'
    BY <1>7, <2>1 DEF Crash, LocalInv
  <2> QED BY <1>0, <1>7, <2>2 DEF Crash, db, TypeInv, TypeOK
<1>8. CASE UNCHANGED vars
  <2>1. LocalInv'
    BY <1>0, <1>8 DEF vars, db, LocalInv, LocalOK
  <2> QED BY <1>0, <1>8, <2>1 DEF vars, db, TypeInv, TypeOK
<1> QED BY <1>1, <1>2, <1>3, <1>4, <1>5, <1>6, <1>7, <1>8, NextCases

LEMMA TypeInductive == Spec => []TypeInv
BY InitType, NextType, PTL DEF Spec

(* The tables, the lists and the locals of the goroutines keep their types, *)
(* through deletions with and without cascade, edits and crashes.           *)
THEOREM TypeCorrect == Spec => []TypeOK
<1>1. TypeInv => TypeOK
  BY DEF TypeInv
<1> QED BY <1>1, TypeInductive, PTL
-----------------------------------------------------------------------------
(* What a step does to the locals, field by field. *)

Only(r)   == \A q \in Runners \ {r} : run'[q] = run[q]
SameRow(r) == run'[r].job = run[r].job /\ run'[r].row = run[r].row
Moves(r, pc) == Only(r) /\ SameRow(r) /\ run'[r].log = run[r].log /\ run'[r].pc = pc
SameFind(r) == run'[r].now = run[r].now /\ run'[r].found = run[r].found
SameDiff(r) == run'[r].added = run[r].added /\ run'[r].removed = run[r].removed

(* Only the goroutine that takes the step changes. *)
LEMMA BecomesOnly ==
  ASSUME TypeInv, NEW r \in Runners, NEW local, Becomes(r, local)
  PROVE  run'[r] = local /\ Only(r)
BY DEF TypeInv, TypeOK, Becomes, Only

LEMMA GotoMoves ==
  ASSUME TypeInv, NEW r \in Runners, NEW pc, Goto(r, pc)
  PROVE  Moves(r, pc) /\ SameFind(r) /\ run'[r].ips = run[r].ips /\ SameDiff(r)
<1> DEFINE new == [run[r] EXCEPT !.pc = pc]
<1>1. run'[r] = new /\ Only(r)
  BY BecomesOnly DEF Goto
<1>2. new.pc = pc /\ \A f \in {"job", "row", "log", "now", "found", "ips", "added", "removed"} :
        new[f] = run[r][f]
  BY LocalTyped DEF Run
<1> QED BY <1>1, <1>2 DEF Moves, SameRow, SameFind, SameDiff

LEMMA FailMoves ==
  ASSUME TypeInv, NEW r \in Runners, Fail(r)
  PROVE  /\ Moves(r, "close") /\ SameFind(r) /\ run'[r].ips = run[r].ips
         /\ run'[r].added = {} /\ run'[r].removed = {}
<1> DEFINE new == [run[r] EXCEPT !.pc = "close", !.status = "error", !.added = {}, !.removed = {}]
<1>1. run'[r] = new /\ Only(r)
  BY BecomesOnly DEF Fail
<1>2. /\ new.pc = "close" /\ new.added = {} /\ new.removed = {}
      /\ \A f \in {"job", "row", "log", "now", "found", "ips"} : new[f] = run[r][f]
  BY LocalTyped DEF Run
<1> QED BY <1>1, <1>2 DEF Moves, SameRow, SameFind

LEMMA SucceedMoves ==
  ASSUME TypeInv, NEW r \in Runners, Succeed(r)
  PROVE  Moves(r, "close") /\ SameFind(r) /\ run'[r].ips = run[r].ips /\ SameDiff(r)
<1> DEFINE new == [run[r] EXCEPT !.pc = "close", !.status = "success"]
<1>1. run'[r] = new /\ Only(r)
  BY BecomesOnly DEF Succeed
<1>2. new.pc = "close" /\ \A f \in {"job", "row", "log", "now", "found", "ips", "added", "removed"} :
        new[f] = run[r][f]
  BY LocalTyped DEF Run
<1> QED BY <1>1, <1>2 DEF Moves, SameRow, SameFind, SameDiff

(* GetJob gives the run the row of the job. *)
Loads(r) ==
  /\ Only(r) /\ run'[r].pc = "open" /\ run'[r].job = run[r].job /\ run'[r].log = run[r].log
  /\ SameFind(r) /\ SameDiff(r)
  /\ jobs[run[r].job] # NoRow /\ run'[r].row = jobs[run[r].job] /\ UNCHANGED running

LEMMA LoadMoves ==
  ASSUME TypeInv, NEW r \in Runners, LoadJob(r)
  PROVE  Loads(r) \/ Return(r)
<1> SUFFICES ASSUME jobs[Job(r)] # NoRow, UNCHANGED running,
                    Becomes(r, [run[r] EXCEPT !.pc = "open", !.row = jobs[Job(r)]])
             PROVE  Loads(r)
  BY DEF LoadJob
<1> DEFINE new == [run[r] EXCEPT !.pc = "open", !.row = jobs[Job(r)]]
<1>1. run'[r] = new /\ Only(r)
  BY BecomesOnly
<1>2. /\ new.pc = "open" /\ new.row = jobs[Job(r)]
      /\ \A f \in {"job", "log", "now", "found", "added", "removed"} : new[f] = run[r][f]
  BY LocalTyped DEF Run
<1> QED BY <1>1, <1>2 DEF Loads, SameFind, SameDiff, Job

(* CreateRunLog gives it a log of its own. *)
Opens(r) ==
  /\ Only(r) /\ SameRow(r) /\ run'[r].pc = "resolve" /\ run'[r].log = Len(logs) + 1
  /\ SameFind(r) /\ SameDiff(r)
  /\ logs' = Append(logs, NewLog(run[r].job)) /\ UNCHANGED running
  /\ Inserted(r)

LEMMA OpenMoves ==
  ASSUME TypeInv, NEW r \in Runners, OpenLog(r)
  PROVE  Opens(r) \/ (Return(r) /\ UNCHANGED logs)
<1> SUFFICES ASSUME Inserted(r),
                    logs' = Append(logs, NewLog(Job(r))), UNCHANGED running,
                    Becomes(r, [run[r] EXCEPT !.pc = "resolve", !.log = Len(logs) + 1])
             PROVE  Opens(r)
  BY DEF OpenLog
<1>0. PICK n : n = Len(logs) + 1
  OBVIOUS
<1> DEFINE new == [run[r] EXCEPT !.pc = "resolve", !.log = n]
<1>1. run'[r] = new /\ Only(r)
  BY <1>0, BecomesOnly
<1>2. /\ new.pc = "resolve" /\ new.log = n
      /\ \A f \in {"job", "row", "now", "found", "added", "removed"} : new[f] = run[r][f]
  BY LocalTyped DEF Run
<1> HIDE DEF new
<1> QED BY <1>0, <1>1, <1>2 DEF Opens, SameRow, SameFind, SameDiff, Job

(* ResolveHostnames, and the time after it. *)
Resolves(r) ==
  /\ Moves(r, IF run[r].row.ttl > 0 THEN "record" ELSE "clear")
  /\ run'[r].now = clock /\ SameDiff(r)

LEMMA ResolveMoves ==
  ASSUME TypeInv, NEW r \in Runners, Resolve(r)
  PROVE  Resolves(r) \/ Fail(r)
<1>1. PICK pc : pc = IF RowOf(r).ttl > 0 THEN "record" ELSE "clear"
  OBVIOUS
<1>2. Fail(r) \/ \E found : Becomes(r, [run[r] EXCEPT !.pc = pc, !.found = found, !.now = clock])
  BY <1>1 DEF Resolve
<1> SUFFICES ASSUME NEW found, Becomes(r, [run[r] EXCEPT !.pc = pc, !.found = found, !.now = clock])
             PROVE  Resolves(r)
  BY <1>2
<1> DEFINE new == [run[r] EXCEPT !.pc = pc, !.found = found, !.now = clock]
<1>3. run'[r] = new /\ Only(r)
  BY BecomesOnly
<1>4. /\ new.pc = pc /\ new.now = clock
      /\ \A f \in {"job", "row", "log", "added", "removed"} : new[f] = run[r][f]
  BY LocalTyped DEF Run
<1> HIDE DEF new
<1> QED BY <1>1, <1>3, <1>4 DEF Resolves, Moves, SameRow, SameDiff, RowOf

(* mergeResolvedIPs, or only what has been found. *)
Merges(r, ips) == Moves(r, "controller") /\ run'[r].ips = ips /\ SameFind(r) /\ SameDiff(r)

LEMMA MergeMoves ==
  ASSUME TypeInv, NEW r \in Runners, NEW ips,
         Becomes(r, [run[r] EXCEPT !.pc = "controller", !.ips = ips])
  PROVE  Merges(r, ips)
<1> DEFINE new == [run[r] EXCEPT !.pc = "controller", !.ips = ips]
<1>1. run'[r] = new /\ Only(r)
  BY BecomesOnly
<1>2. /\ new.pc = "controller" /\ new.ips = ips
      /\ \A f \in {"job", "row", "log", "now", "found", "added", "removed"} : new[f] = run[r][f]
  BY LocalTyped DEF Run
<1> HIDE DEF new
<1> QED BY <1>1, <1>2 DEF Merges, Moves, SameRow, SameFind, SameDiff

LEMMA ObserveMoves ==
  ASSUME TypeInv, NEW r \in Runners, Observe(r)
  PROVE  \/ Merges(r, run[r].found \cup {a \in Addrs : Fresh(observed[Job(r)][a], r)})
         \/ Fail(r)
BY MergeMoves DEF Observe

LEMMA ClearMoves ==
  ASSUME TypeInv, NEW r \in Runners, Clear(r)
  PROVE  \/ /\ Merges(r, run[r].found)
            /\ observed' = [observed EXCEPT ![Job(r)] = [a \in Addrs |-> Never]]
         \/ Fail(r) /\ UNCHANGED observed
BY MergeMoves DEF Clear

(* DiffIPs. *)
Diffs(r) ==
  /\ Moves(r, "put") /\ SameFind(r) /\ run'[r].ips = run[r].ips
  /\ run'[r].added = run[r].ips \ (lists[run[r].row.list] \cap Addrs)
  /\ run'[r].removed = (lists[run[r].row.list] \cap Addrs) \ run[r].ips

LEMMA FetchMoves ==
  ASSUME TypeInv, NEW r \in Runners, Fetch(r)
  PROVE  \/ Diffs(r) \/ Fail(r)
         \/ /\ Succeed(r) /\ run[r].ips \ (lists[run[r].row.list] \cap Addrs) = {}
            /\ (lists[run[r].row.list] \cap Addrs) \ run[r].ips = {}
<1>1. PICK added, removed : /\ added = run[r].ips \ (lists[RowOf(r).list] \cap Addrs)
                            /\ removed = (lists[RowOf(r).list] \cap Addrs) \ run[r].ips
  OBVIOUS
<1>2. \/ Fail(r)
      \/ Succeed(r) /\ added = {} /\ removed = {}
      \/ Becomes(r, [run[r] EXCEPT !.pc = "put", !.added = added, !.removed = removed])
  BY <1>1 DEF Fetch
<1>3. ASSUME Becomes(r, [run[r] EXCEPT !.pc = "put", !.added = added, !.removed = removed])
      PROVE  Diffs(r)
  <2> DEFINE new == [run[r] EXCEPT !.pc = "put", !.added = added, !.removed = removed]
  <2>1. run'[r] = new /\ Only(r)
    BY <1>3, BecomesOnly
  <2>2. /\ new.pc = "put" /\ new.added = added /\ new.removed = removed
        /\ \A f \in {"job", "row", "log", "now", "found", "ips"} : new[f] = run[r][f]
    BY LocalTyped DEF Run
  <2> HIDE DEF new
  <2> QED BY <1>1, <2>1, <2>2 DEF Diffs, Moves, SameRow, SameFind, RowOf
<1> QED BY <1>1, <1>2, <1>3 DEF RowOf

(* The row is loaded once, and kept. *)
HasRow == Holding \ {"load"}
TakesRow(r) ==
  /\ run'[r].job = run[r].job /\ jobs[run[r].job] # NoRow /\ run'[r].row = jobs[run[r].job]
  /\ UNCHANGED jobs
RowStep(r) ==
  run'[r].pc \in HasRow => (run[r].pc \in HasRow /\ SameRow(r)) \/ TakesRow(r)

LEMMA NextRow ==
  ASSUME TypeInv, [Next]_vars, NEW r \in Runners
  PROVE  RowStep(r)
<1>0. HasRow = {"open", "resolve", "record", "expire", "observe", "clear", "controller", "fetch",
                "put", "close", "last", "unlock"}
  BY DEF HasRow, Holding, PC
<1>1. ASSUME NEW q \in Runners, Step(q) PROVE RowStep(r)
  <2>1. CASE Only(q) /\ r # q
    BY <2>1 DEF Only, RowStep, SameRow
  <2>2. CASE \E pc \in HasRow : Moves(q, pc) /\ run[q].pc \in HasRow
    BY <2>1, <2>2 DEF Moves, RowStep
  <2>3. CASE Only(q) /\ run'[q].pc \in {"idle", "load"}
    BY <1>0, <2>1, <2>3 DEF RowStep
  <2>4. CASE Acquire(q)
    BY <2>3, <2>4, GotoMoves DEF Acquire, Moves
  <2>5. CASE Skip(q) \/ Return(q)
    BY <2>3, <2>5, BecomesOnly DEF Skip, Return, IdleRun
  <2>6. CASE LoadJob(q)
    <3>1. Loads(q) => RowStep(r)
      BY <2>1, <2>6 DEF Loads, LoadJob, RowStep, TakesRow, db
    <3> QED BY <2>5, <2>6, <3>1, LoadMoves
  <2>7. CASE OpenLog(q)
    <3>1. Opens(q) => RowStep(r)
      BY <1>0, <2>1, <2>7 DEF Opens, OpenLog, At, RowStep
    <3> QED BY <2>5, <2>7, <3>1, OpenMoves
  <2>8. CASE \/ Resolve(q) \/ Record(q) \/ Expire(q) \/ Observe(q) \/ Clear(q)
             \/ LoadController(q) \/ Fetch(q) \/ Put(q) \/ CloseLog(q) \/ SetLast(q)
    <3>1. run[q].pc \in HasRow
      BY <1>0, <2>8 DEF Resolve, Record, Expire, Observe, Clear, LoadController, Fetch, Put, CloseLog, SetLast, At
    <3>2. \/ Fail(q) \/ Succeed(q) \/ Resolves(q) \/ Goto(q, "expire") \/ Goto(q, "observe")
          \/ Goto(q, "fetch") \/ Goto(q, "last") \/ Goto(q, "unlock")
          \/ Diffs(q) \/ \E ips : Merges(q, ips)
      BY <2>8, ResolveMoves, ObserveMoves, ClearMoves, FetchMoves
         DEF Record, Expire, LoadController, Put, CloseLog, SetLast
    <3>3. \E pc \in HasRow : Moves(q, pc)
      BY <1>0, <3>2, FailMoves, SucceedMoves, GotoMoves DEF Resolves, Diffs, Merges
    <3> QED BY <2>2, <3>1, <3>3
  <2> QED BY <1>1, <2>4, <2>5, <2>6, <2>7, <2>8 DEF Step, Unlock
<1>2. ASSUME NEW q \in Runners, NEW j \in Jobs, Call(q, j) PROVE RowStep(r)
  <2> DEFINE new == [run[q] EXCEPT !.pc = "called", !.job = j]
  <2>1. run'[q] = new /\ Only(q) /\ new.pc = "called"
    BY <1>2, BecomesOnly, LocalTyped DEF Call, Run
  <2> HIDE DEF new
  <2> QED BY <1>0, <2>1 DEF Only, RowStep, SameRow
<1>3. CASE Crash
  BY <1>0, <1>3 DEF Crash, RowStep, IdleRun
<1>4. CASE UNCHANGED run
  BY <1>4 DEF RowStep, SameRow
<1> QED BY <1>1, <1>2, <1>3, <1>4, NextCases DEF DeleteJob, EditJob, AdminEdit, Tick, vars

(* The table of observations, and its history: UpsertObservedIPs stamps     *)
(* both, and everything else can only take rows off the table.              *)
Stamps(r) ==
  /\ run[r].pc = "record" /\ Inserted(r)
  /\ observed' = Stamp(observed, r) /\ seen' = Stamp(seen, r)
  /\ Moves(r, "expire") /\ SameFind(r)
  /\ UNCHANGED <<jobs, clock>>

Drops ==
  /\ \A j \in Jobs : \A a \in Addrs : observed'[j][a] \in {observed[j][a], Never}
  /\ UNCHANGED seen

LEMMA StampType ==
  ASSUME NEW r \in Runners, run[r].job \in Jobs, NEW t \in [Jobs -> [Addrs -> Times]]
  PROVE  \A j \in Jobs : \A a \in Addrs : Stamp(t, r)[j][a] =
           IF j = run[r].job /\ a \in run[r].found THEN run[r].now ELSE t[j][a]
BY DEF Stamp, Job

LEMMA NextObserved ==
  ASSUME TypeInv, [Next]_vars
  PROVE  (\E r \in Runners : Stamps(r)) \/ Drops
<1>0. observed \in [Jobs -> [Addrs -> Times]]
  BY DEF TypeInv, TypeOK
<1>1. ASSUME NEW r \in Runners, Step(r) PROVE Stamps(r) \/ Drops
  <2>1. CASE Record(r)
    BY <2>1, GotoMoves DEF Record, At, Stamps, Drops
  <2>2. CASE Expire(r)
    BY <1>0, <2>2 DEF Expire, Drops
  <2>3. CASE Clear(r)
    BY <1>0, <2>3 DEF Clear, Drops
  <2>4. CASE UNCHANGED <<observed, seen>>
    BY <2>4 DEF Drops
  <2> QED BY <1>1, <2>1, <2>2, <2>3, <2>4 DEF Step, Acquire, Skip, LoadJob, OpenLog, Resolve,
             Observe, LoadController, Fetch, Put, CloseLog, SetLast, Unlock, db
<1>2. ASSUME NEW j \in Jobs, DeleteJob(j) PROVE Drops
  <2>1. \/ UNCHANGED observed
        \/ observed' = [observed EXCEPT ![j] = [a \in Addrs |-> Never]]
    BY <1>2 DEF DeleteJob, Cascade
  <2> QED BY <1>0, <1>2, <2>1 DEF DeleteJob, Drops
<1>3. CASE UNCHANGED <<observed, seen>>
  BY <1>3 DEF Drops
<1> QED BY <1>1, <1>2, <1>3, NextCases DEF Call, EditJob, AdminEdit, Tick, Crash, vars, db
-----------------------------------------------------------------------------
(* running is what keeps two goroutines from running one job.              *)

LEMMA InitGuard == Init => GuardInv
BY DEF Init, GuardInv, OneRunPerJob, Holds, IdleRun, Holding, PC

(* What a step of a goroutine does to the guard: it takes the job, gives it *)
(* back, or stays in the body of Run with its job, or outside of it.        *)
Keeps(r) ==
  /\ run'[r].pc \in Holding => run[r].pc \in Holding /\ run'[r].job = run[r].job
  /\ run[r].pc \in Holding => run'[r].pc \in Holding
  /\ UNCHANGED running
Gives(r) == Return(r) /\ run[r].pc \in Holding
Kind(r) ==
  /\ Only(r)
  /\ Acquire(r) \/ Keeps(r) \/ Gives(r)

LEMMA KeepsKind ==
  ASSUME TypeInv, NEW r \in Runners, NEW local, Becomes(r, local),
         local.pc \in Holding => run[r].pc \in Holding /\ local.job = run[r].job,
         run[r].pc \in Holding => local.pc \in Holding,
         UNCHANGED running
  PROVE  Kind(r)
BY BecomesOnly DEF Kind, Keeps

LEMMA GivesKind ==
  ASSUME TypeInv, NEW r \in Runners, Return(r), run[r].pc \in Holding
  PROVE  Kind(r)
BY BecomesOnly DEF Kind, Gives, Return

LEMMA MovesKind ==
  ASSUME TypeInv, NEW r \in Runners, NEW pc \in Holding, Moves(r, pc),
         run[r].pc \in Holding, UNCHANGED running
  PROVE  Kind(r)
BY DEF Kind, Keeps, Moves, SameRow

LEMMA StepKind ==
  ASSUME TypeInv, NEW r \in Runners, Step(r)
  PROVE  Kind(r)
<1>0. /\ {"resolve", "record", "expire", "observe", "clear", "controller", "fetch", "put", "close",
          "last", "unlock", "load", "open"} = Holding
      /\ Fail(r) => Moves(r, "close")
      /\ Succeed(r) => Moves(r, "close")
      /\ \A pc : Goto(r, pc) => Moves(r, pc)
  BY FailMoves, SucceedMoves, GotoMoves DEF Holding, PC
<1>1. CASE Acquire(r)
  BY <1>1, BecomesOnly DEF Acquire, Goto, Kind
<1>2. CASE Skip(r)
  BY <1>0, <1>2, KeepsKind DEF Skip, IdleRun, Holding, At
<1>3. CASE LoadJob(r)
  <2>1. run[r].pc \in Holding
    BY <1>0, <1>3 DEF LoadJob, At
  <2>2. CASE Loads(r)
    BY <1>0, <2>1, <2>2 DEF Loads, Kind, Keeps
  <2> QED BY <1>3, <2>1, <2>2, LoadMoves, GivesKind
<1>4. CASE OpenLog(r)
  <2>1. run[r].pc \in Holding
    BY <1>0, <1>4 DEF OpenLog, At
  <2>2. CASE Opens(r)
    BY <1>0, <2>1, <2>2 DEF Opens, SameRow, Kind, Keeps
  <2> QED BY <1>4, <2>1, <2>2, OpenMoves, GivesKind
<1>5. CASE Resolve(r)
  <2>1. run[r].pc \in Holding /\ UNCHANGED running
    BY <1>0, <1>5 DEF Resolve, At
  <2>2. CASE Resolves(r)
    BY <1>0, <2>1, <2>2, MovesKind DEF Resolves
  <2> QED BY <1>0, <1>5, <2>1, <2>2, ResolveMoves, MovesKind
<1>6. CASE Record(r)
  BY <1>0, <1>6, MovesKind DEF Record, At
<1>7. CASE Expire(r)
  BY <1>0, <1>7, MovesKind DEF Expire, At
<1>8. CASE Observe(r) \/ Clear(r)
  <2>1. run[r].pc \in Holding /\ UNCHANGED running
    BY <1>0, <1>8 DEF Observe, Clear, At
  <2>2. Fail(r) \/ \E ips : Merges(r, ips)
    BY <1>8, ObserveMoves, ClearMoves
  <2> QED BY <1>0, <2>1, <2>2, MovesKind DEF Merges
<1>9. CASE LoadController(r)
  BY <1>0, <1>9, MovesKind DEF LoadController, At
<1>10. CASE Fetch(r)
  <2>1. run[r].pc \in Holding /\ UNCHANGED running
    BY <1>0, <1>10 DEF Fetch, At
  <2> QED BY <1>0, <1>10, <2>1, FetchMoves, MovesKind DEF Diffs
<1>11. CASE Put(r)
  BY <1>0, <1>11, MovesKind DEF Put, At
<1>12. CASE CloseLog(r)
  BY <1>0, <1>12, MovesKind DEF CloseLog, At
<1>13. CASE SetLast(r)
  BY <1>0, <1>13, MovesKind DEF SetLast, At
<1>14. CASE Unlock(r)
  BY <1>0, <1>14, GivesKind DEF Unlock, At
<1> QED BY <1>1, <1>2, <1>3, <1>4, <1>5, <1>6, <1>7, <1>8, <1>9, <1>10, <1>11, <1>12, <1>13, <1>14
        DEF Step

(* Return gives up a job no other goroutine holds, and Acquire takes one.   *)
LEMMA KindGuard ==
  ASSUME TypeInv, GuardInv, NEW r \in Runners, Kind(r)
  PROVE  GuardInv'
<1>1. \A q \in Runners \ {r} : run'[q] = run[q]
  BY DEF Kind, Only
<1>2. CASE Acquire(r)
  <2>1. run[r].job \in Jobs /\ run[r].job \notin running /\ running' = running \cup {run[r].job}
    BY <1>2, LocalTyped DEF Acquire, At, Job, LocalOK
  <2>2. run'[r].job = run[r].job
    BY <1>2, LocalTyped, BecomesOnly DEF Acquire, Goto, Run
  <2>3. \A q \in Runners \ {r} : run[q].pc \in Holding => run[q].job # run[r].job
    BY <2>1 DEF GuardInv
  <2>4. OneRunPerJob'
    BY <1>1, <2>2, <2>3 DEF GuardInv, OneRunPerJob, Holds
  <2>5. \A q \in Runners : run'[q].pc \in Holding => run'[q].job \in running'
    BY <1>1, <2>1, <2>2 DEF GuardInv
  <2> QED BY <2>4, <2>5 DEF GuardInv
<1>3. CASE Keeps(r)
  <2>1. \A q \in Runners : \A j \in Jobs : Holds(q, j)' => Holds(q, j)
    BY <1>1, <1>3 DEF Holds, Keeps
  <2>2. OneRunPerJob'
    BY <2>1 DEF GuardInv, OneRunPerJob
  <2>3. \A q \in Runners : run'[q].pc \in Holding => run'[q].job \in running'
    BY <1>1, <1>3 DEF GuardInv, Keeps
  <2> QED BY <2>2, <2>3 DEF GuardInv
<1>4. CASE Gives(r)
  <2>1. run'[r] = IdleRun /\ IdleRun.pc \notin Holding
    BY <1>4, BecomesOnly DEF Gives, Return, IdleRun, Holding
  <2>2. run[r].job \in Jobs
    BY <1>4, LocalTyped DEF LocalOK, Holding, Gives
  <2>3. OneRunPerJob'
    BY <1>1, <2>1 DEF GuardInv, OneRunPerJob, Holds
  <2>4. \A q \in Runners \ {r} : run[q].pc \in Holding => run[q].job # run[r].job
    BY <1>4, <2>2 DEF GuardInv, OneRunPerJob, Holds, Gives
  <2>5. \A q \in Runners : run'[q].pc \in Holding => run'[q].job \in running'
    BY <1>1, <1>4, <2>1, <2>4 DEF GuardInv, Gives, Return, Job
  <2> QED BY <2>3, <2>5 DEF GuardInv
<1> QED BY <1>2, <1>3, <1>4 DEF Kind

(* The goroutines change only by steps of one of them, and by a crash. *)
LEMMA NextKind ==
  ASSUME TypeInv, [Next]_vars
  PROVE  (\E r \in Runners : Kind(r)) \/ Crash \/ UNCHANGED <<run, running>>
<1>1. CASE \E r \in Runners : Step(r)
  BY <1>1, StepKind
<1>2. ASSUME NEW r \in Runners, NEW j \in Jobs, Call(r, j) PROVE Kind(r)
  <2> DEFINE new == [run[r] EXCEPT !.pc = "called", !.job = j]
  <2>1. Becomes(r, new) /\ new.pc \notin Holding /\ run[r].pc \notin Holding /\ UNCHANGED running
    BY <1>2, LocalTyped DEF Call, Run, Holding, At
  <2> HIDE DEF new
  <2> QED BY <2>1, KeepsKind
<1> QED BY <1>1, <1>2, NextCases DEF DeleteJob, EditJob, AdminEdit, Tick, vars

LEMMA NextGuard == TypeInv /\ GuardInv /\ [Next]_vars => GuardInv'
<1> SUFFICES ASSUME TypeInv, GuardInv, [Next]_vars PROVE GuardInv'
  OBVIOUS
<1>1. CASE UNCHANGED <<run, running>>
  BY <1>1 DEF GuardInv, OneRunPerJob, Holds
<1>2. CASE Crash
  BY <1>2 DEF Crash, GuardInv, OneRunPerJob, Holds, IdleRun, Holding
<1> QED BY <1>1, <1>2, NextKind, KindGuard

LEMMA GuardInductive == Spec => []GuardInv
BY TypeInductive, InitGuard, NextGuard, PTL DEF Spec

(* "prevents concurrent runs of the same job", for any number of jobs and   *)
(* goroutines and whatever else happens, crashes included.                  *)
THEOREM RunsExclusive == Spec => []OneRunPerJob
<1>1. GuardInv => OneRunPerJob
  BY DEF GuardInv
<1> QED BY <1>1, GuardInductive, PTL
-----------------------------------------------------------------------------
(* Run implements RunLock. *)

Pairs == {pair \in Runners \X Jobs : Holds(pair[1], pair[2])}

LEMMA PairsHold == \A r \in Runners, j \in Jobs : <<r, j>> \in Pairs <=> Holds(r, j)
BY DEF Pairs

LEMMA KindLock ==
  ASSUME TypeInv, GuardInv, NEW r \in Runners, Kind(r)
  PROVE  Lock!Next \/ Pairs' = Pairs
<1>1. \A q \in Runners \ {r} : \A j \in Jobs : Holds(q, j)' <=> Holds(q, j)
  BY DEF Kind, Only, Holds
<1>2. CASE Acquire(r)
  <2>1. PICK j \in Jobs : j = run[r].job
    BY <1>2, LocalTyped DEF Acquire, At, LocalOK
  <2>2. \A k \in Jobs : Holds(r, k)' <=> k = j
    BY <1>2, <2>1, LocalTyped, BecomesOnly DEF Acquire, Goto, Run, Holds, Holding, PC
  <2>3. \A k \in Jobs : ~Holds(r, k)
    BY <1>2 DEF Acquire, At, Holds, Holding
  <2>4. \A q \in Runners : ~Holds(q, j)
    BY <1>2, <2>1 DEF GuardInv, Holds, Acquire, Job
  <2>5. \A pair \in Pairs : pair[1] # r /\ pair[2] # j
    BY <2>3, <2>4 DEF Pairs
  <2>6. Pairs' = Pairs \cup {<<r, j>>}
    BY <1>1, <2>2, <2>3 DEF Pairs
  <2> QED BY <2>5, <2>6 DEF Lock!Next, Lock!Take, Pairs
<1>3. CASE Keeps(r)
  <2>1. \A j \in Jobs : Holds(r, j)' <=> Holds(r, j)
    BY <1>3 DEF Keeps, Holds
  <2> QED BY <1>1, <2>1 DEF Pairs
<1>4. CASE Gives(r)
  <2>1. PICK j \in Jobs : j = run[r].job
    BY <1>4, LocalTyped DEF Gives, LocalOK, Holding
  <2>2. \A k \in Jobs : ~Holds(r, k)' /\ (Holds(r, k) <=> k = j)
    BY <1>4, <2>1, BecomesOnly DEF Gives, Return, IdleRun, Holds, Holding
  <2>3. <<r, j>> \in Pairs
    BY <2>2 DEF Pairs
  <2>4. Pairs' = Pairs \ {<<r, j>>}
    BY <1>1, <2>2 DEF Pairs
  <2> QED BY <2>3, <2>4 DEF Lock!Next, Lock!Give, Pairs
<1> QED BY <1>2, <1>3, <1>4 DEF Kind

(* Run takes and gives back jobs as RunLock does, whoever else acts: no     *)
(* step passes a job from one goroutine to another.                         *)
THEOREM RunImplementsLock == Spec => ImplementsRunLock
<1>1. Init => Lock!Init
  BY DEF Init, Lock!Init, Holds, IdleRun, Holding
<1>2. TypeInv /\ GuardInv /\ [Next]_vars => [Lock!Next]_Pairs
  <2> SUFFICES ASSUME TypeInv, GuardInv, [Next]_vars PROVE Lock!Next \/ Pairs' = Pairs
    OBVIOUS
  <2>1. CASE UNCHANGED <<run, running>>
    BY <2>1 DEF Pairs, Holds
  <2>2. CASE Crash
    BY <2>2 DEF Crash, Pairs, Holds, IdleRun, Holding, Lock!Next, Lock!Die
  <2> QED BY <2>1, <2>2, NextKind, KindLock
<1> QED BY <1>1, <1>2, TypeInductive, GuardInductive, PTL
        DEF Spec, ImplementsRunLock, Lock!Spec, Pairs
=============================================================================
