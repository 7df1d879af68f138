----------------------- MODULE SyncerRetentionProofs -----------------------
(***************************************************************************)
(* The retention of observed addresses in Syncer, for every number of      *)
(* jobs, goroutines and addresses and every ttl, whatever happens around   *)
(* the runs: what is pushed has been seen within the ttl, and what has     *)
(* been seen within the ttl is pushed.                                     *)
(***************************************************************************)
EXTENDS SyncerProofs

USE DEF hist

(* What the table holds of an address is when it was recorded last. *)

LEMMA NextObservedInv ==
  ASSUME TypeInv, ObservedInv, [Next]_vars
  PROVE  ObservedInv'
<1>1. ASSUME NEW r \in Runners, Stamps(r) PROVE ObservedInv'
  <2>1. run[r].job \in Jobs
    BY <1>1, LocalTyped DEF Stamps, LocalOK
  <2>2. observed \in [Jobs -> [Addrs -> Times]] /\ seen \in [Jobs -> [Addrs -> Times]]
    BY DEF TypeInv, TypeOK
  <2>3. \A j \in Jobs : \A a \in Addrs : Stamp(observed, r)[j][a] =
          IF j = run[r].job /\ a \in run[r].found THEN run[r].now ELSE observed[j][a]
    BY <2>1, <2>2, StampType
  <2>4. \A j \in Jobs : \A a \in Addrs : Stamp(seen, r)[j][a] =
          IF j = run[r].job /\ a \in run[r].found THEN run[r].now ELSE seen[j][a]
    BY <2>1, <2>2, StampType
  <2>5. observed' = Stamp(observed, r) /\ seen' = Stamp(seen, r)
    BY <1>1 DEF Stamps
  <2> QED BY <2>3, <2>4, <2>5 DEF ObservedInv
<1>2. CASE Drops
  BY <1>2 DEF Drops, ObservedInv
<1> QED BY <1>1, <1>2, NextObserved

LEMMA ObservedInductive == Spec => []ObservedInv
<1>1. Init => ObservedInv
  BY DEF Init, ObservedInv
<1>2. TypeInv /\ ObservedInv /\ [Next]_vars => ObservedInv'
  BY NextObservedInv
<1> QED BY <1>1, <1>2, TypeInductive, PTL DEF Spec

(* The job of a run that holds it is stamped by this run only. *)
LEMMA SeenStays ==
  ASSUME TypeInv, GuardInv, [Next]_vars, NEW r \in Runners, Holds(r, run[r].job),
         run[r].pc # "record"
  PROVE  seen'[run[r].job] = seen[run[r].job]
<1>1. run[r].job \in Jobs
  BY LocalTyped DEF Holds, LocalOK, Holding
<1>2. ASSUME NEW q \in Runners, Stamps(q) PROVE seen'[run[r].job] = seen[run[r].job]
  <2>1. q # r /\ run[q].pc \in Holding
    BY <1>2 DEF Stamps, Holding, PC
  <2>2. run[q].job # run[r].job
    BY <1>1, <2>1 DEF GuardInv, OneRunPerJob, Holds
  <2> QED BY <1>1, <1>2, <2>2 DEF Stamps, Stamp, Job, TypeInv, TypeOK
<1> QED BY <1>2, NextObserved DEF Drops
-----------------------------------------------------------------------------
(* What is pushed has been recorded within the ttl. *)

\* in the half of Run that keeps observations, and in the one that does not
Keeping == {"record", "expire", "observe"}

\* with the addresses to push
Bound == {"controller", "fetch", "put"}

LEMMA PushingBound == \A r \in Runners : Pushing(r) <=> run[r].pc \in Bound
BY DEF Pushing, Bound

(* How a run gets to where the ttl, the time and the addresses are used. *)
Retains(r) ==
  /\ run'[r].pc \in Keeping =>
       \/ run[r].pc \in Keeping /\ SameRow(r) /\ SameFind(r)
       \/ Resolves(r) /\ run[r].row.ttl > 0 
  /\ run'[r].pc = "clear" =>
       \/ run[r].pc = "clear" /\ SameRow(r) /\ SameFind(r)
       \/ Resolves(r) /\ ~(run[r].row.ttl > 0)
  /\ run'[r].pc \in Bound =>
       /\ SameRow(r) /\ SameFind(r) /\ run[r].pc \in Holding \ {"record"}
       /\ \/ run[r].pc \in Bound /\ run'[r].ips = run[r].ips
          \/ run[r].pc = "clear" /\ run'[r].ips = run[r].found
          \/ /\ run[r].pc = "observe"
             /\ run'[r].ips = run[r].found \cup {a \in Addrs : Fresh(observed[Job(r)][a], r)}

Elsewhere == PC \ (Keeping \cup {"clear"} \cup Bound)

LEMMA NextRetains ==
  ASSUME TypeInv, [Next]_vars, NEW r \in Runners
  PROVE  Retains(r)
<1>0. Elsewhere = {"idle", "called", "load", "open", "resolve", "close", "last", "unlock"}
  BY DEF Elsewhere, Keeping, Bound, PC
<1>1. CASE run'[r] = run[r]
  BY <1>1 DEF Retains, SameRow, SameFind, Holding, PC, Keeping, Bound
<1>2. CASE run'[r].pc \in Elsewhere
  BY <1>2 DEF Retains, Elsewhere, Keeping, Bound
<1>3. ASSUME NEW q \in Runners, Step(q) PROVE Retains(r)
  <2>1. CASE Only(q) /\ r # q
    BY <1>1, <2>1 DEF Only
  <2>2. CASE Fail(q) \/ Succeed(q) \/ \E pc \in Elsewhere : Goto(q, pc)
    BY <1>0, <1>2, <2>1, <2>2, FailMoves, SucceedMoves, GotoMoves DEF Moves
  <2>3. CASE Return(q) \/ Skip(q)
    BY <1>0, <1>2, <2>1, <2>3, BecomesOnly DEF Return, Skip, IdleRun
  <2>4. CASE Acquire(q) \/ CloseLog(q) \/ SetLast(q) \/ Unlock(q)
    BY <1>0, <2>2, <2>3, <2>4 DEF Acquire, CloseLog, SetLast, Unlock
  <2>5. CASE LoadJob(q)
    BY <1>0, <1>2, <2>1, <2>3, <2>5, LoadMoves DEF Loads
  <2>6. CASE OpenLog(q)
    BY <1>0, <1>2, <2>1, <2>3, <2>6, OpenMoves DEF Opens
  <2>7. CASE Resolve(q)
    <3>1. CASE Resolves(q) /\ q = r
      BY <3>1 DEF Resolves, Moves, Retains, Keeping, Bound
    <3> QED BY <2>1, <2>2, <2>7, <3>1, ResolveMoves DEF Resolves, Moves
  <2>8. CASE Record(q) \/ Expire(q)
    <3>1. run[q].pc \in Keeping
      BY <2>8 DEF Record, Expire, At, Keeping
    <3>2. Fail(q) \/ \E pc \in Keeping : Goto(q, pc)
      BY <2>8 DEF Record, Expire, Keeping
    <3>3. ASSUME NEW pc \in Keeping, Goto(q, pc), q = r PROVE Retains(r)
      BY <3>1, <3>3, GotoMoves DEF Moves, Retains, Keeping, Bound
    <3> QED BY <2>1, <2>2, <3>2, <3>3, GotoMoves DEF Moves
  <2>9. CASE Observe(q)
    <3>1. run[q].pc = "observe"
      BY <2>9 DEF Observe, At
    <3>2. CASE Merges(q, run[q].found \cup {a \in Addrs : Fresh(observed[Job(q)][a], q)}) /\ q = r
      BY <3>1, <3>2 DEF Merges, Moves, Retains, Keeping, Bound, Holding, PC
    <3> QED BY <2>1, <2>2, <2>9, <3>2, ObserveMoves DEF Merges, Moves
  <2>10. CASE Clear(q)
    <3>1. run[q].pc = "clear"
      BY <2>10 DEF Clear, At
    <3>2. CASE Merges(q, run[q].found) /\ q = r
      BY <3>1, <3>2 DEF Merges, Moves, Retains, Keeping, Bound, Holding, PC
    <3> QED BY <2>1, <2>2, <2>10, <3>2, ClearMoves DEF Merges, Moves
  <2>11. CASE LoadController(q)
    <3>1. run[q].pc = "controller"
      BY <2>11 DEF LoadController, At
    <3>2. CASE Goto(q, "fetch") /\ q = r
      BY <3>1, <3>2, GotoMoves DEF Moves, Retains, Keeping, Bound, Holding, PC
    <3> QED BY <2>1, <2>2, <2>11, <3>2, GotoMoves DEF LoadController, Moves
  <2>12. CASE Fetch(q)
    <3>1. run[q].pc = "fetch"
      BY <2>12 DEF Fetch, At
    <3>2. CASE Diffs(q) /\ q = r
      BY <3>1, <3>2 DEF Diffs, Moves, Retains, Keeping, Bound, Holding, PC
    <3> QED BY <2>1, <2>2, <2>12, <3>2, FetchMoves DEF Diffs, Moves
  <2>13. CASE Put(q)
    BY <2>2, <2>13 DEF Put
  <2> QED BY <1>3, <2>3, <2>4, <2>5, <2>6, <2>7, <2>8, <2>9, <2>10, <2>11, <2>12, <2>13 DEF Step
<1>4. ASSUME NEW q \in Runners, NEW j \in Jobs, Call(q, j) PROVE Retains(r)
  <2> DEFINE new == [run[q] EXCEPT !.pc = "called", !.job = j]
  <2>1. run'[q] = new /\ Only(q) /\ new.pc = "called"
    BY <1>4, BecomesOnly, LocalTyped DEF Call, Run
  <2> HIDE DEF new
  <2> QED BY <1>0, <1>1, <1>2, <2>1 DEF Only
<1>5. CASE Crash
  BY <1>0, <1>2, <1>5 DEF Crash, IdleRun
<1> QED BY <1>1, <1>3, <1>4, <1>5, NextCases DEF DeleteJob, EditJob, AdminEdit, Tick, vars

LEMMA PushesWithin ==
  ASSUME TypeInv, GuardInv, ObservedInv, WindowInv, [Next]_vars,
         NEW r \in Runners, Pushing(r)', NEW a \in run'[r].ips, a \notin run'[r].found
  PROVE  a \in Addrs /\ run'[r].row.ttl > 0 /\ Within(a, r)'
<1>0. /\ run'[r].row = run[r].row /\ run'[r].job = run[r].job /\ run'[r].now = run[r].now
      /\ run'[r].found = run[r].found
      /\ Holds(r, run[r].job) /\ run[r].pc # "record" /\ run[r].job \in Jobs
  BY NextRetains, LocalTyped DEF Pushing, Bound, Retains, SameRow, SameFind, Holds, LocalOK, Holding
<1>1. seen'[run[r].job] = seen[run[r].job]
  BY <1>0, SeenStays
<1>2. CASE run[r].pc \in Bound /\ run'[r].ips = run[r].ips
  BY <1>0, <1>1, <1>2 DEF WindowInv, PushedWithinWindow, Pushing, Bound, Within, RowOf, Job
<1>3. CASE run[r].pc = "observe" /\ run'[r].ips = run[r].found \cup {b \in Addrs : Fresh(observed[Job(r)][b], r)}
  <2>1. a \in Addrs /\ Fresh(observed[run[r].job][a], r) /\ run[r].row.ttl > 0
    BY <1>0, <1>3 DEF WindowInv, Job
  <2>2. observed[run[r].job][a] = seen[run[r].job][a]
    BY <1>0, <2>1 DEF ObservedInv, Fresh
  <2>3. /\ seen[run[r].job][a] # Never
        /\ seen[run[r].job][a] + run[r].row.ttl >= run[r].now
    BY <2>1, <2>2 DEF Fresh, RowOf
  <2>4. seen[run[r].job][a] \in Nat /\ run[r].row.ttl \in Nat /\ run[r].now \in Nat
    <3>1. seen[run[r].job][a] \in Times
      BY <1>0, <2>1 DEF TypeInv, TypeOK
    <3>2. run[r].row \in Rows
      BY <1>0, <1>3, LocalTyped DEF LocalOK, Holding, PC
    <3>3. run[r].row.ttl \in Nat
      BY <3>2, ConstantsAssumption
    <3>4. run[r].now \in Nat
      BY LocalTyped DEF Run
    <3> QED BY <2>3, <3>1, <3>3, <3>4 DEF Times
  <2>5. run[r].now <= seen[run[r].job][a] + run[r].row.ttl
    BY <2>3, <2>4
  <2> QED BY <1>0, <1>1, <2>1, <2>3, <2>5 DEF Within, RowOf, Job
<1>4. run[r].pc = "clear" => run'[r].ips = run[r].found
  BY NextRetains DEF Retains, Bound, Pushing
<1> QED BY <1>0, <1>2, <1>3, <1>4, NextRetains DEF Pushing, Bound, Retains

LEMMA NextWindow ==
  ASSUME TypeInv, GuardInv, WindowInv, [Next]_vars
  PROVE  WindowInv'
<1>1. ObservedInv'
  BY NextObservedInv DEF WindowInv
<1>2. ASSUME NEW r \in Runners, run'[r].pc \in Keeping PROVE run'[r].row.ttl > 0
  BY <1>2, NextRetains DEF Retains, Resolves, Moves, SameRow, WindowInv, Keeping
<1>3. ASSUME NEW r \in Runners, Pushing(r)'
      PROVE  run'[r].ips \subseteq run'[r].found \cup {a \in Addrs : RowOf(r)'.ttl > 0 /\ Within(a, r)'}
  <2>1. \A a \in run'[r].ips : a \notin run'[r].found =>
          a \in Addrs /\ run'[r].row.ttl > 0 /\ Within(a, r)'
    BY <1>3, PushesWithin DEF WindowInv
  <2> QED BY <2>1 DEF RowOf
<1> QED BY <1>1, <1>2, <1>3 DEF WindowInv, PushedWithinWindow, Keeping

(* An address that a run has not found itself is pushed only if a run of    *)
(* the job has recorded it within the ttl: with any number of goroutines,   *)
(* rows edited and jobs deleted under a run, foreign keys on or off,        *)
(* statements that fail half way through and crashes (execute, the          *)
(* *ObservedIPs methods of the store).                                      *)
THEOREM PushesNothingOld == Spec => []PushedWithinWindow
<1>1. Init => WindowInv
  BY DEF Init, WindowInv, ObservedInv, PushedWithinWindow, Pushing, IdleRun
<1>2. TypeInv /\ GuardInv /\ WindowInv /\ [Next]_vars => WindowInv'
  BY NextWindow
<1>3. WindowInv => PushedWithinWindow
  BY DEF WindowInv
<1> QED BY <1>1, <1>2, <1>3, GuardInductive, TypeInductive, PTL DEF Spec
-----------------------------------------------------------------------------
(* What has been recorded within the ttl is pushed. *)

FixedTTL == "edit" \notin Events \/ \A row1, row2 \in Rows : row1.ttl = row2.ttl

LEMMA NextTTL ==
  ASSUME FixedTTL, TypeInv, [Next]_vars, NEW j \in Jobs, jobs'[j] # NoRow
  PROVE  jobs[j] # NoRow /\ jobs[j] \in Rows /\ jobs'[j].ttl = jobs[j].ttl
<1>0. jobs \in [Jobs -> Rows \cup {NoRow}]
  BY DEF TypeInv, TypeOK
<1>1. CASE jobs' = jobs
  BY <1>0, <1>1
<1>2. ASSUME NEW k \in Jobs, jobs' = [jobs EXCEPT ![k] = NoRow]
      PROVE  jobs[j] # NoRow /\ jobs[j] \in Rows /\ jobs'[j].ttl = jobs[j].ttl
  BY <1>0, <1>2
<1>3. ASSUME NEW k \in Jobs, NEW row \in Rows, EditJob(k, row)
      PROVE  jobs[j] # NoRow /\ jobs[j] \in Rows /\ jobs'[j].ttl = jobs[j].ttl
  <2>1. jobs[k] # NoRow /\ jobs' = [jobs EXCEPT ![k] = row] /\ \A row1, row2 \in Rows : row1.ttl = row2.ttl
    BY <1>3 DEF EditJob, FixedTTL
  <2> QED BY <1>0, <2>1
<1> QED BY <1>1, <1>2, <1>3, NextCases
        DEF Step, Acquire, Skip, LoadJob, OpenLog, Resolve, Record, Expire, Observe, Clear,
            LoadController, Fetch, Put, CloseLog, SetLast, Unlock, Call, DeleteJob, AdminEdit, Tick, Crash, vars, db

LEMMA NextClock ==
  ASSUME TypeInv, [Next]_vars
  PROVE  clock \in Nat /\ clock' \in Nat /\ clock <= clock'
<1>0. clock \in Nat
  BY DEF TypeInv, TypeOK
<1>1. CASE Tick
  BY <1>0, <1>1 DEF Tick
<1>2. CASE UNCHANGED clock
  BY <1>0, <1>2
<1> QED BY <1>1, <1>2, NextCases
        DEF Step, Acquire, Skip, LoadJob, OpenLog, Resolve, Record, Expire, Observe, Clear,
            LoadController, Fetch, Put, CloseLog, SetLast, Unlock, Call, DeleteJob, EditJob, AdminEdit, Crash, vars

LEMMA HasRowTyped ==
  ASSUME TypeInv, NEW r \in Runners, run[r].pc \in HasRow
  PROVE  run[r].job \in Jobs /\ run[r].row \in Rows /\ run[r].row.ttl \in Nat /\ run[r].now \in Nat
<1>1. run[r].job \in Jobs /\ run[r].row \in Rows /\ run[r].now \in Nat
  BY LocalTyped DEF HasRow, LocalOK, Holding, Run
<1> QED BY <1>1, ConstantsAssumption

(* How a run got to where it has its time: it has just taken it, or had it. *)
LEMMA NextTimed ==
  ASSUME TypeInv, [Next]_vars, NEW r \in Runners, run'[r].pc \in Timed
  PROVE  \/ run[r].pc \in Timed /\ SameRow(r) /\ run'[r].now = run[r].now
         \/ SameRow(r) /\ run'[r].now = clock
BY NextRetains DEF Retains, Resolves, Moves, SameRow, SameFind, Timed, Keeping, Bound

LEMMA NextTtlInv ==
  ASSUME FixedTTL, TypeInv, TtlInv, [Next]_vars
  PROVE  TtlInv'
<1>1. ASSUME NEW r \in Runners, run'[r].pc \in HasRow, jobs'[run'[r].job] # NoRow
      PROVE  run'[r].row.ttl = jobs'[run'[r].job].ttl
  <2>1. RowStep(r)
    BY NextRow
  <2>2. CASE run[r].pc \in HasRow /\ SameRow(r)
    BY <1>1, <2>2, NextTTL, HasRowTyped DEF TtlInv, SameRow, HasRow
  <2>3. CASE TakesRow(r)
    BY <2>3 DEF TakesRow
  <2> QED BY <1>1, <2>1, <2>2, <2>3 DEF RowStep
<1>2. ASSUME NEW r \in Runners, run'[r].pc = "clear" PROVE run'[r].row.ttl = 0
  <2>1. CASE run[r].pc = "clear" /\ SameRow(r)
    BY <2>1 DEF TtlInv, SameRow
  <2>2. CASE Resolves(r) /\ ~(run[r].row.ttl > 0)
    <3>1. run'[r].row = run[r].row /\ run'[r].row.ttl \in Nat
      <4>1. run'[r].row \in Rows
        BY <1>2, NextType DEF TypeInv, LocalInv, LocalOK, Holding, PC
      <4> QED BY <2>2, <4>1, ConstantsAssumption DEF Resolves, Moves, SameRow
    <3> QED BY <2>2, <3>1
  <2> QED BY <1>2, <2>1, <2>2, NextRetains DEF Retains
<1>3. ASSUME NEW r \in Runners, run'[r].pc \in Timed PROVE run'[r].now <= clock'
  <2>1. CASE run[r].pc \in Timed /\ run'[r].now = run[r].now
    <3>1. run[r].now <= clock /\ run[r].now \in Nat
      BY <2>1, LocalTyped DEF TtlInv, Run
    <3> QED BY <2>1, <3>1, NextClock
  <2> QED BY <1>3, <2>1, NextTimed, NextClock
<1> QED BY <1>1, <1>2, <1>3 DEF TtlInv, HasRow

(* Who takes an address off the table. *)
Forgets(r, j, a) ==
  /\ run[r].pc = "expire" /\ run[r].job = j /\ ~Fresh(observed[j][a], r)
  /\ Moves(r, "observe") /\ SameFind(r) /\ UNCHANGED <<jobs, clock, seen>>

LEMMA NextForgets ==
  ASSUME TypeInv, [Next]_vars, NEW j \in Jobs, NEW a \in Addrs, observed'[j][a] # observed[j][a]
  PROVE  \/ \E r \in Runners : Stamps(r)
         \/ \E r \in Runners : Forgets(r, j, a)
         \/ \E r \in Runners : run[r].pc = "clear" /\ run[r].job = j
         \/ jobs'[j] = NoRow
<1>0. observed \in [Jobs -> [Addrs -> Times]] /\ jobs \in [Jobs -> Rows \cup {NoRow}]
  BY DEF TypeInv, TypeOK
<1>1. ASSUME NEW r \in Runners, Step(r)
      PROVE  Stamps(r) \/ Forgets(r, j, a) \/ (run[r].pc = "clear" /\ run[r].job = j)
  <2>1. CASE Record(r)
    BY <2>1, GotoMoves DEF Record, At, Stamps
  <2>2. CASE Expire(r)
    <3>1. run[r].pc = "expire" /\ UNCHANGED <<jobs, clock, seen>> /\ Goto(r, "observe")
          /\ observed' = [observed EXCEPT ![Job(r)] =
                           [b \in Addrs |-> IF Fresh(@[b], r) THEN @[b] ELSE Never]]
      BY <2>2 DEF Expire, At
    <3>2. run[r].job = j /\ ~Fresh(observed[j][a], r)
      BY <1>0, <3>1 DEF Job
    <3> QED BY <3>1, <3>2, GotoMoves DEF Forgets
  <2>3. CASE Clear(r)
    BY <1>0, <2>3 DEF Clear, At, Job
  <2> QED BY <1>1, <2>1, <2>2, <2>3 DEF Step, Acquire, Skip, LoadJob, OpenLog, Resolve,
             Observe, LoadController, Fetch, Put, CloseLog, SetLast, Unlock, db
<1>2. ASSUME NEW k \in Jobs, DeleteJob(k) PROVE jobs'[j] = NoRow
  BY <1>0, <1>2 DEF DeleteJob, Cascade
<1> QED BY <1>1, <1>2, NextCases DEF Call, EditJob, AdminEdit, Tick, Crash, vars, db

(* Once its time is over for every run, it stays so. *)
LEMMA GoneStays ==
  ASSUME TypeInv, [Next]_vars, NEW j \in Jobs, NEW a \in Addrs, Gone(j, a),
         seen[j][a] \in Nat, jobs[j].ttl \in Nat,
         seen'[j][a] = seen[j][a], jobs'[j].ttl = jobs[j].ttl
  PROVE  Gone(j, a)'
<1>1. PICK end \in Nat : end = seen[j][a] + jobs[j].ttl
  OBVIOUS
<1>2. end < clock /\ end < clock'
  BY <1>1, NextClock DEF Gone
<1>3. ASSUME NEW r \in Runners, run'[r].job = j, run'[r].pc \in Timed
      PROVE  end < run'[r].now
  <2>1. CASE run[r].pc \in Timed /\ SameRow(r) /\ run'[r].now = run[r].now
    BY <1>1, <1>3, <2>1 DEF Gone, SameRow
  <2> QED BY <1>2, <1>3, <2>1, NextTimed
<1> QED BY <1>1, <1>2, <1>3 DEF Gone

KeptOf(j, a) ==
  seen[j][a] # Never => jobs[j].ttl > 0 /\ (observed[j][a] = seen[j][a] \/ Gone(j, a))

LEMMA Stamped ==
  ASSUME NEW r \in Runners, run[r].job \in Jobs, NEW t \in [Jobs -> [Addrs -> Times]],
         NEW j \in Jobs, NEW a \in Addrs
  PROVE  Stamp(t, r)[j][a] = IF j = run[r].job /\ a \in run[r].found THEN run[r].now ELSE t[j][a]
BY StampType

LEMMA NextKeptOf ==
  ASSUME FixedTTL, TypeInv, GuardInv, WindowInv, TtlInv, [Next]_vars,
         NEW j \in Jobs, jobs'[j] # NoRow, NEW a \in Addrs, KeptOf(j, a)
  PROVE  KeptOf(j, a)'
<1>0. /\ jobs[j] # NoRow /\ jobs[j] \in Rows /\ jobs'[j].ttl = jobs[j].ttl
      /\ jobs[j].ttl \in Nat /\ seen[j][a] \in Times
  <2>1. jobs[j] # NoRow /\ jobs[j] \in Rows /\ jobs'[j].ttl = jobs[j].ttl
    BY NextTTL
  <2> QED BY <2>1, ConstantsAssumption DEF TypeInv, TypeOK
<1>1. ASSUME seen'[j][a] = seen[j][a], observed'[j][a] = observed[j][a]
      PROVE  KeptOf(j, a)'
  BY <1>0, <1>1, GoneStays DEF KeptOf, Times
<1>2. ASSUME NEW r \in Runners, Stamps(r) PROVE KeptOf(j, a)'
  <2>1. run[r].job \in Jobs /\ run[r].pc \in HasRow /\ run[r].row.ttl > 0
    BY <1>2, HasRowTyped DEF Stamps, WindowInv, HasRow, Holding, PC
  <2>2. observed \in [Jobs -> [Addrs -> Times]] /\ seen \in [Jobs -> [Addrs -> Times]]
    BY DEF TypeInv, TypeOK
  <2>3. Stamp(observed, r)[j][a] =
          IF j = run[r].job /\ a \in run[r].found THEN run[r].now ELSE observed[j][a]
    <3>1. run[r].job \in Jobs /\ observed \in [Jobs -> [Addrs -> Times]]
      BY <2>1, <2>2
    <3> QED BY <3>1, Stamped
  <2>4. Stamp(seen, r)[j][a] =
          IF j = run[r].job /\ a \in run[r].found THEN run[r].now ELSE seen[j][a]
    <3>1. run[r].job \in Jobs /\ seen \in [Jobs -> [Addrs -> Times]]
      BY <2>1, <2>2
    <3> QED BY <3>1, Stamped
  <2>5. observed' = Stamp(observed, r) /\ seen' = Stamp(seen, r)
    BY <1>2 DEF Stamps
  <2>6. CASE j = run[r].job /\ a \in run[r].found
    <3>1. run[r].row.ttl = jobs[j].ttl
      BY <1>0, <2>1, <2>6 DEF TtlInv, HasRow
    <3> QED BY <1>0, <2>1, <2>3, <2>4, <2>5, <2>6, <3>1 DEF KeptOf
  <2> QED BY <1>1, <2>3, <2>4, <2>5, <2>6
<1>3. ASSUME Drops, observed'[j][a] # observed[j][a], ~\E r \in Runners : Stamps(r)
      PROVE  KeptOf(j, a)'
  <2>1. seen' = seen
    BY <1>3 DEF Drops
  <2>2. CASE seen[j][a] = Never
    BY <2>1, <2>2 DEF KeptOf
  <2>3. CASE seen[j][a] # Never /\ Gone(j, a)
    BY <1>0, <2>1, <2>3, GoneStays DEF KeptOf, Times
  <2>4. CASE seen[j][a] # Never /\ observed[j][a] = seen[j][a]
    <3>1. jobs[j].ttl > 0
      BY <2>4 DEF KeptOf
    <3>2. ASSUME NEW r \in Runners, run[r].pc = "clear", run[r].job = j PROVE FALSE
      <4>1. run[r].row.ttl = jobs[j].ttl /\ run[r].row.ttl = 0
        BY <1>0, <3>2 DEF TtlInv, Holding, PC
      <4> QED BY <3>1, <4>1
    <3>3. PICK r \in Runners : Forgets(r, j, a)
      BY <1>3, <3>2, NextForgets
    <3>4. /\ run[r].pc \in HasRow /\ run[r].job = j
          /\ clock' = clock /\ clock \in Nat /\ run'[r].now = run[r].now
      BY <3>3 DEF Forgets, HasRow, Holding, PC, SameFind, TypeInv, TypeOK
    <3>5. PICK end \in Nat : end = seen[j][a] + jobs[j].ttl
      BY <1>0, <2>4 DEF Times
    <3>6. end < run[r].now /\ run[r].now <= clock /\ run[r].now \in Nat
      <4>1. run[r].row.ttl = jobs[j].ttl /\ run[r].now <= clock
        BY <1>0, <3>3, <3>4 DEF TtlInv, HasRow, Forgets, Timed
      <4>2. run[r].now \in Nat /\ ~(end >= run[r].now)
        BY <2>4, <3>3, <3>4, <3>5, <4>1, HasRowTyped DEF Forgets, Fresh, RowOf
      <4> QED BY <4>1, <4>2
    <3>7. ASSUME NEW q \in Runners, run'[q].job = j, run'[q].pc \in Timed PROVE q = r
      <4>1. CASE q # r
        <5>1. run[q].job = j /\ run[q].pc \in Timed
          BY <3>3, <3>7, <4>1 DEF Forgets, Moves, Only
        <5> QED BY <3>4, <5>1 DEF GuardInv, OneRunPerJob, Holds, HasRow, Timed, Holding, PC
      <4> QED BY <4>1
    <3>8. Gone(j, a)'
      BY <1>0, <2>1, <3>4, <3>5, <3>6, <3>7 DEF Gone
    <3> QED BY <1>0, <3>1, <3>8 DEF KeptOf
  <2> QED BY <2>2, <2>3, <2>4 DEF KeptOf
<1> QED BY <1>1, <1>2, <1>3, NextObserved DEF Drops

LEMMA PushesKept ==
  ASSUME FixedTTL, TypeInv, GuardInv, WindowInv, TtlInv, KeptInv, [Next]_vars,
         NEW r \in Runners, Pushing(r)', jobs'[run'[r].job] # NoRow,
         NEW a \in Addrs, Within(a, r)'
  PROVE  a \in run'[r].ips
<1>0. /\ run'[r].row = run[r].row /\ run'[r].job = run[r].job /\ run'[r].now = run[r].now
      /\ run'[r].found = run[r].found
      /\ Holds(r, run[r].job) /\ run[r].pc # "record" /\ run[r].job \in Jobs
  BY NextRetains, LocalTyped DEF Pushing, Bound, Retains, SameRow, SameFind, Holds, LocalOK, Holding
<1>1. seen'[run[r].job] = seen[run[r].job] /\ jobs[run[r].job] # NoRow
  BY <1>0, SeenStays, NextTTL
<1>2. /\ seen[run[r].job][a] # Never
      /\ run[r].now <= seen[run[r].job][a] + run[r].row.ttl
  BY <1>0, <1>1 DEF Within, Job, RowOf
<1>3. CASE run[r].pc \in Bound /\ run'[r].ips = run[r].ips
  BY <1>0, <1>1, <1>2, <1>3 DEF KeptInv, KeptThroughWindow, Pushing, Bound, Within, Job, RowOf
<1>4. CASE run[r].pc = "clear"
  <2>1. run[r].row.ttl = jobs[run[r].job].ttl /\ run[r].row.ttl = 0
    BY <1>0, <1>1, <1>4 DEF TtlInv, Holding, PC
  <2>2. jobs[run[r].job].ttl > 0
    BY <1>0, <1>1, <1>2 DEF KeptInv
  <2> QED BY <2>1, <2>2
<1>5. CASE run[r].pc = "observe" /\ run'[r].ips = run[r].found \cup {b \in Addrs : Fresh(observed[Job(r)][b], r)}
  <2>1. run[r].row.ttl = jobs[run[r].job].ttl
    BY <1>0, <1>1, <1>5 DEF TtlInv, Holding, PC
  <2>2. PICK end : end = seen[run[r].job][a] + run[r].row.ttl
    OBVIOUS
  <2>3. end \in Nat /\ run[r].now \in Nat /\ run[r].now <= end
    <3>1. run[r].row.ttl \in Nat /\ run[r].now \in Nat
      BY <1>5, HasRowTyped DEF HasRow, Holding, PC
    <3>2. seen[run[r].job][a] \in Nat
      BY <1>0, <1>2 DEF TypeInv, TypeOK, Times
    <3> QED BY <1>2, <2>2, <3>1, <3>2
  <2>4. ~Gone(run[r].job, a)
    BY <1>5, <2>1, <2>2, <2>3 DEF Gone, Timed
  <2>5. observed[run[r].job][a] = seen[run[r].job][a]
    BY <1>0, <1>1, <1>2, <2>4 DEF KeptInv
  <2>6. Fresh(observed[Job(r)][a], r)
    BY <1>2, <2>2, <2>3, <2>5 DEF Fresh, Job, RowOf
  <2> QED BY <1>5, <2>6
<1> QED BY <1>3, <1>4, <1>5, NextRetains DEF Retains, Bound, Pushing

LEMMA NextKept ==
  ASSUME FixedTTL, TypeInv, GuardInv, WindowInv, TtlInv, KeptInv, [Next]_vars
  PROVE  KeptInv'
<1>1. ASSUME NEW j \in Jobs, jobs'[j] # NoRow, NEW a \in Addrs PROVE KeptOf(j, a)'
  <2>1. KeptOf(j, a)
    BY <1>1, NextTTL DEF KeptInv, KeptOf
  <2> QED BY <1>1, <2>1, NextKeptOf
<1>2. ASSUME NEW r \in Runners, Pushing(r)', jobs'[run'[r].job] # NoRow,
             NEW a \in Addrs, Within(a, r)'
      PROVE  a \in run'[r].ips
  BY <1>2, PushesKept
<1> QED BY <1>1, <1>2 DEF KeptInv, KeptOf, KeptThroughWindow, Job

(* An address that a run of the job has recorded within the ttl is pushed,  *)
(* so that no run takes it off the list: as long as the ttl of a job is     *)
(* not changed, whatever fails, is deleted, crashes or runs beside it       *)
(* (execute, the *ObservedIPs methods of the store).                        *)
THEOREM KeepsWhatIsRecent ==
  ASSUME "edit" \notin Events \/ \A row1, row2 \in Rows : row1.ttl = row2.ttl
  PROVE  Spec => []KeptThroughWindow
<1>0. FixedTTL
  BY DEF FixedTTL
<1>1. Init => WindowInv /\ TtlInv /\ KeptInv
  <2> SUFFICES ASSUME Init PROVE WindowInv /\ TtlInv /\ KeptInv
    OBVIOUS
  <2>1. \A r \in Runners : run[r].pc = "idle"
    BY DEF Init, IdleRun
  <2>2. \A j \in Jobs : \A a \in Addrs : observed[j][a] = Never /\ seen[j][a] = Never
    BY DEF Init
  <2> QED BY <2>1, <2>2 DEF WindowInv, ObservedInv, PushedWithinWindow, Pushing, TtlInv,
             Holding, Timed, KeptInv, KeptThroughWindow
<1>2. TypeInv /\ GuardInv /\ WindowInv /\ TtlInv /\ KeptInv /\ [Next]_vars
        => WindowInv' /\ TtlInv' /\ KeptInv'
  BY <1>0, NextWindow, NextTtlInv, NextKept
<1>3. KeptInv => KeptThroughWindow
  BY DEF KeptInv
<1> QED BY <1>1, <1>2, <1>3, GuardInductive, TypeInductive, PTL DEF Spec
=============================================================================
