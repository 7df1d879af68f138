---------------------------- MODULE MCScheduler ----------------------------
(* Finite instances of Scheduler for TLC. *)
EXTENDS Scheduler, TLC

CONSTANTS hourly, daily

On(s)  == [enabled |-> TRUE, schedule |-> s]
Off(s) == [enabled |-> FALSE, schedule |-> s]

SpecsMC    == {hourly, daily}
\* two schedules to confuse, one cron rejects, the empty one, a disabled job
RowsAll    == {On(hourly), On(daily), On(BadSpec), On(NoSpec), Off(hourly)}
RowsOn     == {On(hourly)}

JobClientSymmetry == Permutations(Clients) \cup Permutations(Jobs)
=============================================================================
