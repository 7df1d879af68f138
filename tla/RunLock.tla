------------------------------ MODULE RunLock -------------------------------
(***************************************************************************)
(* What Syncer.running is for: "prevents concurrent runs of the same job". *)
(* A goroutine takes a job nobody holds and gives it back itself; only the *)
(* end of the process takes it away.                                       *)
(***************************************************************************)
CONSTANTS Jobs, Runners

VARIABLE held   \* the pairs <<runner, job>> of the runs in progress

Take(r, j) ==
  /\ \A pair \in held : pair[1] # r /\ pair[2] # j
  /\ held' = held \cup {<<r, j>>}

Give(r, j) ==
  /\ <<r, j>> \in held
  /\ held' = held \ {<<r, j>>}

Die == held' = {}

Init == held = {}
Next == Die \/ \E r \in Runners, j \in Jobs : Take(r, j) \/ Give(r, j)

Spec == Init /\ [][Next]_held
=============================================================================
