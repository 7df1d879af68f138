----------------------------- MODULE LogStream ------------------------------
(***************************************************************************)
(* What internal/logging promises to those who log: every sink writes the  *)
(* events in the order they were logged and none of them twice; it may     *)
(* leave one out only after Cap later ones were logged, the ring being     *)
(* full ("the oldest event is overwritten"), while the outputs are being   *)
(* replaced, or while its file is closed to be rotated.                    *)
(***************************************************************************)
EXTENDS Naturals, Sequences

CONSTANTS
  Sinks,   \* the outputs
  Cap      \* how many events are kept for a slow sink

VARIABLES
  sent,    \* events logged so far, numbered from 0
  due,     \* per sink, the next event it has to write
  out,     \* per sink, the events it has written
  epoch,   \* how often the outputs have been replaced
  shut     \* the sinks that have nothing to write to

streamVars == <<sent, due, out, epoch, shut>>

Overwritten(k) == k + Cap <= sent

Log ==
  /\ sent' = sent + 1
  /\ UNCHANGED <<due, out, epoch, shut>>

Write(s) ==
  /\ due[s] < sent
  /\ out' = [out EXCEPT ![s] = Append(@, due[s])]
  /\ due' = [due EXCEPT ![s] = @ + 1]
  /\ UNCHANGED <<sent, epoch, shut>>

(* an event written to a closed file *)
Lose(s) ==
  /\ s \in shut /\ due[s] < sent
  /\ due' = [due EXCEPT ![s] = @ + 1]
  /\ UNCHANGED <<sent, out, epoch, shut>>

Rotate(s) ==
  /\ shut' \in {shut \cup {s}, shut \ {s}}
  /\ UNCHANGED <<sent, due, out, epoch>>

(* events lost to the overflow *)
Miss(s) ==
  \E next \in due[s] + 1 .. sent :
    /\ \A k \in due[s] .. next - 1 : Overwritten(k)
    /\ due' = [due EXCEPT ![s] = next]
    /\ UNCHANGED <<sent, out, epoch, shut>>

(* new outputs, which begin with the next event, for the former ones *)
Attach ==
  /\ epoch' = epoch + 1
  /\ \E T \in SUBSET Sinks : due' = [s \in Sinks |-> IF s \in T THEN sent ELSE due[s]]
  /\ shut' \in SUBSET Sinks
  /\ UNCHANGED <<sent, out>>

Init ==
  /\ sent = 0
  /\ due = [s \in Sinks |-> 0]
  /\ out = [s \in Sinks |-> <<>>]
  /\ epoch = 1
  /\ shut = {}

Next == Log \/ Attach \/ \E s \in Sinks : Write(s) \/ Miss(s) \/ Lose(s) \/ Rotate(s)

Spec == Init /\ [][Next]_streamVars
-----------------------------------------------------------------------------
(* What follows for the reader of a sink: the numbers only go up, nothing   *)
(* is written twice and nothing before it was logged.                       *)
InOrder ==
  \A s \in Sinks :
    /\ \A i \in 1 .. Len(out[s]) : out[s][i] < sent
    /\ \A i, j \in 1 .. Len(out[s]) : i < j => out[s][i] < out[s][j]

OrderInv ==
  /\ sent \in Nat /\ due \in [Sinks -> Nat] /\ out \in [Sinks -> Seq(Nat)]
  /\ \A s \in Sinks : due[s] <= sent /\ \A i \in 1 .. Len(out[s]) : out[s][i] < due[s]
  /\ InOrder
=============================================================================
