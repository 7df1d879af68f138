------------------------------ MODULE MCSyncer ------------------------------
(* Finite instances of Syncer for TLC. *)
EXTENDS Syncer, TLC

CONSTANTS a1, a2, n1, l1, l2

JobRow(literals, dns, ttl, l) ==
  [literals |-> literals, dns |-> dns, ttl |-> ttl, list |-> l]

\* no retention, two lists: a literal and an answer, or an answer alone
RowsTwoLists == {JobRow({a1}, {a2}, 0, l1), JobRow({}, {a1}, 0, l2)}
\* a ttl for good, hostnames and list change
RowsFixedTTL == {JobRow({}, {a1, a2}, 1, l1), JobRow({a1, a2}, {}, 1, l2)}
\* RowsFixedTTL treats the addresses alike
AddrSymmetry == Permutations({a1, a2})

EmptyLists == [l \in Lists |-> {}]
\* a list that an administrator has begun with a range
RangeOnOne == [l \in Lists |-> IF l = l2 THEN {n1} ELSE {}]
=============================================================================
