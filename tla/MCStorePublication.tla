-------------------------- MODULE MCStorePublication --------------------------
(***************************************************************************)
(* Instances of StorePublication for TLC: a partition whose second arrival *)
(* is late, and one that never gets a checkpoint row.                      *)
(***************************************************************************)
EXTENDS StorePublication, TLC

CONSTANTS p1, p2, g1, g2, b1, b2

Event(id, time) == [valid |-> TRUE, id |-> id, time |-> time, body |-> "a"]

MCPartition == {p1, p2}
MCEventId == {"e1", "e2"}
MCLogs == {p1 :> <<Event("e1", 2), Event("e2", 0)>> @@ p2 :> <<>>}

MCGeneration == {g1, g2}
MCBuilder == {b1, b2}
OneBuilder == {b1}
Symmetry == Permutations(MCGeneration) \cup Permutations(MCBuilder)
=============================================================================
