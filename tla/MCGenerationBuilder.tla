------------------------- MODULE MCGenerationBuilder -------------------------
(***************************************************************************)
(* Instances of GenerationBuilder for TLC.                                 *)
(***************************************************************************)
EXTENDS GenerationBuilder, TLC

CONSTANTS g1, g2, g3

Event(id, time, body) == [valid |-> TRUE, id |-> id, time |-> time, body |-> body]

(* An event ahead of time, an early event, and one that shares its identity:
   in some order these are live, late, duplicate and conflicting. *)
Ahead == Event("e1", 3, "a")
Early == Event("e2", 0, "a")
Other == Event("e2", 1, "b")
Newer == Event("e2", 3, "b")
Invalid == [valid |-> FALSE, id |-> "e2", time |-> 9, body |-> "a"]
Kinds == {Ahead, Early, Other, Newer}

MCPartition == {0, 1}
MCEventId == {"e1", "e2"}

(* All histories of two arrivals in partition 0 and one in partition 1, and
   of three arrivals in partition 0 alone, the second possibly invalid. *)
MCLogs ==
    {0 :> first @@ 1 :> <<k>> : first \in [1 .. 2 -> Kinds], k \in Kinds}
    \cup {0 :> <<j, k, l>> @@ 1 :> <<>> : j \in Kinds, k \in Kinds \cup {Invalid}, l \in Kinds}

MCGeneration == {g1, g2, g3}
Symmetry == Permutations(MCGeneration)
=============================================================================
