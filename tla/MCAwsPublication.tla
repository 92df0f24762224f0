--------------------------- MODULE MCAwsPublication ---------------------------
(* Instances of AwsPublication for TLC: every generation is asked for at every
   URI, LIVE as a first generation, REPLAY on whatever another URI holds. *)
EXTENDS AwsPublication, TLC

CONSTANTS g1, g2, g3, u1, u2, u3, c1, c2

MCGeneration == {g1, g2, g3}
MCUri == {u1, u2, u3}
MCCaller == {c1, c2}
MCPartition == {0}

MCSource == [p \in MCPartition |-> [start |-> 0, end |-> 0]]
MCRequests ==
    {[gid |-> g, mode |-> IF u = None THEN "LIVE" ELSE "REPLAY", source |-> MCSource,
      parent |-> u, output |-> v] :
        g \in MCGeneration, u \in MCUri \cup {None}, v \in MCUri}
MCApproved == {u1, u2}

Symmetry ==
    Permutations(MCGeneration) \cup Permutations(MCCaller) \cup Permutations(MCApproved)
=============================================================================
