---------------------------- MODULE MCGenerationDag ----------------------------
(* Instances of GenerationDag for TLC. *)
EXTENDS GenerationDag

CONSTANTS g1, g2, u1, u2, u3, c1, c2

MCGeneration == {g1, g2}
MCUri == {u1, u2, u3}
MCApproved == {u1, u2}
MCPartition == {0}
MCCaller == {c1, c2}

Offsets(first, last) == [p \in MCPartition |-> [start |-> first, end |-> last]]

(* A first generation, children of it built LIVE and REPLAY, and the same
   again with one parameter the job or the register handler refuses. *)
First == [gid |-> g1, mode |-> "LIVE", source |-> Offsets(0, 0),
          parent |-> None, output |-> u1]
Child == [gid |-> g2, mode |-> "LIVE", source |-> Offsets(1, 1),
          parent |-> u1, output |-> u2]
Replay == [Child EXCEPT !.mode = "REPLAY", !.source = Offsets(0, 0)]
Gap == [Child EXCEPT !.source = Offsets(2, 2)]
Backwards == [Child EXCEPT !.source = Offsets(1, 0)]
Orphan == [Replay EXCEPT !.parent = None]
Unapproved == [First EXCEPT !.output = u3]
Elsewhere == [First EXCEPT !.output = None]
SameUri == [First EXCEPT !.gid = g2]

MCRequests ==
    {First, Child, Replay, Gap, Backwards, Orphan, Unapproved, Elsewhere, SameUri}
=============================================================================
