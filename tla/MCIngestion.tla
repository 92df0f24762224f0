------------------------------ MODULE MCIngestion ------------------------------
(***************************************************************************)
(* Instances of ConcurrentIngestion for TLC.  Times are minutes and the    *)
(* watermark is one minute, so an event at 0 is late once an event at 2    *)
(* has arrived and an event at 1 is exactly on the boundary.               *)
(***************************************************************************)
EXTENDS ConcurrentIngestion, TLC

CONSTANTS p1, p2, w1, w2

Event(valid, id, time, body) == [valid |-> valid, id |-> id, time |-> time, body |-> body]

Leading  == Event(TRUE, "e1", 2, "a")   \* advances max_event_time to 2
Conflict == Event(TRUE, "e1", 0, "b")   \* same identity, other payload
Late     == Event(TRUE, "e2", 0, "a")
Boundary == Event(TRUE, "e2", 1, "a")
Invalid  == Event(FALSE, "e1", 2, "a")

Unstored == Event(TRUE, "e2", 1, "c")   \* its page_id, say, is a list

MCPartition == {p1, p2}
MCEventId == {"e1", "e2"}
MCBody == {"a", "b", "c"}
MCUnbindable == {Unstored}
MCWorker == {w1, w2}

LogsOf(first, second) ==
    {p1 :> a @@ p2 :> b : a \in first, b \in second}

(* Histories of three arrivals in p1 next to one in p2: first any kind (before
   any maximum, a late and a boundary event are alike), then any kind or one
   that cannot be stored, then any contract-valid kind. *)
Kinds == {Leading, Conflict, Late, Boundary}
MCLogs ==
    LogsOf({<<a, b, c>> : a \in {Leading, Conflict, Late, Invalid},
                          b \in Kinds \cup {Invalid}, c \in Kinds}
              \cup {<<a, Unstored, c>> : a \in Kinds, c \in {Leading, Late}},
           {<<Leading>>, <<Late>>})

Whole(p, n) == [i \in 1 .. n |-> <<p, i - 1>>]

(* load_envelopes yields whole partitions; two processes may take them in
   either order, so both partitions have two concurrent writers. *)
MCFeeds == {w1 :> Whole(p1, 3) \o Whole(p2, 1) @@ w2 :> f :
               f \in {Whole(p2, 1) \o Whole(p1, 3), <<<<p1, 1>>, <<p1, 2>>>>}}
=============================================================================
