----------------------------- MODULE MCEngagement -----------------------------
(***************************************************************************)
(* Instances of DailyEngagementMart for TLC: a second of two ticks, a      *)
(* session gap of two seconds, a day of six seconds.                       *)
(***************************************************************************)
EXTENDS DailyEngagementMart

Action(id, user, type, time, zone, consent) ==
    [id |-> id, user |-> user, type |-> type, time |-> time, zone |-> zone,
     consent |-> consent]

(* Three events of one user around a midnight, in two zones. *)
Visits ==
    {{Action(1, "u1", "search", s, 0, TRUE), Action(2, "u1", "search", t, z, TRUE),
      Action(3, "u1", "checkout", v, y, c)} :
        s \in {8, 12}, t \in 6 .. 13, v \in 8 .. 18, z \in {0, -4}, y \in {0, 4}, c \in BOOLEAN}

(* Three events of two users on days up to five apart. *)
Weeks ==
    {{Action(1, "u1", "search", 12 * d, 0, TRUE), Action(2, u, "search", 12 * e, 0, TRUE),
      Action(3, "u1", type, 12 * f + 1, 0, c)} :
        d \in {0, 3}, e \in 0 .. 5, f \in 0 .. 5, u \in {"u1", "u2"},
        type \in {"search", "checkout"}, c \in BOOLEAN}

MCHistories == Visits \cup Weeks
=============================================================================
