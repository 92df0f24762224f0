--------------------------- MODULE EngagementTables ---------------------------
(***************************************************************************)
(* The session and aggregate tables of a bundle, as functions of its       *)
(* curated events: as the local store computes them (store.py, _sessions   *)
(* and _aggregates, the executable oracle), as the Spark job does          *)
(* (transforms.py, sessionize_batch and engagement_aggregates), and a      *)
(* definition of sessions that sorts nothing.                              *)
(*                                                                         *)
(* Time is counted in ticks, so that an event may fall inside a second and *)
(* a day may be short.  The store keeps the text of event_time, wall clock *)
(* and zone as the producer wrote them; Spark keeps the instant, and cuts  *)
(* its dates in the time zone of the session, which is taken to be UTC     *)
(* (nothing in the repository sets spark.sql.session.timeZone).            *)
(***************************************************************************)
EXTENDS Integers, Sequences, FiniteSets, FiniteSetsExt

CONSTANTS
    Day,        \* ticks in a day
    Second,     \* ticks in a second
    SessionGap  \* rules.session_gap_minutes, in ticks

ASSUME TickAssumption ==
    /\ Day \in Nat \ {0} /\ Second \in Nat \ {0} /\ SessionGap \in Nat \ {0}
    /\ Day % Second = 0 /\ SessionGap % Second = 0

(* id orders as event_id does; consent is "analytics_allowed". *)
Event == [id : Nat, user : STRING, type : STRING, time : Nat, zone : Int, consent : BOOLEAN]

Eligible(events) == {e \in events : e.consent}
Users(events) == {e.user : e \in events}
Of(events, u) == {e \in events : e.user = u}
Date(e) == e.time \div Day

Session(u, events, first, last) ==
    [user |-> u, started |-> first.time, ended |-> last.time,
     count |-> Cardinality(events), first |-> first.id, last |-> last.id]

(* The events of a set in an order, which must be total on it. *)
InOrder(events, Comes(_, _)) ==
    CHOOSE s \in [1 .. Cardinality(events) -> events] :
        \A i, j \in DOMAIN s : i < j => Comes(s[i], s[j])

(* A user's events, in their order, cut before each of the positions starts. *)
Runs(events, starts) ==
    {[from |-> i, to |-> Min({k - 1 : k \in {s \in starts : s > i}} \cup {Len(events)})] :
        i \in starts}

Slice(events, run) == {events[i] : i \in run.from .. run.to}

-----------------------------------------------------------------------------
(* The local store. *)

Wall(e) == e.time + e.zone
WallDate(e) == Wall(e) \div Day

(* The text of event_time, then event_id: isoformat compares as the wall
   clock does, and then as the zone, in which + comes before -. *)
ZoneBefore(y, z) == IF z < 0 THEN y > z ELSE 0 =< y /\ y < z
TextBefore(d, e) ==
    \/ Wall(d) < Wall(e)
    \/ Wall(d) = Wall(e) /\ ZoneBefore(d.zone, e.zone)
    \/ Wall(d) = Wall(e) /\ d.zone = e.zone /\ d.id < e.id

LocalApart(d, e) == e.time - d.time > SessionGap
LocalStarts(events) ==
    {i \in DOMAIN events : i = 1 \/ LocalApart(events[i - 1], events[i])}

(* _sessions, each with the date its started_at begins with. *)
LocalSessions(events) ==
    UNION {LET mine == InOrder(Of(Eligible(events), u), TextBefore)
           IN  {[date    |-> WallDate(mine[r.from]),
                 session |-> Session(u, Slice(mine, r), mine[r.from], mine[r.to])] :
                   r \in Runs(mine, LocalStarts(mine))} : u \in Users(Eligible(events))}

(* _aggregates *)
LocalAggregates(events) ==
    LET eligible == Eligible(events)
        sessions == LocalSessions(events)
        On(d, t) == {e \in eligible : WallDate(e) = d /\ e.type = t}
    IN  {[date     |-> WallDate(e), type |-> e.type,
          events   |-> Cardinality(On(WallDate(e), e.type)),
          users    |-> Cardinality(Users(On(WallDate(e), e.type))),
          sessions |-> Cardinality({s \in sessions : s.date = WallDate(e)})] : e \in eligible}

-----------------------------------------------------------------------------
(* The Spark job. *)

ByIdentity(d, e) == d.id < e.id
Before(d, e) == d.time < e.time \/ (d.time = e.time /\ d.id < e.id)

(* Timestamps cast to long lose what is below the second. *)
ByBucket(d, e) == e.time \div SessionGap # d.time \div SessionGap
SparkApart(d, e) == (e.time \div Second) - (d.time \div Second) > SessionGap \div Second
SparkStarts(events) ==
    {i \in DOMAIN events : i = 1 \/ SparkApart(events[i - 1], events[i])}

SparkSessions(events) ==
    UNION {LET mine == InOrder(Of(Eligible(events), u), Before)
           IN  {Session(u, Slice(mine, r), mine[r.from], mine[r.to]) :
                   r \in Runs(mine, SparkStarts(mine))} : u \in Users(Eligible(events))}

(* groupBy("event_date", "event_type"), and to_date("started_at"). *)
SameDate(d, e) == Date(d) = Date(e)
SameCell(d, e) == Date(d) = Date(e) /\ d.type = e.type
EndedOn(s) == s.ended \div Day
StartedOn(s) == s.started \div Day

(* metrics joined to session_metrics on event_date, missing counts as 0. *)
SparkAggregates(events) ==
    LET eligible == Eligible(events)
        sessions == SparkSessions(events)
        Cell(e) == {d \in eligible : SameCell(d, e)}
    IN  {[date     |-> Date(e), type |-> e.type,
          events   |-> Cardinality(Cell(e)),
          users    |-> Cardinality(Users(Cell(e))),
          sessions |-> Cardinality({s \in sessions : StartedOn(s) = Date(e)})] : e \in eligible}

-----------------------------------------------------------------------------
(* Sessions by definition: an event opens one if no earlier event of its user
   is within the gap, and belongs to the last one opened before it. *)

Precedes(d, e) == d.time < e.time \/ (d.time = e.time /\ d.id < e.id)
Opens(e, mine) == \A d \in mine : Precedes(d, e) => e.time - d.time > SessionGap
OpenerOf(e, mine) ==
    CHOOSE o \in mine :
        /\ Opens(o, mine) /\ ~Precedes(e, o)
        /\ \A p \in mine : Opens(p, mine) /\ ~Precedes(e, p) => ~Precedes(o, p)

ReferenceSessions(events) ==
    UNION {LET mine == Of(Eligible(events), u)
               Members(o) == {e \in mine : OpenerOf(e, mine) = o}
               Closer(o) == CHOOSE l \in Members(o) : \A e \in Members(o) : ~Precedes(l, e)
           IN  {Session(u, Members(o), o, Closer(o)) : o \in {e \in mine : Opens(e, mine)}} :
              u \in Users(Eligible(events))}

WholeSeconds(events) == \A e \in events : e.time % Second = 0
OneZone(events) == \A d, e \in events : d.zone = e.zone
InUtc(events) == \A e \in events : e.zone = 0
=============================================================================
