-------------------------- MODULE DailyEngagementMart --------------------------
(***************************************************************************)
(* The dbt mart fct_daily_engagement over the events of the active bundle. *)
(* Publications extend the curated table; dbt runs in between recompute    *)
(* the last three days and replace their rows (incremental, delete+insert, *)
(* unique key date and type); a full refresh recomputes everything.        *)
(*                                                                         *)
(* The staging view reads the lakehouse source curated_event, which the    *)
(* documents say is that of the active generation; nothing in the          *)
(* repository binds it.  One dbt run is one statement on one view.         *)
(***************************************************************************)
EXTENDS EngagementTables, Functions

CONSTANT Histories  \* the sets of events considered

(* The job leaves one curated row per identity (OneRowPerIdentity of
   GenerationBuilder), the store one accepted event. *)
ASSUME HistoriesAssumption ==
    \A h \in Histories :
        /\ h \subseteq Event /\ IsFiniteSet(h)
        /\ \A d, e \in h : d.id = e.id => d = e

VARIABLES
    arriving,  \* the events that generations will accept
    curated,   \* the curated events of the active bundle
    mart,      \* rows of fct_daily_engagement
    missed,    \* keys that a publication changed behind the mart's window
    fresh      \* no publication since the last dbt run

vars == <<arriving, curated, mart, missed, fresh>>

Key(e) == <<Date(e), e.type>>

(* stg_engagement_event *)
Staging(events) == {e \in events : e.consent}

(* The select of the mart over staged events. *)
MartRows(events) ==
    {[date   |-> Date(e), type |-> e.type,
      events |-> Cardinality({d \in events : Key(d) = Key(e)}),
      users  |-> Cardinality(Users({d \in events : Key(d) = Key(e)}))] : e \in events}

(* dateadd(day, -3, max(event_date)); everything while the mart is empty. *)
WindowStart == IF mart = {} THEN 0 ELSE Max({r.date : r \in mart}) - 3
AfterMidnight(e) == e.time > WindowStart * Day
InWindow(e) == e.time >= WindowStart * Day

Init ==
    /\ arriving \in Histories
    /\ curated = {} /\ mart = {} /\ missed = {}
    /\ fresh = TRUE

(* A LIVE or REPLAY generation becomes active: the job unions its new events
   with its parent's. *)
Publish ==
    /\ \E new \in (SUBSET (arriving \ curated)) \ {{}} :
          /\ curated' = curated \cup new
          /\ missed' = missed \cup {Key(e) : e \in {n \in Staging(new) :
                                                     n.time < WindowStart * Day}}
    /\ fresh' = FALSE
    /\ UNCHANGED <<arriving, mart>>

(* delete from the mart what has a key of the new rows, then insert them. *)
Replace(rows) ==
    {r \in mart : \A n \in rows : <<n.date, n.type>> # <<r.date, r.type>>} \cup rows

Refresh ==
    /\ mart' = Replace(MartRows({e \in Staging(curated) : InWindow(e)}))
    /\ fresh' = TRUE
    /\ UNCHANGED <<arriving, curated, missed>>

FullRefresh ==
    /\ mart' = MartRows(Staging(curated))
    /\ missed' = {}
    /\ fresh' = TRUE
    /\ UNCHANGED <<arriving, curated>>

Next == Publish \/ Refresh \/ FullRefresh

Spec == Init /\ [][Next]_vars

-----------------------------------------------------------------------------
(* "event_time, event_id is the deterministic order" (docs/ARCHITECTURE.md:62):
   the loop of _sessions and the windows of sessionize_batch give the sessions
   of the definition, whatever the order of arrival; the store as long as one
   zone is in use, because it sorts the text of event_time, and Spark as long
   as times are whole seconds, because it casts them to long. *)
SessionsAreCanonical ==
    /\ OneZone(curated) =>
          {s.session : s \in LocalSessions(curated)} = ReferenceSessions(curated)
    /\ WholeSeconds(curated) => SparkSessions(curated) = ReferenceSessions(curated)

(* The oracle's aggregates are the job's when producers write UTC and the
   Spark session is in UTC (EngagementTables): dates are cut from the text
   there and from the instant here. *)
AggregatesAgree ==
    InUtc(curated) /\ WholeSeconds(curated) =>
        LocalAggregates(curated) = SparkAggregates(curated)

(* Nothing is counted twice or dropped, in any zone and at any time of the
   second: sessions and aggregate rows of either implementation each count
   every consented event once, and the inner key of the join (the date a
   session started) always has a row. *)
SessionsByDate(rows) == {[date |-> r.date, sessions |-> r.sessions] : r \in rows}
Balances(rows, sessions, eligible) ==
    /\ SumFunction([r \in rows |-> r.events]) = Cardinality(eligible)
    /\ SumFunction([s \in sessions |-> s.count]) = Cardinality(eligible)
    /\ SumFunction([r \in SessionsByDate(rows) |-> r.sessions]) = Cardinality(sessions)
CountsAddUp ==
    /\ Balances(SparkAggregates(curated), SparkSessions(curated), Eligible(curated))
    /\ Balances(LocalAggregates(curated), {s.session : s \in LocalSessions(curated)},
                Eligible(curated))

(* Corrections only ever join sessions: two events of a user that a bundle has
   in one session are in one session in every later bundle (sessionize_batch
   over the union with the parent's curated rows). *)
Together(events, d, e) ==
    \E s \in SparkSessions(events) :
        /\ s.user = d.user /\ s.user = e.user
        /\ {d.time, e.time} \subseteq s.started .. s.ended
SessionsOnlyMerge ==
    [][\A d, e \in Eligible(curated) :
          Together(curated, d, e) => Together(curated', d, e)]_vars

(* After a dbt run the mart's rows are the bundle's engagement aggregates,
   event_count and unique_users alike, but for the keys that a publication
   changed more than three days behind the newest date of the mart; those
   differ, until a full refresh. *)
MartMatchesBundle ==
    LET Known(rows, unchanged) ==
            {r \in rows : (<<r.date, r.type>> \notin missed) <=> unchanged}
        aggregates == {[date |-> a.date, type |-> a.type, events |-> a.events,
                        users |-> a.users] : a \in SparkAggregates(curated)}
    IN  fresh =>
            /\ Known(mart, TRUE) = Known(aggregates, TRUE)
            /\ Known(mart, FALSE) \cap Known(aggregates, FALSE) = {}
=============================================================================
