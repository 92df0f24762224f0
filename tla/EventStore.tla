------------------------------ MODULE EventStore ------------------------------
(***************************************************************************)
(* What the ingestion half of the local store (src/src/pulsestream/        *)
(* store.py, PulseStore.process_envelopes) promises: every partition is an *)
(* ordered log, and each arrival is classified and recorded, exactly once, *)
(* in one atomic step.                                                     *)
(*                                                                         *)
(* The SQLite tables are the variables.  An arrival keeps only what the    *)
(* classification looks at: whether it passes the contract, its event_id,  *)
(* its event time (in minutes) and the rest of its canonical payload.      *)
(*                                                                         *)
(* ConcurrentIngestion splits the step into the statements the code runs   *)
(* and shows that it still implements this module; StorePublication builds *)
(* generations on top of it.                                               *)
(***************************************************************************)
EXTENDS Integers, Sequences, FiniteSets

CONSTANTS
    Partition,  \* the Kafka partitions of the topic
    EventId,    \* the business identities, event_id
    Body,       \* everything else the identity fingerprint covers
    Watermark,  \* rules.live_watermark_minutes
    Unbindable, \* payloads some value of which SQLite cannot store
    Logs,       \* the arrival histories considered
    None        \* SQL NULL, or a row that does not exist

Payload == [valid : BOOLEAN, id : EventId, time : Nat, body : Body]

(* Row types.  resolved_generation_id is NULL or one of gens. *)
AcceptedRows == [time : Nat, late : BOOLEAN, partition : Partition, offset : Nat]
CorrectionRows(gens) ==
    [status : {"OPEN", "RESOLVED"}, partition : Partition, offset : Nat,
     resolved : gens \cup {None}]

ASSUME WatermarkAssumption == Watermark \in Nat \ {0}
ASSUME LogsAssumption == Logs \subseteq [Partition -> Seq(Payload)]
ASSUME NoneAssumption ==
    /\ None \notin Nat
    /\ None \notin EventId \X Nat \X Body
    /\ None \notin AcceptedRows
    /\ None \notin CorrectionRows({})

VARIABLES
    log,                  \* log[p][o + 1] is the payload at offset o of partition p
    checkpoint,           \* checkpoint row per partition; last = -1 when there is none
    ingestion_outcome,    \* the outcome rows, keyed by (partition, offset)
    quarantine,           \* the keys of the quarantine rows
    seen_event,           \* identity fingerprint per event_id
    accepted_event,       \* accepted row per event_id
    correction_exception  \* correction row per event_id

tables == <<checkpoint, ingestion_outcome, quarantine, seen_event,
            accepted_event, correction_exception>>
storeVars == <<log, tables>>

-----------------------------------------------------------------------------
(* Classification of one arrival (PulseStore._process_one). *)

Fingerprint(e) == <<e.id, e.time, e.body>>

Arrival(p, o) == log[p][o + 1]
HasArrival(p, o) == o \in 0 .. (Len(log[p]) - 1)

LateFromBoundary(time, max) == max # None /\ time =< max - Watermark
IsLate(time, max) == max # None /\ time < max - Watermark

VerdictById(e, found, max) ==
    CASE ~e.valid       -> "INVALID"
      [] e.valid /\ found # None -> "DUPLICATE"
      [] OTHER          -> IF IsLate(e.time, max) THEN "ACCEPTED_LATE" ELSE "ACCEPTED_LIVE"

(* found is the stored fingerprint of the same event_id, max the partition's
   max_event_time.  INVALID and CONFLICT are the two QUARANTINED outcomes,
   by contract reason and by identity_payload_conflict. *)
Verdict(e, found, max) ==
    CASE ~e.valid -> "INVALID"
      [] e.valid /\ found # None ->
            IF found # Fingerprint(e) THEN "CONFLICT" ELSE "DUPLICATE"
      [] OTHER -> IF IsLate(e.time, max) THEN "ACCEPTED_LATE" ELSE "ACCEPTED_LIVE"

Verdicts == {"ACCEPTED_LIVE", "ACCEPTED_LATE", "DUPLICATE", "CONFLICT", "INVALID"}
AcceptingLive == {"ACCEPTED_LIVE"}
Accepting == {"ACCEPTED_LIVE", "ACCEPTED_LATE"}
Quarantining == {"CONFLICT", "INVALID"}

(* process_envelopes advances max_event_time for every arrival that passes
   the contract, duplicates and conflicts included. *)
LatestTime(e, max) == IF e.valid THEN e.time ELSE max
NextMax(e, max) ==
    IF e.valid /\ (max = None \/ e.time > max) THEN e.time ELSE max

Expected(p) == checkpoint[p].last + 1

-----------------------------------------------------------------------------
(* The write transaction: outcome, effect and checkpoint commit together.   *)

OutcomeRow(p, o, v) == [partition |-> p, offset |-> o, verdict |-> v]
HasOutcome(p, o) ==
    \E r \in ingestion_outcome : r.partition = p /\ r.offset = o

(* validate_event checks neither the type of page_id and campaign_id nor, of
   a payload it refuses, that of event_id; the INSERT then raises an error that
   is no ContractError.  Duplicates and conflicts store only a checked event_id. *)
AnyBinds(e, v) == TRUE
Binds(e, v) == e \in Unbindable => v \in {"DUPLICATE", "CONFLICT"}

(* The INSERT statements succeed: no primary key is taken, every value binds. *)
OutcomeKeyFree(p, o, e, v) == ~HasOutcome(p, o)
KeysFree(p, o, e, v) ==
    /\ ~HasOutcome(p, o)
    /\ v \in Accepting => seen_event[e.id] = None
    /\ Binds(e, v)

RecordOutcome(p, o, found, max) ==
    LET e == Arrival(p, o)
        v == Verdict(e, found, max)
    IN  /\ KeysFree(p, o, e, v)
        /\ ingestion_outcome' = ingestion_outcome \cup {OutcomeRow(p, o, v)}
        /\ quarantine' = IF v \in Quarantining THEN quarantine \cup {<<p, o>>}
                                               ELSE quarantine
        /\ seen_event' = IF v \in Accepting
                         THEN [seen_event EXCEPT ![e.id] = Fingerprint(e)]
                         ELSE seen_event
        /\ accepted_event' =
              IF v \in Accepting
              THEN [accepted_event EXCEPT ![e.id] =
                       [time |-> e.time, late |-> v = "ACCEPTED_LATE",
                        partition |-> p, offset |-> o]]
              ELSE accepted_event
        /\ correction_exception' =
              IF v = "ACCEPTED_LATE"
              THEN [correction_exception EXCEPT ![e.id] =
                       [status |-> "OPEN", partition |-> p, offset |-> o,
                        resolved |-> None]]
              ELSE correction_exception
        /\ checkpoint' = [checkpoint EXCEPT ![p] =
                             [last |-> o, max |-> NextMax(e, max)]]

-----------------------------------------------------------------------------

EmptyTables ==
    /\ checkpoint = [p \in Partition |-> [last |-> -1, max |-> None]]
    /\ ingestion_outcome = {}
    /\ quarantine = {}
    /\ seen_event = [i \in EventId |-> None]
    /\ accepted_event = [i \in EventId |-> None]
    /\ correction_exception = [i \in EventId |-> None]

StoreInit == log \in Logs /\ EmptyTables

(* The next arrival of partition p is read, classified against the current
   tables and recorded. *)
Consume(p) ==
    LET o == Expected(p)
    IN  /\ HasArrival(p, o)
        /\ RecordOutcome(p, o, seen_event[Arrival(p, o).id], checkpoint[p].max)
        /\ UNCHANGED log

StoreNext == \E p \in Partition : Consume(p)
StoreSpec == StoreInit /\ [][StoreNext]_storeVars
-----------------------------------------------------------------------------
(* What the store promises. *)

OutcomeRows == [partition : Partition, offset : Nat, verdict : Verdicts]

(* Every table holds rows of its schema (SCHEMA, the CREATE TABLE statements). *)
StoreTypeOK ==
    /\ log \in [Partition -> Seq(Payload)]
    /\ checkpoint \in [Partition -> [last : Nat \cup {-1}, max : Nat \cup {None}]]
    /\ ingestion_outcome \subseteq OutcomeRows
    /\ quarantine \subseteq Partition \X Nat
    /\ seen_event \in [EventId -> (EventId \X Nat \X Body) \cup {None}]
    /\ accepted_event \in [EventId -> AcceptedRows \cup {None}]

CorrectionTypeOK(gens) ==
    correction_exception \in [EventId -> CorrectionRows(gens) \cup {None}]

SameKey(r, s) == r.partition = s.partition /\ r.offset = s.offset
RowKey(r) == <<r.partition, r.offset>>
RowArrival(r) == Arrival(r.partition, r.offset)

(* "raw arrivals = accepted live + accepted late + exact duplicates +        *)
(* quarantined" (README.md:34): the arrivals with an outcome are exactly     *)
(* those up to the checkpoint, each has one outcome, and the quarantine      *)
(* holds exactly the quarantined ones.  The checkpoint, outcome and          *)
(* quarantine rows come from different statements of process_envelopes.      *)
Conservation ==
    /\ \A p \in Partition : checkpoint[p].last < Len(log[p])
    /\ \A p \in Partition : \A o \in 0 .. checkpoint[p].last : HasOutcome(p, o)
    /\ \A r \in ingestion_outcome : r.offset =< checkpoint[r.partition].last
    /\ \A r, s \in ingestion_outcome : SameKey(r, s) => r = s
    /\ \A r \in ingestion_outcome :
          r.verdict \in Quarantining <=> RowKey(r) \in quarantine
    /\ \A k \in quarantine : HasOutcome(k[1], k[2])

(* "event_id plus canonical business payload has at most one accepted        *)
(* effect ... Same identity and same payload is a duplicate; same identity   *)
(* and different payload is quarantine" (ARCHITECTURE.md:60-61): every       *)
(* accepted outcome is the arrival its identity's accepted row came from,    *)
(* and duplicates and conflicts are judged against that very arrival.        *)
OneEffectPerIdentity ==
    /\ \A i \in EventId :
          /\ seen_event[i] = None <=> accepted_event[i] = None
          /\ accepted_event[i] # None =>
                \E r \in ingestion_outcome :
                    /\ SameKey(r, accepted_event[i])
                    /\ r.verdict \in Accepting
                    /\ RowArrival(r).id = i
    /\ \A r \in ingestion_outcome :
          LET e == RowArrival(r)
          IN  CASE r.verdict \in Accepting ->
                      /\ accepted_event[e.id] # None
                      /\ SameKey(r, accepted_event[e.id])
                      /\ accepted_event[e.id].late <=> r.verdict = "ACCEPTED_LATE"
                      /\ seen_event[e.id] = Fingerprint(e)
                [] r.verdict = "DUPLICATE" -> seen_event[e.id] = Fingerprint(e)
                [] r.verdict = "CONFLICT"  -> seen_event[e.id] \notin {None, Fingerprint(e)}
                [] r.verdict = "INVALID"   -> ~e.valid

(* An accepted event is late exactly when an earlier arrival of its own      *)
(* partition is more than the watermark ahead of it.  Lateness therefore     *)
(* depends on the log alone, and survives restarts and races over the        *)
(* stored max_event_time (process_envelopes, _process_one).                  *)
Overtaken(p, o) ==
    \E k \in 0 .. (o - 1) :
        Arrival(p, k).valid /\ Arrival(p, k).time > Arrival(p, o).time + Watermark
LatenessIsReplayable ==
    \A r \in ingestion_outcome :
        r.verdict \in Accepting =>
            (r.verdict = "ACCEPTED_LATE" <=> Overtaken(r.partition, r.offset))

(* A correction row exists for exactly the late accepted events and names    *)
(* the arrival that opened it; until a replay is published it is OPEN.       *)
CorrectionsMatchLate ==
    \A i \in EventId :
        /\ correction_exception[i] # None <=>
              accepted_event[i] # None /\ accepted_event[i].late
        /\ correction_exception[i] # None =>
              SameKey(correction_exception[i], accepted_event[i])

(* One arrival whose values cannot be stored stops its partition for good:    *)
(* the checkpoint is past it only if another arrival, of any partition, had   *)
(* taken its event_id, so that it was settled as a duplicate or a conflict.   *)
UnbindableStopsPartition ==
    \A p \in Partition : \A o \in 0 .. checkpoint[p].last :
        Arrival(p, o) \in Unbindable =>
            LET taken == accepted_event[Arrival(p, o).id]
            IN  /\ Arrival(p, o).valid
                /\ taken # None
                /\ <<taken.partition, taken.offset>> # <<p, o>>

(* Strengthening of LatenessIsReplayable: the stored max_event_time is the   *)
(* latest event time of the contract-valid arrivals up to the checkpoint.    *)
MaxIsPrefixMax ==
    \A p \in Partition :
        LET seen == {k \in 0 .. checkpoint[p].last : Arrival(p, k).valid}
        IN  /\ checkpoint[p].max = None <=> seen = {}
            /\ checkpoint[p].max # None =>
                  /\ \A k \in seen : Arrival(p, k).time =< checkpoint[p].max
                  /\ \E k \in seen : Arrival(p, k).time = checkpoint[p].max
=============================================================================
