---------------------------- MODULE StreamIngestion ----------------------------
(***************************************************************************)
(* The stream from Kafka to Iceberg (src/spark_jobs/stream_ingestion.py    *)
(* with the contract gate of transforms.py).                               *)
(*                                                                         *)
(* Structured Streaming plans a microbatch by writing its end offsets to   *)
(* the checkpoint, runs write_microbatch, and then marks the batch         *)
(* committed; a restarted query runs a planned batch again.  Bronze and    *)
(* quarantine are two tables, appended to one after the other, and each    *)
(* append reads the records from Kafka anew.  The query may die anywhere   *)
(* in between, and records may leave the topic by retention.               *)
(***************************************************************************)
EXTENDS Integers, Sequences, FiniteSets

CONSTANTS
    Partition,       \* the Kafka partitions of the topic
    Field,           \* the required fields of the contract
    TimeField,       \* event_time and arrival_time
    Records,         \* the records producers send
    TimestampTexts,  \* whether Spark's text of a timestamp ends in a zone
    MaxRecords,      \* bound on the records of the topic (model bound)
    MaxAttempts,     \* bound on the starts of the query (model bound)
    None

(* What a required field of the JSON document holds.  A document that does
   not parse has a null map and null fields. *)
Contents == {"null", "conforming", "nonconforming"}
TimeContents == {"null", "zoned", "unzoned", "unparsable"}
Record ==
    {r \in [map : {"null", "known", "unknown"},
            field : [Field -> Contents \cup TimeContents]] :
        \A f \in Field :
            r.field[f] \in IF f \in TimeField THEN TimeContents ELSE Contents}

Offsets == [Partition -> Nat]

ASSUME RecordsAssumption == Records \subseteq Record
ASSUME FieldAssumption == TimeField \subseteq Field
ASSUME TextsAssumption == TimestampTexts \subseteq BOOLEAN
ASSUME BoundAssumption == MaxRecords \in Nat /\ MaxAttempts \in Nat
ASSUME StreamNoneAssumption ==
    None \notin Offsets \cup [first : Offsets, next : Offsets]

VARIABLES
    topic,       \* per partition, the records by offset
    retained,    \* per partition, the first offset retention has not removed
    zoned,       \* the form of Spark's timestamp text, one of TimestampTexts
    start,       \* the offsets the first start found, or None
    planned,     \* end offsets of the last planned batch
    committed,   \* end offsets of the last committed batch
    bronze,      \* rows [key, by] of bronze: the record and the start that wrote it
    quarantine,  \* rows of contract quarantine
    query,       \* what the running query does next, or "down"
    attempt      \* starts of the query so far

checkpoint == <<start, planned, committed>>
vars == <<topic, retained, zoned, checkpoint, bronze, quarantine, query, attempt>>

At(key) == topic[key[1]][key[2] + 1]
Ends == [p \in Partition |-> Len(topic[p])]
Keys(first, next) ==
    UNION {{<<p, o>> : o \in first[p] .. (next[p] - 1)} : p \in Partition}

-----------------------------------------------------------------------------
(* The contract gate, in SQL's three-valued logic. *)

Holds(b) == IF b THEN "true" ELSE "false"
AnyOf(values) ==
    CASE "true" \in values -> "true"
      [] "true" \notin values /\ "null" \in values -> "null"
      [] OTHER -> "false"

(* decode_kafka: to_timestamp turns a time into a timestamp, with the session's
   zone if it names none, and into NULL if it cannot read it.  What the gate's
   rlike sees of it is Spark's text of that timestamp. *)
Column(r, f) ==
    CASE f \notin TimeField -> r.field[f]
      [] f \in TimeField /\ r.field[f] \in {"null", "unparsable"} -> "null"
      [] OTHER -> IF zoned THEN "conforming" ELSE "nonconforming"

IsNull(r, f) == Holds(Column(r, f) = "null")
Violates(r, f) ==
    IF Column(r, f) = "null" THEN "null" ELSE Holds(Column(r, f) # "conforming")

GateWithoutNullTests(r) ==
    AnyOf({Holds(r.map = "unknown")} \cup {Violates(r, f) : f \in Field})

(* gateway_contract_invalid; size of a null array is -1, so no unknown field. *)
ContractInvalid(r) ==
    AnyOf({IsNull(r, f) : f \in Field}
             \cup {Holds(r.map = "null"), Holds(r.map = "unknown")}
             \cup {Violates(r, f) : f \in Field})

ToBronze(keys) == {k \in keys : ContractInvalid(At(k)) = "false"}
ToQuarantine(keys) == {k \in keys : ContractInvalid(At(k)) = "true"}

-----------------------------------------------------------------------------
(* Producers, retention, and the query's life. *)

Init ==
    /\ topic = [p \in Partition |-> <<>>]
    /\ retained = [p \in Partition |-> 0]
    /\ zoned \in TimestampTexts
    /\ start = None /\ planned = None /\ committed = None
    /\ bronze = {} /\ quarantine = {}
    /\ query = "down"
    /\ attempt = 0

Produce(p, r) ==
    /\ Cardinality(Keys([q \in Partition |-> 0], Ends)) < MaxRecords
    /\ topic' = [topic EXCEPT ![p] = Append(topic[p], r)]
    /\ UNCHANGED <<retained, zoned, checkpoint, bronze, quarantine, query, attempt>>

Expire(p) ==
    /\ retained[p] < Len(topic[p])
    /\ retained' = [retained EXCEPT ![p] = retained[p] + 1]
    /\ UNCHANGED <<topic, zoned, checkpoint, bronze, quarantine, query, attempt>>

(* startingOffsets "latest" counts only while the checkpoint is empty; later
   starts resume it, with the planned batch if that is not committed. *)
Resumed == IF planned # committed THEN "bronze" ELSE "idle"
Start ==
    /\ query = "down"
    /\ attempt < MaxAttempts
    /\ attempt' = attempt + 1
    /\ IF start = None
       THEN /\ start' = Ends /\ planned' = Ends /\ committed' = Ends
            /\ query' = "idle"
       ELSE /\ UNCHANGED checkpoint
            /\ query' = Resumed
    /\ UNCHANGED <<topic, retained, zoned, bronze, quarantine>>

(* The process dies; the last start considered is not killed. *)
Crash ==
    /\ query # "down"
    /\ attempt < MaxAttempts
    /\ query' = "down"
    /\ UNCHANGED <<topic, retained, zoned, checkpoint, bronze, quarantine, attempt>>

-----------------------------------------------------------------------------
(* One microbatch. *)

AllHaveNews == \A p \in Partition : committed[p] < Len(topic[p])
HasNews == \E p \in Partition : committed[p] < Len(topic[p])
PlanBatch ==
    /\ query = "idle"
    /\ HasNews
    /\ planned' = Ends
    /\ query' = "bronze"
    /\ UNCHANGED <<topic, retained, zoned, start, committed, bronze, quarantine, attempt>>

SinceStart == Keys(start, planned)
Batch == Keys(committed, planned)

(* failOnDataLoss "true": a batch is read whole or not at all. *)
LossIgnored == TRUE
Readable == \A k \in Batch : k[2] >= retained[k[1]]

Rows(keys) == {[key |-> k, by |-> attempt] : k \in keys}
(* What a read of the batch returns. *)
StillThere == {k \in Batch : k[2] >= retained[k[1]]}

(* The two appends of write_microbatch, each one Iceberg commit. *)
AppendBronze ==
    /\ query = "bronze"
    /\ Readable
    /\ bronze' = bronze \cup Rows(ToBronze(StillThere))
    /\ query' = "quarantine"
    /\ UNCHANGED <<topic, retained, zoned, checkpoint, quarantine, attempt>>

AppendQuarantine ==
    /\ query = "quarantine"
    /\ Readable
    /\ quarantine' = quarantine \cup Rows(ToQuarantine(StillThere))
    /\ query' = "commit"
    /\ UNCHANGED <<topic, retained, zoned, checkpoint, bronze, attempt>>

(* Records of the batch have left the topic: the query ends with an error. *)
DataLoss ==
    /\ query \in {"bronze", "quarantine"}
    /\ ~Readable
    /\ query' = "down"
    /\ UNCHANGED <<topic, retained, zoned, checkpoint, bronze, quarantine, attempt>>

CommitBatch ==
    /\ query = "commit"
    /\ committed' = planned
    /\ query' = "idle"
    /\ UNCHANGED <<topic, retained, zoned, start, planned, bronze, quarantine, attempt>>

Trigger == PlanBatch \/ AppendBronze \/ AppendQuarantine \/ CommitBatch

Next ==
    \/ \E p \in Partition : Expire(p) \/ \E r \in Records : Produce(p, r)
    \/ Start
    \/ Crash
    \/ Trigger
    \/ DataLoss

Spec == Init /\ [][Next]_vars

(* The trigger fires every 30 seconds while the query runs, and whoever runs
   the stream starts it again when it has ended. *)
FairSpec == Spec /\ WF_vars(Trigger) /\ WF_vars(Start)

-----------------------------------------------------------------------------
KeysOf(rows) == {r.key : r \in rows}
TableRows == [key : Partition \X Nat, by : Nat]

(* The checkpoint has the shape Structured Streaming gives it: nothing before
   the first start, a planned batch while write_microbatch runs, offsets that
   never pass the end of the topic. *)
TypeOK ==
    /\ topic \in [Partition -> Seq(Records)]
    /\ retained \in Offsets
    /\ zoned \in BOOLEAN
    /\ start = None => attempt = 0 /\ planned = None /\ committed = None
    /\ start # None =>
          /\ {start, planned, committed} \subseteq Offsets
          /\ \A p \in Partition :
                /\ start[p] =< committed[p]
                /\ committed[p] =< planned[p]
                /\ planned[p] =< Len(topic[p])
    /\ bronze \subseteq TableRows /\ quarantine \subseteq TableRows
    /\ query \in {"down", "idle", "bronze", "quarantine", "commit"}
    /\ query = "idle" => start # None /\ planned = committed
    /\ query \in {"bronze", "quarantine", "commit"} => start # None
    /\ attempt \in 0 .. MaxAttempts

(* The gate decides every document, and as the contract reads: no unknown and
   no missing field, every field well formed, every time readable and, in
   Spark's text of it, with a zone (gateway_contract_invalid).  A verdict NULL
   would fail both WHERE clauses of write_microbatch. *)
WellFormed(r, f) ==
    IF f \in TimeField THEN zoned /\ r.field[f] \in {"zoned", "unzoned"}
                       ELSE r.field[f] = "conforming"
GateDecides ==
    \A r \in Record :
        ContractInvalid(r) =
            Holds(~(r.map = "known" /\ \A f \in Field : WellFormed(r, f)))

(* Every record between the first start and the committed offsets is in
   exactly one of the two tables, the one its verdict names, and neither holds
   anything the checkpoint has not planned: whatever crashes between the two
   appends of write_microbatch, a committed batch was appended to both. *)
RoutedOnce ==
    /\ KeysOf(bronze) \cap KeysOf(quarantine) = {}
    /\ start = None => bronze = {} /\ quarantine = {}
    /\ start # None =>
          /\ Keys(start, committed) \subseteq KeysOf(bronze) \cup KeysOf(quarantine)
          /\ KeysOf(bronze) \cup KeysOf(quarantine) \subseteq Keys(start, planned)
          /\ KeysOf(bronze) = ToBronze(KeysOf(bronze))

(* A record may be in a table twice, once per start that ran its batch, but
   only while the batch is open: the rows below the committed offsets are
   final, which is what lets a source manifest pin a snapshot and a range. *)
RowsBelow(rows, first, next) == {r \in rows : r.key \in Keys(first, next)}
CommittedIsFinal ==
    [][start # None =>
          /\ RowsBelow(bronze', start, committed) = RowsBelow(bronze, start, committed)
          /\ RowsBelow(quarantine', start, committed)
                = RowsBelow(quarantine, start, committed)]_vars

(* Readers that stop at the committed offsets see whole batches appear, in
   both tables at once, and every record captured once, through any number of
   crashes between the appends (foreachBatch, the checkpoint). *)
Cut(rows) ==
    IF start = None THEN {} ELSE KeysOf(RowsBelow(rows, start, committed))
Captured == INSTANCE BronzeCapture WITH
    Record <- Records,
    admitted <- {r \in Records : ContractInvalid(r) = "false"},
    frontier <- IF start = None THEN None ELSE [first |-> start, next |-> committed],
    bronze <- Cut(bronze),
    quarantine <- Cut(quarantine)
CapturesWholeBatches == Captured!Spec

(* Unless retention overtakes the query, every record sent after its first
   start is captured, however often it is killed. *)
Lost == start # None /\ \E p \in Partition : committed[p] < retained[p]
Due(p, o) == start # None /\ o \in start[p] .. (Len(topic[p]) - 1)
EventuallyCaptured ==
    []~Lost =>
        \A p \in Partition : \A o \in 0 .. (MaxRecords - 1) :
            Due(p, o) ~> (start # None /\ o < committed[p])

(* The records the contract document calls valid. *)
Conforming(r) ==
    /\ r.map = "known"
    /\ \A f \in Field : r.field[f] = IF f \in TimeField THEN "zoned" ELSE "conforming"

(* "Spark Structured Streaming records valid events in Iceberg bronze and only
   hashes/redacted diagnostics in contract quarantine" (docs/ARCHITECTURE.md:18):
   no conforming record is in quarantine. *)
ValidReachesBronze == \A r \in quarantine : ~Conforming(At(r.key))
=============================================================================
