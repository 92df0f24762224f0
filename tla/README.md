# PulseStream: TLA+ models, model checks and proofs

PulseStream turns partitioned engagement events into *generations*: bundles of
four tables (curated events, sessions, aggregates, corrections) that become
visible all at once when a pointer moves. The repository has two
implementations of that idea: a local SQLite store (`src/pulsestream/store.py`)
that its docs call the executable oracle, and a production path of Spark jobs,
an Airflow DAG and two Lambdas over DynamoDB. This directory models both.
Paths below are relative to the repository root.

## 1. Inventory

| Component | State it keeps | Operations | Makes it correct |
|---|---|---|---|
| Local ingestion, `PulseStore.process_envelopes` | SQLite tables `checkpoint`, `ingestion_outcome`, `quarantine`, `seen_event`, `accepted_event`, `correction_exception` | one loop iteration per envelope: three SELECTs, then one write transaction | every arrival has exactly one outcome; one accepted effect per `event_id`; lateness is a function of the partition's log; restarts and racing processes change nothing |
| Local generations, `build_generation`, `publish` | `generation`, `publication_pointer`, artifact directories, correction status | build (several connections, files, INSERT), publish (one transaction) | bundles agree with their manifest; the pointer moves only from parent to child; corrections are resolved by replays that contain them |
| Publication controller: `register_generation`, `publish_generation`, `aws_publication.py` | DynamoDB item per generation, `ACTIVE#engagement` item, manifest objects in S3 | put-if-absent; two reads and a transaction | same pointer discipline under concurrent, stale and repeated invocations |
| Generation job, `spark_jobs/generation_builder.py`, `transforms.py`, `branching.py` | Iceberg branches and snapshots, the manifest | classify, gate identities against the parent, correct, advance the frontier | one curated row per identity along any chain of generations; nothing in a frontier lost; corrections agree with the curated table |
| Stream ingestion, `stream_ingestion.py`, `gateway_contract_invalid` | streaming checkpoint, bronze and contract quarantine tables | plan a microbatch, append to one table, to the other, commit | below the committed offsets each Kafka record is in the one table its verdict names, captured once and for good |
| Airflow DAG, `pulsestream_generation.py` | the tasks of the one active run, EMR jobs and invocations it waits for | build, register, publish in sequence | a run that succeeds has published; one that fails undisturbed has a reason; every run ends |
| Sessions and aggregates (`_sessions`, `_aggregates`, `sessionize_batch`, `engagement_aggregates`) | none | pure functions | sessions are those of the definition whatever the order of arrival; local and Spark agree; nothing counted twice |
| dbt mart | `fct_daily_engagement` | incremental and full refresh | equals the active bundle's aggregates, as far back as its window reaches |
| Contract, rules, source manifest, publication manifest | none | validation and digests | decision lists over one document |
| Evidence run, generator, CLI, Terraform, scripts | files | one scripted scenario; declarations | (not concurrent, no protocol) |

How they interact: ingestion and builds share the SQLite file and nothing else;
a build reads what ingestion has committed so far, in pieces; `publish` changes
correction rows that ingestion creates. In production the stream writes bronze,
the job reads bronze and the parent's snapshots and overwrites a manifest
object, the register Lambda copies parent and digest of that object into an
item, and the publish Lambda moves the pointer by a transaction whose
conditions are computed from two earlier reads.

What is hard about it: reads outside the transaction that uses them; bundles
assembled from several reads; state that a later step assumes unchanged since
an earlier one (OPEN corrections, the manifest object, the pointer version);
calls repeated after a crash or a lost answer; and sequences of legal
operations (replay, then live) whose combination nobody tested. PROJECT.json
lists each at its line under `hazards`.

## 2. Modules

```
EventStore  <---- ConcurrentIngestion      (implements EventStore)
    ^---- StorePublication  ---------.
                                      >--- ActivePointer (both implement it)
          AwsPublication -------------'
              ^---- GenerationDag          (adds the DAG that calls the handlers)
          GenerationBuilder                (writes the manifests of AwsPublication)
BronzeCapture <---- StreamIngestion        (implements BronzeCapture)
          EngagementTables <---- DailyEngagementMart
EventStoreProofs <---- ConcurrentIngestionProofs, StorePublicationProofs
ActivePointerProofs <---- StorePublicationProofs, AwsPublicationProofs
GenerationBuilderProofs, StreamIngestionProofs, DailyEngagementMartProofs
MCIngestion, MCStorePublication, MCAwsPublication, MCGenerationBuilder,
MCGenerationDag, MCStreamIngestion, MCEngagement
```

**EventStore** is what local ingestion promises: `Consume(p)` takes the next
arrival of partition `p`, classifies it (`Verdict`) and records everything at
once (`RecordOutcome`). Variables are the SQLite tables; `log` is the
partitioned history that `load_envelopes` yields. An arrival is a record of
what classification looks at: whether `validate_event` accepts it, its
`event_id`, its time in minutes, and the rest of its identity payload.
`arrival_time` is outside the fingerprint in the code and is left out.
`Unbindable` are payloads some value of which SQLite cannot bind (a `page_id`
that is a list, say: `validate_event` checks no type there): any INSERT of them
raises, unless the arrival turns out a duplicate or a conflict, whose rows hold
checked values only.

**ConcurrentIngestion** is `process_envelopes` as it runs. `worker[w]` is the
local state of one call. The three SELECTs (`SelectExisting`,
`SelectCheckpoint`, `SelectIdentity`) are separate actions because sqlite3
starts a transaction only at the first INSERT; the INSERTs, the checkpoint
upsert and `commit()` are one action (`Commit`), which either takes effect or,
when a primary key is taken or a value cannot be bound, rolls back (`RollBack`). The gap test raises in
`SelectCheckpoint`. `Crash` is a process death or `fail_after_commits`;
`CallAgain` is the same call made again. A lock timeout (`database is locked`)
has the effect of `Crash`.

**StorePublication** composes `EventStore` with builds and publications.
A build is `BeginBuild` (reads the events), `ReadCorrections`, `MakeDirectory`,
`ReadOffsets`, `InsertCandidate`, each on the connection or file-system call it
has in the code, so ingestion, publication and other builds run in between;
`AbortBuild` is the death of the building process. `Publish` and `Supersede`
are the two outcomes of the `BEGIN IMMEDIATE` transaction, the second committing
the demotion before it raises. The code does not check that the parent a caller
names exists; the model lets callers name nothing or a published generation,
which is what `run_evidence` and the documents do. It has one directory per id:
`artifact_root` is a parameter of `build_generation`, and all builds of a
database are taken to pass the same one, as `run_evidence` does. Below different
roots `mkdir` would keep no two builds of an id apart, and `OneWriterPerBundle`
and `AbandonedForGood` would not hold.

**ActivePointer** is the abstract specification of publication: a
compare-and-swap of one pointer from parent to child. `lineage` is the set of
published generations with the parent each replaced.

**AwsPublication** has one action per request of the two handlers: `ReadManifest`
and `PutItem` for registration, `ReadCandidate`, `ReadPointer` and `Transact`
for publication. What operators ask for is a record of `Requests`: generation,
mode, source ranges, the URI of the parent's manifest, the URI to write to.
`manifest` holds the object at each URI, so two generations may be sent to one
URI and a parent may be any object. `WriteManifest` is a run of the generation
job, seen only through the object it overwrites; digests are fresh numbers
because snapshot identifiers are part of what they cover. `JobAccepts` is what
the job does not refuse: a source manifest that `validate_source_manifest` takes
(`ValidSource`), an output that is an S3 location, a parent for a REPLAY, a
readable and valid parent manifest, LIVE ranges that continue its frontier
(`Continues`). `source = None` stands for a document refused by its shape or
whose bronze snapshot cannot be read, `output = None` for a text that is no
location. `Registrable` is what the register handler asks before it writes: the
approved bucket, a valid manifest, the generation and mode of the request. A
request it turns down touches no table; it is `TurnAway` in GenerationDag.
`GiveUp` is a cancelled transaction, a refused put or a timeout.
`NullTextAccepted` says whether the client library
takes `{"NULL": "true"}`, which `registration_item` sends for a missing parent;
the properties are proved for both values. A deployment is taken to load: rules,
source registry, environment variables, the implementation digest, and
parameters within the patterns that Airflow checks.

The job reads its parent early and writes late; the model does both in one step.
That loses only the runs in which another job overwrites the parent's object in
between. Such a run leaves the objects as if it had ended before the
overwriting, unless it writes to the very URI it took its parent from, which the
model does not show. An undisturbed DAG run has no other job beside it.

**GenerationBuilder** is the Spark job over any tree of generations. `log` is
the Kafka history, `bundle[g]` what the manifest of `g` binds: parent, mode,
input ranges, frontier, and the rows of the curated and correction snapshots. A
row is the arrival it was made from and the generation that added it. The one
action, `Build`, is a run of `main()` that completes: the job reads snapshots
named in manifests, which never change, and writes its own manifest last, so
what runs concurrently (another job, the stream) cannot be seen by it, and a
run that dies leaves nothing another run reads. Inside it, `BeyondWatermark`,
`FirstArrivals`, `BatchConflicts`, `Unknown`, `ParentConflicts`, `Resolve`,
`NewLateRows` and `ConflictRows` are the DataFrame steps in their order.
`dropDuplicates` keeps an arbitrary row, so the fingerprint the parent gate
compares with is chosen freely (`OnePerId`). Nothing in the job checks that the
parent is published or that a REPLAY re-reads ranges of its parent's frontier,
so nothing in the model does either; the properties that need the second say so
(`ReplaysArePinned`). The job believes its source manifest: the model takes
ranges whose records bronze holds, each once. A record that a retried microbatch
appended twice has the same partition, offset and payload. The copy of an
accepted arrival or of a duplicate is a duplicate and changes no table; the copy
of a conflict is a conflict again, so its conflict row is written twice, which
the model, taking each record once, does not show.

**GenerationDag** adds the DAG to AwsPublication. `dag` is the one active run
(`max_active_runs=1`): its request (the parameters), its task and the one
before, the invocation it waits for and the answer that came. `jobs` are EMR job
runs that have not ended. Tasks move on by `JobCompletes`, by `JobRaises` when
the job refuses the request, by `Invoke` or `TurnAway`, the handler's requests
(`Register`, `LookUp`, `Swap`, `Refuse`: the actions of AwsPublication, which now
answer) and `Receive`. `JobDies`, `TimesOut`, `AnswerLost` (the client library
invokes again) and `TaskLost` are faults; `JobDies` is left for what is outside
the tables: lost executors, commit conflicts, snapshots that maintenance has
expired. A handler or job whose task is gone runs on, and `Trigger` may start
the next run, for the same generation too, while it does. The DAG configures no
retries, so a task that fails ends the run.

**BronzeCapture** is what the stream promises a reader who stops at the
committed offsets: whole batches appear in both tables at once. GenerationBuilder
takes its source ranges from such a cut. **StreamIngestion** is the stream:
`Start` (the first one fixes `startingOffsets`, later ones resume the
checkpoint), `PlanBatch`, `AppendBronze`, `AppendQuarantine`, `CommitBatch`, with
`Crash` between any two, `Expire` for retention and `DataLoss` for
`failOnDataLoss`. `ContractInvalid` is the gate in three-valued logic, over
documents whose fields are null, conforming or not. `Column` is the cast of the
two times; `zoned` says whether the text Spark gives a timestamp ends in a zone.
It does not in Spark 3.5, whose gate then refuses every record, so the other
reading is checked as well: it shows what holds once that is repaired.
Kafka and the checkpoint are external and modelled by what the options ask for.

**EngagementTables** holds the pure functions: `LocalSessions` and
`LocalAggregates` (`store.py`), `SparkSessions` and `SparkAggregates`
(`transforms.py`), and `ReferenceSessions`, which sorts nothing: an event opens
a session if no earlier event of its user is within the gap, and belongs to the
last one opened before it. Time is in ticks, so that events fall inside a second
and days are short; the store sees the wall clock and zone of the producer's
text, Spark the instant. `InOrder` is an ordered enumeration of a set, which is
what ORDER BY and the Spark window give when the order is total: event ids are
unique in a bundle (one `accepted_event` row per id in the store,
`OneRowPerIdentity` in the job), so they break every tie. Texts that end in an
offset differ at the sign first (`+` sorts below `-`) and then at the digits, and
`ZoneBefore` says just that. **DailyEngagementMart** puts the mart on top of a curated
table that publications extend: `Refresh` is an incremental dbt run (delete+insert
on the unique key, three-day window), `FullRefresh` a full one. `missed` and
`fresh` are ghosts that say where the mart may be behind. That the dbt source is
the active generation's table is what `docs/ARCHITECTURE.md:28` says; nothing
in the repository binds it.

Operators that stand just before a definition and are used by nothing else
(`VerdictById`, `AnyParent`, `ExistOk`, ...) are faulty variants of it: each
property is known to fail when the variant replaces the definition
(`mutants` in PROJECT.json), so no property holds merely by the shape of a model.

## 3. What the runs check

| Run | Question | Instance |
|---|---|---|
| `ingestion` | Is concurrent ingestion indistinguishable from atomic ingestion, what does a failed call mean, and does repeating failed calls settle everything? | 2 partitions, histories of 3 + 1 arrivals over six payloads (leading, conflicting, late, exactly on the boundary, invalid, unbindable), 2 processes over overlapping feeds in opposite or equal orders, 1 crash, any number of repeated calls; 613,256 states |
| `store_publication` | Do bundles, corrections, directories and the pointer stay consistent? | 2 generations, 2 builders, a late event arriving at any moment; 408,764 states |
| `aws_publication` | Do racing Lambdas keep the pointer discipline? | 3 generations, 3 URIs of which 2 are approved, 2 concurrent invocations, 3 job runs, LIVE without parent or REPLAY on any URI; 85,851 states up to symmetry |
| `generation_builder` | Does the job keep its promises along any chain of generations, however the log is cut? | 3 runs, all histories of 3 arrivals (in one partition or 2 + 1) over a leading, a late, a conflicting and a newer event, one possibly invalid; every range and parent; 207,586 states up to symmetry |
| `generation_dag` | What does the outcome of a DAG run say about the tables, and does every run end? | 2 generations, 9 requests (listed below), 2 Lambda slots, 3 runs, 2 faults of any kind; 139,295 states |
| `stream_ingestion` | Do crashes between the appends, restarts and retention lose or duplicate records? | 2 partitions, 3 records (one the gate admits, one it refuses), 2 starts, both readings of `zoned`; 133,940 states |
| `analytics` | Are sessions and aggregates the defined ones in every order of publication, and is the mart the bundle's? | three events of a user around a midnight in two zones and on half seconds, or of two users up to five days apart, 46,854 states |
| `boundary_carried`, `replay_corrects`, `resolved_is_active`, `rebuild_after_register`, `valid_reaches_bronze` | Statements of the documents that the code does not keep | the same instances (one builder for the store, `zoned` false for the stream) |

Properties, by the question they answer:

- *Nothing lost, nothing twice*: `Conservation`, `OneEffectPerIdentity`,
  `LatenessIsReplayable`; for the stream `RoutedOnce`, `CommittedIsFinal` (rows
  below the committed offsets never change, which is what lets a source manifest
  pin a snapshot and a range) and `CapturesWholeBatches` (refinement of
  BronzeCapture).
- *Why races are harmless*: `ConsumesAtomically` (refinement of EventStore),
  `FailureHasAWinner` (an exception always means that another process settled
  the arrival or took the identity, or that the arrival cannot be stored).
- *One bad arrival*: `UnbindableStopsPartition` (its partition stops there),
  `GateDecides` (the gate never answers NULL, which both WHERE clauses would drop).
- *Bundles*: `BundleWithinFrontier` (the events of a bundle are what one moment
  held, never newer than its offsets; its corrections are read on another
  connection), `LateOnlyThroughReplay`, `CorrectionsFollowPublication`,
  `OneWriterPerBundle`, `AbandonedForGood` (an id whose build died past `mkdir`
  is never built).
- *The pointer*: `PublishesByCompareAndSwap` (refinement of ActivePointer),
  `FrontierNeverRewinds`, `PointerNamesPublishedItem`, `RegisteredOnce`,
  `LosersStayCandidates` (a candidate whose parent was replaced by a sibling is
  never published, although nothing marks it).
- *The DAG*: `SuccessIsPublished`; `FailureHasReason` (an undisturbed run fails at
  build only if the job refuses its request, at register only for an unapproved
  bucket, an attribute that cannot be sent or an earlier registration, at publish
  only if its parent is not active; never because the object read back is not
  the one it built); `RerunNeverPublishes` (an
  item that exists stops every later run of its generation at register).
- *The job*: `OneRowPerIdentity` (both identity gates along any chain),
  `CorrectionsAgree` (OPEN exactly while no curated row has the `event_id`),
  `FrontierIsTiled` (no gap, no overlap, replays change nothing), `Conserved`
  (the frontier's contract-valid fingerprints are the two tables', however the
  log was cut into runs), `LateIsJustified` (no false alarm: lateness only
  from the same partition's earlier offsets).
- *Analytics*: `SessionsAreCanonical`, `AggregatesAgree`, `CountsAddUp`,
  `SessionsOnlyMerge` (corrections join sessions and never split one),
  `MartMatchesBundle`. The first two carry the conditions under which they hold,
  each of them necessary: one zone for the store's sessions, whole seconds for
  Spark's, UTC for equal dates. Dates on the Spark side are cut in the time zone
  of the session, which is taken to be UTC; nothing in the repository sets it.
- *Progress*: `EventuallySettled`, `EventuallyCaptured`, `RunEnds`,
  `CleanRunPublishes`.

Why the bounds are enough: classification looks at one stored fingerprint and
one stored maximum, so three arrivals in one partition and one in another
reach every verdict against every predecessor, and two processes reach every
pair of interleaved reads and writes; the proofs remove these bounds. In
`store_publication` two builders and two generations reach a build that
straddles an arrival, a publication and another build of the same id. In
`aws_publication` three generations are the least in which a stale version and
a matching parent can be told apart, and three job runs let a registered
manifest be overwritten.

In `generation_builder` three runs are a LIVE run, its child and either a replay
or a second child; three arrivals are an event ahead of time, one behind it and
one that shares its identity, in every order and every cut.

In `generation_dag` three runs let the leftovers of one meet a rerun of the same
generation and a run of another; two faults are a lost answer and a second
mishap while it is repeated. The requests are a first generation, a LIVE and a
REPLAY child (refused too while there is no parent to read), and one of these
with a single parameter changed: a gap behind the frontier, a range that ends
before it starts, a REPLAY without parent, an unapproved bucket, an output that
is no location, a second generation sent to the URI of the first. Each reason of
`FailureHasReason` but `Encodable` occurs in undisturbed runs. In `stream_ingestion` two starts are a batch that
dies half-way and its repetition, and the gate is checked over every document
with one field of each kind, not only over those that are sent. In `analytics`
the gap is two seconds and the day six, so three events reach a gap met
exactly, one missed by half a second, a session over midnight and a text order
that disagrees with the order in time; five days are two more than the window.

Deadlock is checked in the runs of MCIngestion, MCStorePublication,
MCAwsPublication and MCEngagement. MCGenerationBuilder, MCStreamIngestion and
MCGenerationDag say `CHECK_DEADLOCK FALSE`, because there the finite sets of
generations, records and runs are simply used up. `CallAgain` keeps finished ingestion calls
alive; builds may be repeated and fail at the directory; handlers may always be
invoked again.

Fairness. `ingestion` uses `FairSpec`: a running call executes its next statement
(`WF(Step(w))`), and a call that raised is made again (`WF(Retry(w))`). The
second is what `run_evidence` and the operations guide do ("resumes from durable
checkpoints", `docs/OPERATIONS.md:51-52`); it is an assumption about callers.
Nothing forces crashes, the repetition of calls that returned, or any order
between the processes. `stream_ingestion` uses `WF(Trigger)`, the 30-second
trigger of a running query, and `WF(Start)`, the deployment that runs the stream
again when it has ended; the last start that the bound allows is not killed.
`generation_dag` uses weak fairness of jobs, of each handler and of the
scheduler; nobody has to trigger a run. None of them is strong.

## 4. What the code does not keep

1. **Publishing a REPLAY resolves corrections it does not contain**
   (`store.py:423-428`, run `resolved_is_active`): the UPDATE takes every
   row that is OPEN now, including rows opened after the build.
2. **A LIVE generation after a REPLAY drops the corrected events**
   (`store.py:248-252`), which violates `ResolvedIsActive` as well, by a longer
   path than the one TLC reports: LIVE filters on `beyond_watermark`, whatever
   the parent contains. The Spark job unions with the parent's curated table and
   does not have this.
3. **A local REPLAY advances the frontier** (`store.py:360`), against
   `docs/ARCHITECTURE.md:59`; `branching.py` keeps the parent's. No run checks
   it: `ReadOffsets` shows that both modes read the current checkpoints. It
   cannot rewind (`FrontierNeverRewinds`).
4. **A bundle may be older than its frontier** (`store.py:340-360`): events and
   offsets are read on separate connections, so an arrival in between is inside
   the declared offsets and not in the tables. The
   other direction cannot happen (`BundleWithinFrontier`).
5. **A registered generation's manifest can be overwritten**
   (`generation_builder.py:252`, run `rebuild_after_register`), against
   `docs/ARCHITECTURE.md:43`: the pointer then carries a digest that no
   current object has (versioning keeps the old one, `docs/OPERATIONS.md:42`, but
   the item names no version). The guards in DynamoDB do not see it.
6. **The late-data boundary is not fully carried across generations**
   (`generation_builder.py:134-138`, run `boundary_carried`), against
   `docs/PERFORMANCE.md:17-18`: the next run knows only the maximum over the
   parent's curated rows. A duplicate of an event first accepted on another
   partition, or a conflict, moves the boundary inside its batch and is
   forgotten afterwards, so the place where a batch is cut decides whether an
   event is late. The opposite error cannot happen (`LateIsJustified`).
7. **A REPLAY may leave a late event OPEN for ever**
   (`generation_builder.py:145-150`, run `replay_corrects`), against
   `docs/ARCHITECTURE.md:37`: only its OPEN late row is taken out of the known
   identities; a conflict row of the same `event_id` still makes it known.
8. **The stream quarantines every record** (`stream_ingestion.py:54-55`, run
   `valid_reaches_bronze`), against `docs/ARCHITECTURE.md:18-19`: the times are
   timestamps before the gate looks for a zone in their text, which has none.
9. **One arrival that SQLite cannot store stops its partition**
   (`store.py:155-164` and `199`, property `UnbindableStopsPartition`): the
   error is no ContractError, so it is not quarantined and every repeated call
   stops at it again, in all partitions that follow in the feed.
10. **A first generation cannot be registered** as long as the client library
   refuses `{"NULL": "true"}` (`aws_publication.py:42`; the library wants a
   boolean). `CleanRunPublishes` and `FailureHasReason` carry the condition
   (`Encodable`), and `generation_dag` runs with `NullTextAccepted = TRUE`,
   since nothing could be published otherwise.
11. **A run whose register answer was lost cannot be repeated**
   (`RerunNeverPublishes`): its generation stays a candidate, which only an
   invocation of the publish handler outside the DAG can still publish, while its
   parent is active; otherwise a new `generation_id` has to be built. A candidate
   that lost the race stays CANDIDATE too; only the local store marks it
   SUPERSEDED (`docs/ARCHITECTURE.md:43-44`). There the status is all that is
   wrong: once a sibling has replaced the parent it names, no invocation
   publishes it (`LosersStayCandidates`).
12. **The mart never sees corrections older than its window**, and an event
   dated in the future moves the window past today (`MartMatchesBundle` says
   exactly which keys stay wrong until a full refresh).

## 5. What is proved

All theorems are for every value of the constants: any sets of partitions,
identities, processes, generations and invocations, any feeds and histories.

- **EventStoreProofs, `StoreCorrect`.** The store's invariants are not
  inductive alone: lateness is decided on the stored maximum, so
  `MaxIsPrefixMax` (the stored maximum is the maximum over the contract-valid
  prefix) is added, and one step is followed through every table.
- **ConcurrentIngestionProofs.** `IInv` adds to the store's invariant the facts
  about a call in flight: `ReadsHold` and `CallProgress`. The
  central observation: if the arrival is still without an outcome, its
  partition's checkpoint has not moved, because only this arrival could have
  moved it; so the maximum read is current. Otherwise the primary key of
  `ingestion_outcome` refuses the commit. `seen_event` rows never change once
  written, so a fingerprint that was found is current; one that was not found may be
  stale, and then the primary key of `seen_event` refuses. From it follow
  `IngestionCorrect` and its parts, `FailuresAreLostRaces` and
  `IngestionRefinesStore`. `UnbindableOutcomes` (an unbindable arrival has the
  verdict of a duplicate or a conflict) is the part of the store's invariant
  from which `UnbindableBlocks` follows: the identity was taken by an arrival
  with another verdict, hence by another arrival.
- **StorePublicationProofs.** Every step makes the store *grow* (`StepGrows`):
  accepted rows are never rewritten, a new one lies beyond the checkpoint of its
  partition, checkpoints and published rows stay. So what a build has read stays
  true while arrivals, publications and other builds run (`EventsKept`,
  `CorrectionsKept`, `OffsetsKept`), and `PubInv` says of a build at each place
  what it has read, and the same of the row it leaves. `BundleWithinFrontier`,
  `LateOnlyThroughReplay`, `CorrectionsFollowPublication` and
  `FrontierNeverRewinds` are read off it; the last because offsets are read after
  the parent was published. `OneWriterPerBundle` needs that a row has a
  directory; with it the INSERT meets no taken key, and `PublishRefinesPointer`
  follows from the comparison with the parent. The refinement then brings
  `PointerCorrect` to the store (`StorePublishesOneLine`); because the published
  generations are one line, what holds between parent and child holds along it,
  and `ActiveReadsFurthest` says it of the active bundle and every earlier one.
  `AbandonedIdsStayUnbuilt`: a directory without a row has no builder past
  `mkdir`, and only such a builder writes the row. The classification lemmas
  are those of EventStoreProofs.
- **ActivePointerProofs, `PointerCorrect`.** The published generations form one
  line whose length is the version.
- **AwsPublicationProofs.** `AwsInv` adds `ReadsMatchItems`: an item's parent
  and digest never change, so what an invocation read of it is what the
  transaction's conditions are about; version, parent and status are re-checked
  by the transaction. `PublicationCorrect`, `ItemsAreRegisteredOnce` and
  `LambdasRefinePointer` follow, and `PublishedOnOneLine` carries
  `PointerCorrect` over to the DynamoDB tables. `LosersAreNeverPublished`: the
  line has one child per parent, in the step as well as before it. The same
  module proves **GenerationDag**. Every step of the DAG's system is a step of
  AwsPublication or leaves its state alone (`DagImplementsHandlers`), which
  carries all of the above over to runs with lost answers and leftovers.
  `SuccessMeansPublished` and `RerunsStopAtRegister` add that PUBLISHED and
  registered are final while an answer is on its way (`OutcomeHolds`).
  `FailuresHaveReasons` is about runs nobody disturbed: in them nothing but the
  run's own job or invocation is active (`Undisturbed`), so the object at its URI
  is the one its job wrote, with the generation and mode of the request
  (`Built`, which leaves the bucket as the only thing `TurnAway` can object to),
  what a handler read is what its transaction meets, and the digest a new job run
  writes is larger than every registered one (`DigestsBelow`). What `JobRaises`
  finds wrong is wrong of request and objects alone, which nothing changes
  before the next run.
- **GenerationBuilderProofs.** `GatesAndFrontier`: the batch gate leaves one
  arrival per identity (`FirstArrivals`), the parent gate none that a curated
  row has, and the union of the two keeps `OneRowPerIdentity`; the frontier is
  extended by ranges that start where it ends, so `FrontierIsTiled`.
  `NothingIsLost` needs a least element: among the arrivals of one identity in
  a batch there is a first (by partition, then offset, from the well-foundedness
  of the naturals), and every other one is its duplicate or a conflict; the
  first is known to the parent with the same fingerprint, a parent conflict, or
  accepted. The invariant adds `RowsInFrontier`, that rows stem from the
  frontier while replays are pinned, and uses that a build changes no other
  bundle, so `ReplaysArePinned` after a step implies it before.
  `CorrectionsAreCurated`: what a pinned REPLAY accepts lies in its parent's
  frontier, so by `Conserved` the parent has its fingerprint; as it is not
  among the known identities, only an OPEN late row can hold it, and an
  identity has one late row. That row is the one resolved. `NoFalseAlarm`
  traces a carried watermark to a curated row of the same partition at an
  earlier offset.
- **StreamIngestionProofs.** The gate never answers NULL, because a disjunct
  that is NULL stands beside the `IS NULL` test of its column, which is then
  TRUE (`GateDecidesEveryDocument`). The invariant behind the rest is
  `RoutedOnce` with `AppendsHold`: quarantine holds refused records only, and a
  batch that has passed an append is in that append's table. Hence
  `RecordsRoutedOnce` and `CommittedRowsStay` (a batch starts where the
  checkpoint ends, so none of its rows lies below), and `StreamRefinesCapture`,
  where the commit is the one step of BronzeCapture.
- **DailyEngagementMartProofs**, for any histories and any day, second and gap.
  *The mart* (`MartIsTheBundle`). That the mart equals the bundle after a
  dbt run is not inductive, because publications come in between. `MartInv` says
  what survives them: no row counts more than the bundle holds for its key; a
  missed key lies before the window and its row, if it has one, counts less; every other key is
  exact before the window, and everywhere right after a run. A run replaces the
  keys in the window, and the window never goes back, because the newest date
  stays in the mart (`WindowAdvances`).
  *Sessions* (`SessionsAreDefined`). A finite set has an enumeration in any
  strict total order (`SortExists`), so `InOrder` is one; the runs between gaps
  tile it (`RunsTile`), every run is a session (`RunIsSession`), and a cut at a gap of consecutive
  events is an opener of `ReferenceSessions`, which looks at all earlier ones
  (`GapsOpen`). This needs an order that agrees with time: one zone in the
  store, whole seconds in Spark.
  *Counts* (`CountsBalance`). A sum over groups is the size of what the groups
  share out (`SumOfShares`); events are shared out by rows, and by the runs of
  each user's order whether or not it agrees with time, so this holds in any
  zone and at any fraction.
  *Agreement* (`OracleAndJobAgree`). In UTC text order is the order in time and the
  first ten characters are the date; both sides then have the same sessions and
  the same rows.
  *Merging* (`LaterBundlesMerge`). Two events share a Spark session exactly if
  they are linked: from the earlier one up to the later, every event has a later one not
  apart from it (`SessionIsLinked`, `LinkIsInSession`). More events keep the links
  (`LinksSurvive`), and bundles only grow.

Assumptions on constants: `Watermark` is positive (enforced by
`session_rules_from_dict`), `None` is not a value or row of the data nor a
generation, feeds and histories are sequences of the right types, the histories
of the mart are finite sets with one event per id, a day and the session gap are
whole seconds, partitions are numbered, `MaxBuilds` and `MaxCrashes` are
naturals, requests are records of the parameters' types, approved URIs are URIs.
`FailureHasAWinner` speaks of feeds in offset order without gaps,
which is how `load_envelopes` sorts them.

Proved and not in a run of its own, because the refinement or the invariant
they follow from is checked there: `CorrectionsMatchLate`, `ReadsHold`,
`PublishedLine` (store and DynamoDB), `ActiveIsFurthest` and the type invariants
of AwsPublication, GenerationBuilder, GenerationDag and StreamIngestion.

Only model-checked: the four liveness properties (`EventuallySettled`,
`EventuallyCaptured`, `RunEnds`, `CleanRunPublishes`); with fairness and ENABLED
they are outside the proof system's reach. So is induction over data, as the
library states it, with an operator as parameter. Where a proof needs one it
takes a minimal or maximal counterexample instead: a minimal subset that cannot be
sorted or whose sum is off (`MinimalSubset`), a first arrival, a last opener.
Sums are the folds of the community modules, and no module with a theorem uses a
RECURSIVE operator.

## 6. Bounds

`MaxCrashes` (process deaths in ConcurrentIngestion), `MaxBuilds` (runs of the
generation job in AwsPublication), `MaxRuns` and `MaxFaults` (in GenerationDag),
`MaxRecords` and `MaxAttempts` (records and starts in StreamIngestion) are the
only bounds that are not in the code. Everything else is bounded by the finite
sets of the instances (`Logs`, `Feeds`, `Histories`, `Records`, `Generation`,
`Uri`, `Requests`).

## 7. Not modelled

The text of payloads, digests and file formats, HMAC tokens and redaction;
report writing and the CLI; Terraform, packaging and claim-checking scripts.
The clocks and statistics of the evidence report. Which strings match a pattern
of the contract, `session_id` (a digest of three columns that are modelled), and
`data_fresh_through`. `sessions_started_on_date` is repeated in every row of a
date by the join and is modelled as such; a reader who sums it over event types
counts sessions several times. The fingerprints of the store
(`contracts.py:149`) and of Spark (`transforms.py:88`) cover different
fields, but never meet in one table. SQLite, S3, DynamoDB, Kafka, Iceberg and
Airflow are modelled by what the code relies on: atomic transactions, unique
keys, atomic single requests, ordered partitions with retention, atomic appends.

## 8. Plan

1. *Done*: all modules of section 2, with the theorems of section 5. Every safety and
   action property that a run checks is stated by a theorem.
2. Next: theorems that span components, such as what a chain of published
   generations of GenerationBuilder says of the bundles that the pointer of
   AwsPublication shows to the mart.
