-------------------------- MODULE GenerationBuilder --------------------------
(***************************************************************************)
(* The Spark generation job (src/spark_jobs/generation_builder.py with     *)
(* transforms.py and branching.py) over any tree of generations.           *)
(*                                                                         *)
(* A run of the job reads one snapshot of bronze and the snapshots that a  *)
(* parent manifest names; none of them can change, and its own manifest is *)
(* written last.  So a run that completes is one action, and a run that    *)
(* dies or raises leaves no bundle.  A rerun is another member of          *)
(* Generation: it overwrites branches, never the snapshots of a manifest.  *)
(*                                                                         *)
(* A row is the arrival it was made from, <<partition, offset>>, and the   *)
(* generation that added it; what it says is read from log.                *)
(***************************************************************************)
EXTENDS Integers, Sequences, FiniteSets

CONSTANTS
    Partition,   \* the Kafka partitions, numbered: their order decides who is first
    EventId,     \* the business identities, event_id
    Body,        \* everything else the identity fingerprint covers
    Watermark,   \* rules.live_watermark_minutes
    Logs,        \* the arrival histories considered
    Generation,  \* the completed runs of the job
    None         \* no parent, or no bundle yet

Payload == [valid : BOOLEAN, id : EventId, time : Nat, body : Body]
Modes == {"LIVE", "REPLAY"}

ASSUME PartitionAssumption == Partition \subseteq Nat
ASSUME WatermarkAssumption == Watermark \in Nat \ {0}
ASSUME LogsAssumption == Logs \subseteq [Partition -> Seq(Payload)]
ASSUME NoneAssumption == None \notin Generation

VARIABLES
    log,    \* log[p][o + 1] is the payload at offset o of partition p
    bundle  \* per generation, what its publication manifest binds

vars == <<log, bundle>>

At(key) == log[key[1]][key[2] + 1]
Id(key) == At(key).id
Time(key) == At(key).time
Fingerprint(key) == <<At(key).id, At(key).time, At(key).body>>

Built == {g \in Generation : bundle[g] # None}

-----------------------------------------------------------------------------
(* Source ranges and the frontier.  Ranges map a partition to its first and *)
(* last offset: a manifest lists a partition at most once.                  *)

Spans(p) == {s \in [start : 0 .. (Len(log[p]) - 1), end : 0 .. (Len(log[p]) - 1)] :
                s.start =< s.end}

(* The source manifests validate_source_manifest accepts whose snapshot of
   bronze holds what they list. *)
SourceRanges ==
    UNION {{r \in [P -> UNION {Spans(p) : p \in P}] : \A p \in P : r[p] \in Spans(p)} :
              P \in (SUBSET Partition) \ {{}}}

Covered(ranges) ==
    UNION {{<<p, o>> : o \in ranges[p].start .. ranges[p].end} : p \in DOMAIN ranges}

ContractValid(keys) == {k \in keys : At(k).valid}

NoRanges == [p \in {} |-> None]

AfterFrontier(input, previous) ==
    \A p \in DOMAIN input \cap DOMAIN previous : input[p].start > previous[p].end

Contiguous(input, previous) ==
    \A p \in DOMAIN input \cap DOMAIN previous : input[p].start = previous[p].end + 1

ExclusiveEnd(mode, input, previous) ==
    IF mode = "REPLAY"
    THEN previous
    ELSE [p \in DOMAIN input \cup DOMAIN previous |->
             [start |-> IF p \in DOMAIN previous THEN previous[p].start ELSE input[p].start,
              end   |-> IF p \in DOMAIN input THEN input[p].end + 1 ELSE previous[p].end]]

Frontier(mode, input, previous) ==
    IF mode = "REPLAY"
    THEN previous
    ELSE [p \in DOMAIN input \cup DOMAIN previous |->
             [start |-> IF p \in DOMAIN previous THEN previous[p].start ELSE input[p].start,
              end   |-> IF p \in DOMAIN input THEN input[p].end ELSE previous[p].end]]

-----------------------------------------------------------------------------
(* The transformations of transforms.py.  batch is the set of selected      *)
(* arrivals, always contract-valid: bronze has no others.                   *)

Precedes(j, k) == j[1] < k[1] \/ (j[1] = k[1] /\ j[2] < k[2])

BeyondBoundary(k, j) == Time(k) < Time(j) - Watermark

BeyondAnyWatermark(k, batch, carried) ==
    \/ \E j \in batch : j[1] = k[1] /\ j[2] < k[2] /\ BeyondBoundary(k, j)
    \/ \E c \in carried : BeyondBoundary(k, c)

(* carried holds the arrivals of the parent's curated rows, for LIVE. *)
BeyondWatermark(k, batch, carried) ==
    \/ \E j \in batch : j[1] = k[1] /\ j[2] < k[2] /\ BeyondBoundary(k, j)
    \/ \E c \in carried : c[1] = k[1] /\ BeyondBoundary(k, c)

FirstPerPartition(batch) ==
    {k \in batch : \A j \in batch : j[1] = k[1] /\ Id(j) = Id(k) => ~Precedes(j, k)}

FirstArrivals(batch) ==
    {k \in batch : \A j \in batch : Id(j) = Id(k) => ~Precedes(j, k)}

BatchConflicts(batch) ==
    {k \in batch : \E f \in FirstArrivals(batch) :
                      Id(f) = Id(k) /\ Fingerprint(f) # Fingerprint(k)}

(* The parent gate joins on event_id with one fingerprint per identity;
   dropDuplicates keeps any. *)
OnePerId(fingerprints) ==
    {kept \in SUBSET fingerprints :
        \A f \in fingerprints : \E h \in kept :
            h[1] = f[1] /\ \A i \in kept : i[1] = f[1] => i = h}

Unknown(keys, fingerprints) ==
    {k \in keys : \A f \in fingerprints : f[1] # Id(k)}

ParentConflicts(keys, kept) ==
    {k \in keys : \E f \in kept : f[1] = Id(k) /\ f # Fingerprint(k)}

-----------------------------------------------------------------------------
(* The tables of one bundle. *)

Keys(rows) == {r.key : r \in rows}
Ids(rows) == {Id(r.key) : r \in rows}
Fingerprints(rows) == {Fingerprint(r.key) : r \in rows}

LateRows(rows) == {r \in rows : r.reason = "beyond_live_watermark"}
OpenLate(rows) == {r \in LateRows(rows) : r.status = "OPEN"}

Curated(g) == IF g = None THEN {} ELSE bundle[g].curated
Corrections(g) == IF g = None THEN {} ELSE bundle[g].corrections
FrontierOf(g) == IF g = None THEN NoRanges ELSE bundle[g].frontier

KnownToReplay(parent, mode) ==
    Fingerprints(Curated(parent))
        \cup Fingerprints(Corrections(parent) \ OpenLate(Corrections(parent)))

(* The identities a run compares with: an OPEN late row is no obstacle to
   its own correction. *)
Known(parent, mode) ==
    Fingerprints(Curated(parent)) \cup
        Fingerprints(IF mode = "REPLAY"
                     THEN Corrections(parent) \ OpenLate(Corrections(parent))
                     ELSE Corrections(parent))

(* A REPLAY resolves the OPEN late rows of the identities it accepted. *)
Resolve(rows, ids) ==
    {IF r \in OpenLate(rows) /\ Id(r.key) \in ids THEN [r EXCEPT !.status = "RESOLVED"]
                                                  ELSE r : r \in rows}

CorrectionRows(g, keys, reason, status) ==
    {[key |-> k, by |-> g, reason |-> reason, status |-> status] : k \in keys}

FirstConflicts(g, conflicts, parent) ==
    CorrectionRows(g, {k \in conflicts : Id(k) \notin Ids(Corrections(parent))},
                   "identity_payload_conflict", "OPEN")

ConflictRows(g, conflicts, parent) ==
    CorrectionRows(g, conflicts, "identity_payload_conflict", "OPEN")

(* A late arrival whose identity already has a correction row gets no
   second one. *)
NewLateRows(g, mode, late, parent) ==
    CorrectionRows(g, {k \in late : Id(k) \notin Ids(Corrections(parent))},
                   "beyond_live_watermark",
                   IF mode = "REPLAY" THEN "RESOLVED" ELSE "OPEN")

NewBundle(g, parent, mode, input, kept) ==
    LET batch    == ContractValid(Covered(input))
        carried  == IF mode = "LIVE" THEN Keys(Curated(parent)) ELSE {}
        first    == FirstArrivals(batch)
        accepted == Unknown(first, Known(parent, mode))
        late     == {k \in accepted : BeyondWatermark(k, batch, carried)}
        curated  == IF mode = "REPLAY" THEN accepted ELSE accepted \ late
        resolved == IF mode = "REPLAY" THEN {Id(k) : k \in accepted} ELSE {}
    IN  [parent      |-> parent,
         mode        |-> mode,
         input       |-> input,
         frontier    |-> Frontier(mode, input, FrontierOf(parent)),
         curated     |-> Curated(parent) \cup {[key |-> k, by |-> g] : k \in curated},
         corrections |-> Resolve(Corrections(parent), resolved)
                            \cup NewLateRows(g, mode, late, parent)
                            \cup ConflictRows(g, BatchConflicts(batch)
                                                    \cup ParentConflicts(first, kept),
                                              parent)]

-----------------------------------------------------------------------------

Init ==
    /\ log \in Logs
    /\ bundle = [g \in Generation |-> None]

(* One completed run of main().  Nothing restricts the ranges of a REPLAY,
   nor the parent to a published generation. *)
Build(g, parent, mode, input) ==
    /\ bundle[g] = None
    /\ mode = "REPLAY" => parent # None
    /\ mode = "LIVE" => Contiguous(input, FrontierOf(parent))
    /\ \E kept \in OnePerId(Known(parent, mode)) :
          bundle' = [bundle EXCEPT ![g] = NewBundle(g, parent, mode, input, kept)]
    /\ UNCHANGED log

Next ==
    \E g \in Generation, parent \in Built \cup {None}, mode \in Modes,
       input \in SourceRanges : Build(g, parent, mode, input)

Spec == Init /\ [][Next]_vars

-----------------------------------------------------------------------------
(* Properties. *)

RangesOK(ranges) == \A p \in DOMAIN ranges : p \in Partition /\ ranges[p] \in Spans(p)

(* The arrivals of the log, and the rows made from them. *)
Arrivals == {k \in Partition \X Nat : k[2] < Len(log[k[1]])}
CuratedRow == [key : Arrivals, by : Generation]
CorrectionRow ==
    [key : Arrivals, by : Generation,
     reason : {"beyond_live_watermark", "identity_payload_conflict"},
     status : {"OPEN", "RESOLVED"}]

(* Every manifest names a completed parent, ranges inside the log, and rows
   that runs of the job made from arrivals (PublicationManifest.validate and
   the columns of bootstrap_tables.py). *)
TypeOK ==
    /\ log \in [Partition -> Seq(Payload)]
    /\ DOMAIN bundle = Generation
    /\ \A g \in Built :
          /\ bundle[g].parent \in Built \cup {None}
          /\ bundle[g].mode \in Modes
          /\ bundle[g].mode = "REPLAY" => bundle[g].parent # None
          /\ RangesOK(bundle[g].input) /\ DOMAIN bundle[g].input # {}
          /\ RangesOK(bundle[g].frontier) /\ DOMAIN bundle[g].frontier # {}
          /\ bundle[g].curated \subseteq CuratedRow
          /\ bundle[g].corrections \subseteq CorrectionRow

(* "event_id plus canonical business payload has at most one accepted effect"
   (ARCHITECTURE.md): in no bundle does an event_id have two curated rows,
   through any chain of LIVE and REPLAY runs, repeated ranges and partitions
   (the two identity gates of transforms.py). *)
OneRowPerIdentity ==
    \A g \in Built : \A r, s \in bundle[g].curated : Id(r.key) = Id(s.key) => r = s

(* The replays so far re-read only what their parent's frontier covers, as
   ARCHITECTURE.md asks and no code checks. *)
ReplaysArePinned ==
    \A g \in Built : bundle[g].mode = "REPLAY" =>
        Covered(bundle[g].input) \subseteq Covered(bundle[g].frontier)

(* A late event is OPEN exactly while no curated row has its event_id, and has
   one late row; with pinned replays a RESOLVED one is curated with the very
   payload that was late, although the job matches by event_id alone
   (generation_builder.py, resolved_ids and the left_anti join). *)
CorrectionsAgree ==
    \A g \in Built :
        LET late == LateRows(bundle[g].corrections) IN
        /\ \A r \in late : (r.status = "OPEN") <=> Id(r.key) \notin Ids(bundle[g].curated)
        /\ \A r, s \in late : Id(r.key) = Id(s.key) => r = s
        /\ ReplaysArePinned =>
              \A r \in late : r.status = "RESOLVED" =>
                  Fingerprint(r.key) \in Fingerprints(bundle[g].curated)

(* Along any chain the frontier is tiled by the LIVE inputs: a LIVE run adds
   exactly its input, none of which the parent had, leaves no hole, and a
   REPLAY changes nothing (advance_frontier). *)
FrontierIsTiled ==
    \A g \in Built :
        LET before == Covered(FrontierOf(bundle[g].parent))
            after  == Covered(bundle[g].frontier)
            input  == Covered(bundle[g].input)
        IN  IF bundle[g].mode = "REPLAY"
            THEN after = before
            ELSE after = before \cup input /\ before \cap input = {}

(* Nothing inside a frontier is lost, however the log was cut into runs: the
   fingerprint of every contract-valid arrival is in the curated table or in
   the corrections.  With pinned replays there is nothing else in them, so two
   chains that reach the same frontier know the same payloads. *)
Conserved ==
    \A g \in Built :
        LET arrived == {Fingerprint(k) : k \in ContractValid(Covered(bundle[g].frontier))}
            kept    == Fingerprints(bundle[g].curated) \cup Fingerprints(bundle[g].corrections)
        IN  arrived \subseteq kept /\ (ReplaysArePinned => arrived = kept)

(* What was read before key in its partition, in the order of offsets. *)
ReadBefore(g, key) ==
    {j \in ContractValid(Covered(bundle[g].frontier)) : j[1] = key[1] /\ j[2] < key[2]}

(* No false alarm: with pinned replays, an event is a correction only if its
   own partition had, at an earlier offset, an event more than the watermark
   ahead of it (classify_lateness with prior watermarks). *)
LateIsJustified ==
    ReplaysArePinned =>
        \A g \in Built : \A r \in LateRows(bundle[g].corrections) :
            \E j \in ReadBefore(g, r.key) : BeyondBoundary(r.key, j)

(* "Watermarks are tracked per partition and carried across generations.
   Restarting a job does not reset the late-data boundary"
   (docs/PERFORMANCE.md): an event that a LIVE run curated is not behind the
   boundary that the arrivals before it set.  The job carries only the
   boundary of curated rows: a duplicate or a conflict at the end of a batch
   moves the boundary inside its own batch and is then forgotten. *)
BoundaryIsCarried ==
    \A g \in Built : \A r \in bundle[g].curated :
        bundle[r.by].mode = "LIVE" =>
            \A j \in ReadBefore(g, r.key) : ~BeyondBoundary(r.key, j)

(* "OPEN in LIVE, RESOLVED by published REPLAY" (docs/ARCHITECTURE.md): a
   REPLAY over the offset of an OPEN late row leaves it RESOLVED.  A conflict
   row of the same event_id counts as a known identity and stands in its way. *)
ReplayCorrects ==
    \A g \in Built : bundle[g].mode = "REPLAY" =>
        \A r \in OpenLate(bundle[g].corrections) : r.key \notin Covered(bundle[g].input)
=============================================================================
