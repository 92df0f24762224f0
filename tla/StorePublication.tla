--------------------------- MODULE StorePublication ---------------------------
(***************************************************************************)
(* Generations of the local store: PulseStore.build_generation and         *)
(* PulseStore.publish (src/src/pulsestream/store.py), running while        *)
(* arrivals are still being ingested.                                      *)
(*                                                                         *)
(* A build is not one transaction.  It reads the accepted events, then the *)
(* corrections, makes the artifact directory and writes the files, reads   *)
(* the checkpoints for the manifest's offsets, and inserts the CANDIDATE   *)
(* row, each on a connection of its own; ingestion, publication and other  *)
(* builds run in between.  publish is one BEGIN IMMEDIATE transaction.     *)
(*                                                                         *)
(* Ingestion is the atomic Consume of EventStore, which                    *)
(* ConcurrentIngestion implements.                                         *)
(***************************************************************************)
EXTENDS EventStore

CONSTANTS
    Generation,  \* the generation ids callers choose
    Builder      \* concurrent callers of build_generation

VARIABLES
    generation,  \* the generation row of each id
    pointer,     \* the publication_pointer row of 'engagement'
    artifacts,   \* ids whose directory candidates/<id> exists, under the one
                 \* artifact_root that all builds of a database are given
    builder      \* what each running build has read so far

publicationVars == <<generation, pointer, artifacts, builder>>
vars == <<storeVars, publicationVars>>

Modes == {"LIVE", "REPLAY"}
Statuses == {"CANDIDATE", "PUBLISHED", "SUPERSEDED"}

Idle == [pc |-> "idle", gid |-> None, parent |-> None, mode |-> None,
         events |-> {}, corrections |-> None, frontier |-> None]

Exists(g) == generation[g] # None
InStatus(s) == {g \in Generation : Exists(g) /\ generation[g].status = s}
Published == InStatus("PUBLISHED")

Init ==
    /\ StoreInit
    /\ generation = [g \in Generation |-> None]
    /\ pointer = [active |-> None, version |-> 0]
    /\ artifacts = {}
    /\ builder = [b \in Builder |-> Idle]

Ingest ==
    /\ StoreNext
    /\ UNCHANGED publicationVars

-----------------------------------------------------------------------------
(* build_generation, one action per connection or file-system step. *)

AcceptedIds == {i \in EventId : accepted_event[i] # None}

(* _events(include_late) *)
EventsRegardless(mode) == AcceptedIds
EventsFor(mode) ==
    {i \in AcceptedIds : mode = "REPLAY" \/ ~accepted_event[i].late}

(* A caller names as parent nothing or a generation it has seen published,   *)
(* not necessarily the active one.                                           *)
BeginBuild(b, g, parent, mode) ==
    /\ builder[b].pc = "idle"
    /\ builder' = [builder EXCEPT ![b] =
           [Idle EXCEPT !.pc = "corrections", !.gid = g, !.parent = parent,
                        !.mode = mode, !.events = EventsFor(mode)]]
    /\ UNCHANGED <<storeVars, generation, pointer, artifacts>>

(* _corrections(mode, generation_id): a replay presents OPEN rows as         *)
(* resolved by itself, in its artifact only.                                 *)
CorrectionsAsStored(mode, g) == correction_exception
CorrectionsFor(mode, g) ==
    [i \in EventId |->
        LET row == correction_exception[i]
        IN  IF mode = "REPLAY" /\ row # None /\ row.status = "OPEN"
            THEN [row EXCEPT !.status = "RESOLVED", !.resolved = g]
            ELSE row]
ReadCorrections(b) ==
    /\ builder[b].pc = "corrections"
    /\ builder' = [builder EXCEPT
           ![b].pc = "directory",
           ![b].corrections = CorrectionsFor(builder[b].mode, builder[b].gid)]
    /\ UNCHANGED <<storeVars, generation, pointer, artifacts>>

(* root.mkdir(exist_ok=False), then the four files.  FileExistsError ends    *)
(* the build.  artifact_root is a parameter of build_generation, one for all *)
(* builds of a database here as in run_evidence: directories below another   *)
(* root would not keep each other out.                                       *)
ExistOk(g) == TRUE
MayMakeDirectory(g) == g \notin artifacts
MakeDirectory(b) ==
    /\ builder[b].pc = "directory"
    /\ IF MayMakeDirectory(builder[b].gid)
       THEN builder' = [builder EXCEPT ![b].pc = "offsets"]
       ELSE builder' = [builder EXCEPT ![b] = Idle]
    /\ artifacts' = artifacts \cup {builder[b].gid}
    /\ UNCHANGED <<storeVars, generation, pointer>>

(* checkpoint_offsets() and manifest.validate: without any checkpoint the    *)
(* offsets are incomplete and the build fails, its directory left behind.    *)
ExclusiveEnd == [p \in Partition |-> checkpoint[p].last - 1]
Frontier == [p \in Partition |-> checkpoint[p].last]
ReadOffsets(b) ==
    /\ builder[b].pc = "offsets"
    /\ IF \E p \in Partition : Frontier[p] # -1
       THEN builder' = [builder EXCEPT ![b].pc = "insert", ![b].frontier = Frontier]
       ELSE builder' = [builder EXCEPT ![b] = Idle]
    /\ UNCHANGED <<storeVars, generation, pointer, artifacts>>

(* INSERT INTO generation; the primary key refuses a second row. *)
InsertCandidate(b) ==
    /\ builder[b].pc = "insert"
    /\ generation' =
          IF Exists(builder[b].gid) THEN generation
          ELSE [generation EXCEPT ![builder[b].gid] =
                   [parent |-> builder[b].parent, mode |-> builder[b].mode,
                    status |-> "CANDIDATE", events |-> builder[b].events,
                    corrections |-> builder[b].corrections,
                    frontier |-> builder[b].frontier]]
    /\ builder' = [builder EXCEPT ![b] = Idle]
    /\ UNCHANGED <<storeVars, pointer, artifacts>>

(* The building process dies; what it wrote stays. *)
AbortBuild(b) ==
    /\ builder[b].pc # "idle"
    /\ builder' = [builder EXCEPT ![b] = Idle]
    /\ UNCHANGED <<storeVars, generation, pointer, artifacts>>

Build(b) ==
    \/ \E g \in Generation, parent \in Published \cup {None}, mode \in Modes :
          BeginBuild(b, g, parent, mode)
    \/ ReadCorrections(b)
    \/ MakeDirectory(b)
    \/ ReadOffsets(b)
    \/ InsertCandidate(b)
    \/ AbortBuild(b)

-----------------------------------------------------------------------------
(* publish.  A generation that is missing or not a CANDIDATE raises and      *)
(* changes nothing.                                                          *)

ResolveNone(g) == correction_exception
Resolved(g) ==
    IF generation[g].mode # "REPLAY" THEN correction_exception
    ELSE [i \in EventId |->
             LET row == correction_exception[i]
             IN  IF row # None /\ row.status = "OPEN"
                 THEN [row EXCEPT !.status = "RESOLVED", !.resolved = g]
                 ELSE row]

AnyParent(g) == TRUE
ParentIsActive(g) == generation[g].parent = pointer.active

Publish(g) ==
    /\ g \in InStatus("CANDIDATE")
    /\ ParentIsActive(g)
    /\ pointer' = [active |-> g, version |-> pointer.version + 1]
    /\ generation' = [generation EXCEPT ![g].status = "PUBLISHED"]
    /\ correction_exception' = Resolved(g)
    /\ UNCHANGED <<log, checkpoint, ingestion_outcome, quarantine, seen_event,
                   accepted_event, artifacts, builder>>

(* The loser of the race commits its own demotion and raises stale_parent. *)
Supersede(g) ==
    /\ g \in InStatus("CANDIDATE")
    /\ ~ParentIsActive(g)
    /\ generation' = [generation EXCEPT ![g].status = "SUPERSEDED"]
    /\ UNCHANGED <<storeVars, pointer, artifacts, builder>>

Next ==
    \/ Ingest
    \/ \E b \in Builder : Build(b)
    \/ \E g \in Generation : Publish(g) \/ Supersede(g)

Spec == Init /\ [][Next]_vars

-----------------------------------------------------------------------------
Frontiers == [Partition -> Nat \cup {-1}]
CorrectionTables == [EventId -> CorrectionRows(Generation) \cup {None}]
GenerationRows ==
    [parent : Generation \cup {None}, mode : Modes, status : Statuses,
     events : SUBSET EventId, corrections : CorrectionTables, frontier : Frontiers]
BuilderStates ==
    [pc : {"idle", "corrections", "directory", "offsets", "insert"},
     gid : Generation \cup {None}, parent : Generation \cup {None},
     mode : Modes \cup {None}, events : SUBSET EventId,
     corrections : CorrectionTables \cup {None}, frontier : Frontiers \cup {None}]

ASSUME PublicationNoneAssumption ==
    None \notin CorrectionRows(Generation) \cup GenerationRows \cup Generation

(* Rows and the local variables of builds have the types of the schema. *)
TypeOK ==
    /\ StoreTypeOK /\ CorrectionTypeOK(Generation)
    /\ generation \in [Generation -> GenerationRows \cup {None}]
    /\ pointer \in [active : Generation \cup {None}, version : Nat]
    /\ artifacts \subseteq Generation
    /\ builder \in [Builder -> BuilderStates]

Bundles == {g \in Generation : Exists(g)}
IsLateEvent(i) == accepted_event[i] # None /\ accepted_event[i].late

(* "only candidate(parent = active) may advance the active pointer"          *)
(* (README.md:37): the pointer, its version and the published rows change    *)
(* only as the abstract compare-and-swap allows, whatever builds and         *)
(* publications race.                                                        *)
Pointer == INSTANCE ActivePointer WITH
    active <- pointer.active,
    version <- pointer.version,
    lineage <- {<<g, generation[g].parent>> : g \in Published}
PublishesByCompareAndSwap == Pointer!Spec

(* The published generations form one line whose length is the version.      *)
PublishedLine == Pointer!OneLine /\ Pointer!VersionCountsPublications

(* The active bundle declares offsets at or beyond those of every generation *)
(* ever published, in every partition, not only its own parent's.            *)
ActiveIsFurthest ==
    \A g \in Published : \A p \in Partition :
        generation[g].frontier[p] =< generation[pointer.active].frontier[p]

(* The events of a bundle are what one moment of the store held: nothing from *)
(* beyond the offsets its manifest declares, although events and offsets are  *)
(* read on different connections, and nothing on time missing from below an   *)
(* event of the same partition that is there.                                 *)
BundleWithinFrontier ==
    \A g \in Bundles : \A i \in generation[g].events :
        LET top == accepted_event[i]
        IN  /\ top.offset =< generation[g].frontier[top.partition]
            /\ \A j \in AcceptedIds \ generation[g].events :
                  accepted_event[j].partition = top.partition /\ ~accepted_event[j].late
                      => accepted_event[j].offset > top.offset

(* "late data is excluded from LIVE ... then included and RESOLVED by        *)
(* REPLAY" (README.md:36), read off each bundle: a LIVE bundle has no late   *)
(* event, and a late event of a REPLAY bundle is RESOLVED in that bundle's   *)
(* correction table, which is read after the events.                         *)
LateOnlyThroughReplay ==
    \A g \in Bundles : \A i \in generation[g].events :
        IsLateEvent(i) =>
            /\ generation[g].mode = "REPLAY"
            /\ generation[g].corrections[i] # None
            /\ generation[g].corrections[i].status = "RESOLVED"

(* The store's corrections follow publication: RESOLVED names a published    *)
(* REPLAY, and no late event of a published REPLAY is still OPEN.            *)
CorrectionsFollowPublication ==
    /\ \A i \in EventId :
          correction_exception[i] # None /\ correction_exception[i].status = "RESOLVED" =>
              \E g \in Published :
                  correction_exception[i].resolved = g /\ generation[g].mode = "REPLAY"
    /\ \A g \in Published : \A i \in generation[g].events :
          IsLateEvent(i) => correction_exception[i].status = "RESOLVED"

(* Artifact files have one writer: no two builds are past the directory step *)
(* for the same id, and none is past it for an id that already has a row, so *)
(* the INSERT never meets a taken key and never describes another's files    *)
(* (as long as all builds have one artifact_root).                           *)
OneWriterPerBundle ==
    \A b \in Builder : builder[b].pc \in {"offsets", "insert"} =>
        /\ ~Exists(builder[b].gid)
        /\ builder[b].gid \in artifacts
        /\ \A c \in Builder \ {b} :
              builder[c].pc \in {"offsets", "insert"} => builder[c].gid # builder[b].gid

(* A build that dies past the directory step, or whose offsets are refused,  *)
(* uses its generation_id up: the directory stays, mkdir refuses every later *)
(* build of that id under the same artifact_root, and no row is ever written *)
(* for it.                                                                   *)
Abandoned(g) ==
    /\ g \in artifacts /\ ~Exists(g)
    /\ \A b \in Builder :
          builder[b].pc \in {"offsets", "insert"} => builder[b].gid # g
AbandonedForGood ==
    [][\A g \in Generation : Abandoned(g) => Abandoned(g)']_vars

(* "LIVE advances; REPLAY never rewinds" (ARCHITECTURE.md:35): moving the    *)
(* pointer never lowers the published offset of any partition.               *)
FrontierNeverRewinds ==
    [][pointer.active # None /\ pointer'.active # pointer.active =>
          \A p \in Partition :
              generation[pointer.active].frontier[p]
                  =< generation'[pointer'.active].frontier[p]]_vars

-----------------------------------------------------------------------------
(* A statement of the documents that the code does not keep: "late data is   *)
(* excluded from LIVE, recorded as OPEN, then included and RESOLVED by       *)
(* REPLAY" (README.md:36).  The active bundle includes every late event whose*)
(* correction is RESOLVED.  publish resolves every OPEN row, those opened    *)
(* after the build read its events too; and a LIVE bundle published over the *)
(* replay leaves the event out again.                                        *)
ResolvedIsActive ==
    \A i \in EventId :
        correction_exception[i] # None /\ correction_exception[i].status = "RESOLVED" =>
            pointer.active # None /\ i \in generation[pointer.active].events
=============================================================================
