---------------------------- MODULE AwsPublication ----------------------------
(***************************************************************************)
(* Publication on AWS: the generation job writes a manifest to S3, the     *)
(* register_generation Lambda turns it into a CANDIDATE item, and the      *)
(* publish_generation Lambda moves the pointer with a DynamoDB transaction *)
(* built by pulsestream.aws_publication.                                   *)
(*                                                                         *)
(* Handlers are stateless and any number run at once: repeated clicks,     *)
(* client retries after a lost answer and overlapping operators are all    *)
(* further invocations.  An invocation may be cut off between any two of   *)
(* its requests (the Lambdas have a 30 second timeout), and DynamoDB may   *)
(* cancel a transaction for reasons of its own; both leave the tables as   *)
(* they were.  Each request is atomic, as S3 and DynamoDB document.        *)
(*                                                                         *)
(* Operators choose generation identifiers, URIs and source ranges freely, *)
(* so the job and the register handler refuse what they are asked for in   *)
(* several cases; all of them are here, given a deployment whose rules,    *)
(* registry, environment variables and tables load.                        *)
(***************************************************************************)
EXTENDS Integers, FiniteSets

CONSTANTS
    Generation,       \* generation identifiers
    Uri,              \* S3 locations of publication manifests
    Approved,         \* those in MANIFEST_BUCKET, of at most 1024 characters
    Partition,        \* Kafka partitions
    Requests,         \* what operators ask for
    Caller,           \* slots for handler invocations running at once
    NullTextAccepted, \* whether the client library takes {"NULL": "true"}
    MaxBuilds,        \* bound on runs of the generation job (model bound)
    None

Parents == Generation \cup {None}
Digests == 1 .. MaxBuilds
Modes == {"LIVE", "REPLAY"}

(* The ranges of a source manifest, and where a frontier ends; None for a
   partition they do not name. *)
SourceRanges == [Partition -> [start : Nat, end : Nat] \cup {None}]
Frontiers == [Partition -> Nat \cup {None}]

(* The parameters of the DAG, whose patterns Airflow has checked.  source is
   None for a document that validate_source_manifest refuses by its shape, or
   whose snapshot of bronze cannot be read; parent is None for the empty text;
   output is None for a text that is no location (s3_location). *)
RequestTypes ==
    [gid : Generation, mode : Modes, source : SourceRanges \cup {None},
     parent : Uri \cup {None}, output : Uri \cup {None}]

(* What the job writes, and what registration_item makes of it; the mode of an
   item is read by nothing. *)
Manifests ==
    [gid : Generation, mode : Modes, parent : Parents, frontier : Frontiers,
     digest : Digests]
Items == [parent : Parents, status : {"CANDIDATE", "PUBLISHED"}, uri : Approved,
          digest : Digests]

ASSUME RequestsAssumption == Requests \subseteq RequestTypes
ASSUME ApprovedAssumption == Approved \subseteq Uri
ASSUME AwsNoneAssumption ==
    /\ None \notin Generation /\ None \notin Nat /\ None \notin Uri
    /\ None \notin Items \cup Manifests
ASSUME MaxBuildsAssumption == MaxBuilds \in Nat
ASSUME NullTextAssumption == NullTextAccepted \in BOOLEAN

VARIABLES
    manifest,  \* the S3 object at each URI; None where nothing is, or nothing
               \* that read_json_uri, manifest_from_dict and validate accept
    builds,    \* runs of the generation job; each makes new snapshot ids
    item,      \* the generation's DynamoDB item, or None
    pointer,   \* the ACTIVE#engagement item
    call       \* the invocations: next request and the answers so far

vars == <<manifest, builds, item, pointer, call>>

Idle == [pc |-> "idle", gid |-> None, parent |-> None, uri |-> None,
         digest |-> None, version |-> None, found |-> FALSE]

Init ==
    /\ manifest = [u \in Uri |-> None]
    /\ builds = 0
    /\ item = [g \in Generation |-> None]
    /\ pointer = [active |-> None, version |-> 0, digest |-> None]
    /\ call = [c \in Caller |-> Idle]

Becomes(c, state) == call' = [call EXCEPT ![c] = state]

-----------------------------------------------------------------------------
(* generation_builder.main, at the moment it writes.                         *)

(* validate_source_manifest *)
ValidSource(source) ==
    /\ source # None
    /\ \E p \in Partition : source[p] # None
    /\ \A p \in Partition : source[p] # None => source[p].start =< source[p].end

(* validate_incremental_offsets *)
Continues(source, frontier) ==
    \A p \in Partition :
        source[p] # None /\ frontier[p] # None => source[p].start = frontier[p] + 1

(* advance_frontier for LIVE; a REPLAY keeps its parent's. *)
Advanced(source, frontier) ==
    [p \in Partition |-> IF source[p] # None THEN source[p].end ELSE frontier[p]]

NoFrontier == [p \in Partition |-> None]

(* The parent is whatever manifest the job is pointed at. *)
ParentOf(r) == IF r.parent = None THEN None ELSE manifest[r.parent].gid
ParentFrontier(r) == IF r.parent = None THEN NoFrontier ELSE manifest[r.parent].frontier

JobAccepts(r) ==
    /\ ValidSource(r.source)
    /\ r.output # None
    /\ r.mode = "REPLAY" => r.parent # None
    /\ r.parent # None => manifest[r.parent] # None
    /\ r.mode = "LIVE" => Continues(r.source, ParentFrontier(r))

(* The output URI is overwritten.  The digest of a manifest covers its
   snapshot ids, so no two runs write equal manifests. *)
WriteManifest(r) ==
    /\ builds < MaxBuilds
    /\ JobAccepts(r)
    /\ builds' = builds + 1
    /\ manifest' =
          [manifest EXCEPT ![r.output] =
             [gid |-> r.gid, mode |-> r.mode, parent |-> ParentOf(r),
              frontier |-> IF r.mode = "REPLAY" THEN ParentFrontier(r)
                           ELSE Advanced(r.source, ParentFrontier(r)),
              digest |-> builds']]
    /\ UNCHANGED <<item, pointer, call>>

-----------------------------------------------------------------------------
(* register_generation.handler *)

(* The bucket check, read_json_uri and the identity check; what fails one of
   them raises before any table is touched. *)
Registrable(r) ==
    /\ r.output \in Approved
    /\ manifest[r.output] # None
    /\ manifest[r.output].gid = r.gid /\ manifest[r.output].mode = r.mode

ReadManifest(c, r) ==
    /\ call[c].pc = "idle"
    /\ Registrable(r)
    /\ Becomes(c, [Idle EXCEPT !.pc = "put", !.gid = r.gid, !.uri = r.output,
                               !.parent = manifest[r.output].parent,
                               !.digest = manifest[r.output].digest])
    /\ UNCHANGED <<manifest, builds, item, pointer>>

(* put_item(registration_item(...), attribute_not_exists(generation_id)).    *)
(* registration_item writes a missing parent as {"NULL": "true"}.            *)
Encodable(parent) == parent # None \/ NullTextAccepted
AlwaysPut(g) == TRUE
KeyIsTaken(g) == item[g] # None
KeyIsFree(g) == item[g] = None
PutItem(c) ==
    /\ call[c].pc = "put"
    /\ item' =
          IF Encodable(call[c].parent) /\ KeyIsFree(call[c].gid)
          THEN [item EXCEPT ![call[c].gid] =
                   [parent |-> call[c].parent, status |-> "CANDIDATE",
                    uri |-> call[c].uri, digest |-> call[c].digest]]
          ELSE item
    /\ Becomes(c, Idle)
    /\ UNCHANGED <<manifest, builds, pointer>>

-----------------------------------------------------------------------------
(* publish_generation.handler *)

(* get_item(generation_id), consistent read *)
ReadCandidate(c, g) ==
    /\ call[c].pc = "idle"
    /\ Becomes(c, IF item[g] = None
                  THEN [Idle EXCEPT !.pc = "pointer", !.gid = g]
                  ELSE [Idle EXCEPT !.pc = "pointer", !.gid = g, !.found = TRUE,
                                    !.parent = item[g].parent,
                                    !.digest = item[g].digest])
    /\ UNCHANGED <<manifest, builds, item, pointer>>

(* get_item(ACTIVE#engagement), then the None check.  Terraform creates the  *)
(* pointer item, so only the candidate can be missing.                       *)
NoneUnchecked(c) == TRUE
CandidateFound(c) == call[c].found
ReadPointer(c) ==
    /\ call[c].pc = "pointer"
    /\ Becomes(c, IF CandidateFound(c)
                  THEN [call[c] EXCEPT !.pc = "transact", !.version = pointer.version]
                  ELSE Idle)
    /\ UNCHANGED <<manifest, builds, item, pointer>>

(* The ConditionExpressions of publication_transaction. *)
CandidateCondition(g, digest) ==
    item[g] # None /\ item[g].status = "CANDIDATE" /\ item[g].digest = digest
VersionOnly(parent, version) == pointer.version = version
PointerCondition(parent, version) ==
    pointer.version = version /\ pointer.active = parent

Cancelled(c) ==
    \/ ~CandidateCondition(call[c].gid, call[c].digest)
    \/ ~PointerCondition(call[c].parent, call[c].version)

(* transact_write_items: both updates or none. *)
ForgetStatus(g) == item[g]
MarkPublished(g) == [item[g] EXCEPT !.status = "PUBLISHED"]
Transact(c) ==
    /\ call[c].pc = "transact"
    /\ ~Cancelled(c)
    /\ item' = [item EXCEPT ![call[c].gid] = MarkPublished(call[c].gid)]
    /\ pointer' = [active |-> call[c].gid, version |-> call[c].version + 1,
                   digest |-> call[c].digest]
    /\ Becomes(c, Idle)
    /\ UNCHANGED <<manifest, builds>>

(* The transaction is cancelled, or the invocation ends here by a timeout.   *)
GiveUp(c) ==
    /\ call[c].pc # "idle"
    /\ Becomes(c, Idle)
    /\ UNCHANGED <<manifest, builds, item, pointer>>

Handler(c) ==
    \/ \E r \in Requests : ReadManifest(c, r)
    \/ \E g \in Generation : ReadCandidate(c, g)
    \/ PutItem(c)
    \/ ReadPointer(c)
    \/ Transact(c)
    \/ GiveUp(c)

Next ==
    \/ \E r \in Requests : WriteManifest(r)
    \/ \E c \in Caller : Handler(c)

Spec == Init /\ [][Next]_vars

-----------------------------------------------------------------------------
Calls ==
    [pc : {"idle", "put", "pointer", "transact"}, gid : Parents, parent : Parents,
     uri : Approved \cup {None}, digest : Digests \cup {None},
     version : Nat \cup {None}, found : BOOLEAN]

(* Objects, items and invocations have the types the requests give them, and *)
(* an invocation about to write carries what it will write.                  *)
TypeOK ==
    /\ manifest \in [Uri -> Manifests \cup {None}]
    /\ builds \in 0 .. MaxBuilds
    /\ item \in [Generation -> Items \cup {None}]
    /\ pointer \in [active : Parents, version : Nat, digest : Digests \cup {None}]
    /\ call \in [Caller -> Calls]
    /\ \A c \in Caller :
          /\ call[c].pc # "idle" => call[c].gid \in Generation
          /\ call[c].pc \in {"put", "transact"} \/ call[c].found => call[c].digest \in Digests
          /\ call[c].pc = "put" => call[c].uri \in Approved
          /\ call[c].pc = "transact" => call[c].version \in Nat

Published == {g \in Generation : item[g] # None /\ item[g].status = "PUBLISHED"}

(* "only candidate(parent = active) may advance the active pointer"          *)
(* (README.md:37): whatever registrations and publications race on whatever  *)
(* stale reads, pointer and statuses change as the abstract compare-and-swap *)
(* does, and no generation is published twice.                               *)
Pointer == INSTANCE ActivePointer WITH
    active <- pointer.active,
    version <- pointer.version,
    lineage <- {<<g, item[g].parent>> : g \in Published}
PublishesByCompareAndSwap == Pointer!Spec

(* Therefore history is one line: no two published generations replaced the  *)
(* same parent, only the active one is unreplaced, and the pointer version   *)
(* counts them (publication_pointer.version, pointer_version).               *)
PublishedLine == Pointer!OneLine /\ Pointer!VersionCountsPublications

(* A candidate that lost the race stays CANDIDATE (nothing marks it          *)
(* SUPERSEDED), and that is harmless: once a sibling has replaced the parent *)
(* it names, no invocation publishes it.                                     *)
LosersStayCandidates ==
    [][\A g \in Generation, h \in Published :
          item[g] # None /\ g \notin Published /\ item[g].parent = item[h].parent
              => g \notin Published']_vars

(* The pointer and the item it names agree: the active generation is marked  *)
(* PUBLISHED and the pointer carries the digest it was registered with       *)
(* (ARCHITECTURE.md:52-54).  Whether the object at the item's URI still has  *)
(* that digest is another matter (ActiveManifestIsRegistered).               *)
PointerNamesPublishedItem ==
    pointer.active # None =>
        /\ pointer.active \in Published
        /\ item[pointer.active].digest = pointer.digest

(* "Register a completed, manifest-bound candidate exactly once"             *)
(* (register_generation/handler.py:1): once an item exists its parent, URI   *)
(* and digest never change, and PUBLISHED is final, although rebuilt         *)
(* manifests and repeated registrations keep arriving.                       *)
RegisteredOnce ==
    [][\A g \in Generation : item[g] # None =>
          /\ item'[g] # None
          /\ item'[g].parent = item[g].parent /\ item'[g].uri = item[g].uri
          /\ item'[g].digest = item[g].digest
          /\ item[g].status = "PUBLISHED" => item'[g].status = "PUBLISHED"]_vars

-----------------------------------------------------------------------------
(* "A generation is immutable after registration" (ARCHITECTURE.md:43): the  *)
(* manifest behind the active pointer is the one whose digest it carries.    *)
(* The job overwrites the URI whenever it is run again for the generation.   *)
ActiveManifestIsRegistered ==
    pointer.active # None =>
        manifest[item[pointer.active].uri].digest = pointer.digest
=============================================================================
