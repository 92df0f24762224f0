------------------------- MODULE StorePublicationProofs -------------------------
(***************************************************************************)
(* StorePublication proved for any generations, builders, partitions and   *)
(* logs.  What a build has read stays true while the store moves on,       *)
(* because the store only grows: accepted rows are never rewritten, new    *)
(* ones lie beyond the checkpoint of their partition, and checkpoints and  *)
(* published generations never go back.  That is Grows; the invariant says *)
(* of each build, and of the row it leaves, what it read so far.           *)
(***************************************************************************)
EXTENDS StorePublication, EventStoreProofs

(* The theorems of ActivePointer, read through the same mapping. *)
Line == INSTANCE ActivePointerProofs WITH
    active <- pointer.active,
    version <- pointer.version,
    lineage <- {<<g, generation[g].parent>> : g \in Published}

-----------------------------------------------------------------------------
(* What the connections of a build read, of a running build or of the row    *)
(* InsertCandidate made of it: the events and the parent,                    *)
EventsHold(r) ==
    /\ \A i \in r.events : i \in AcceptedIds
    /\ \A i \in r.events : \A j \in AcceptedIds \ r.events :
          accepted_event[j].partition = accepted_event[i].partition
                  /\ ~accepted_event[j].late
              => accepted_event[i].offset < accepted_event[j].offset
    /\ \A i \in r.events : accepted_event[i].late => r.mode = "REPLAY"
    /\ r.parent # None => r.parent \in Published

(* then the corrections,                                                     *)
CorrectionsHold(r) ==
    \A i \in r.events : accepted_event[i].late =>
        r.corrections[i] # None /\ r.corrections[i].status = "RESOLVED"

(* and at last the offsets.                                                  *)
OffsetsHold(r) ==
    /\ \A i \in r.events :
          accepted_event[i].offset =< r.frontier[accepted_event[i].partition]
    /\ \A p \in Partition : r.frontier[p] =< checkpoint[p].last
    /\ r.parent # None =>
          \A p \in Partition : generation[r.parent].frontier[p] =< r.frontier[p]

BuildHolds(r) ==
    /\ r.pc # "idle" => r.gid \in Generation /\ r.mode \in Modes /\ EventsHold(r)
    /\ r.pc \in {"directory", "offsets", "insert"} =>
          r.corrections \in CorrectionTables /\ CorrectionsHold(r)
    /\ r.pc = "insert" => r.frontier \in Frontiers /\ OffsetsHold(r)
RowHolds(r) == EventsHold(r) /\ CorrectionsHold(r) /\ OffsetsHold(r)

BuildsHold == \A b \in Builder : BuildHolds(builder[b])
RowsHold == \A g \in Bundles : RowHolds(generation[g])
RowsHaveDirectories == Bundles \subseteq artifacts

PubInv ==
    /\ TypeOK
    /\ Conservation
    /\ OneEffectPerIdentity
    /\ CorrectionsMatchLate
    /\ OneWriterPerBundle
    /\ CorrectionsFollowPublication
    /\ BuildsHold
    /\ RowsHold
    /\ RowsHaveDirectories

(* The store only grows. *)
Grows ==
    /\ \A i \in AcceptedIds : accepted_event'[i] = accepted_event[i]
    /\ \A i \in EventId : accepted_event[i] = None /\ accepted_event'[i] # None =>
          /\ accepted_event'[i].partition \in Partition
          /\ checkpoint[accepted_event'[i].partition].last < accepted_event'[i].offset
    /\ \A p \in Partition : checkpoint[p].last =< checkpoint'[p].last
    /\ \A g \in Published :
          g \in Published' /\ generation'[g].frontier = generation[g].frontier
    /\ artifacts \subseteq artifacts'

-----------------------------------------------------------------------------
LEMMA NoneIsNoRow == None \notin CorrectionRows(Generation) /\ None \notin GenerationRows
  BY PublicationNoneAssumption

(* An accepted event lies below the checkpoint of its partition. *)
LEMMA AcceptedBelow ==
    ASSUME StoreTypeOK, Conservation, OneEffectPerIdentity, NEW i \in AcceptedIds
    PROVE  /\ i \in EventId /\ accepted_event[i] \in AcceptedRows
           /\ accepted_event[i].partition \in Partition
           /\ accepted_event[i].offset \in Nat
           /\ accepted_event[i].offset =< checkpoint[accepted_event[i].partition].last
  <1>1. i \in EventId /\ accepted_event[i] # None
    BY DEF AcceptedIds
  <1>2. accepted_event[i] \in AcceptedRows
    BY <1>1 DEF StoreTypeOK
  <1>3. PICK r \in ingestion_outcome : SameKey(r, accepted_event[i])
    BY <1>1 DEF OneEffectPerIdentity
  <1> QED
    BY <1>1, <1>2, <1>3 DEF AcceptedRows, SameKey, Conservation

(* Consuming an arrival rewrites no accepted row and no correction of one,   *)
(* and accepts at most an event beyond the checkpoint.                       *)
LEMMA ConsumeGrows ==
    ASSUME PubInv, NEW p \in Partition, Consume(p)
    PROVE  /\ \A i \in AcceptedIds :
                 /\ accepted_event'[i] = accepted_event[i]
                 /\ correction_exception'[i] = correction_exception[i]
           /\ \A i \in EventId \ AcceptedIds :
                 /\ accepted_event'[i] # None =>
                       /\ accepted_event'[i].partition = p
                       /\ checkpoint[p].last < accepted_event'[i].offset
                 /\ correction_exception'[i] # None =>
                       correction_exception'[i].status = "OPEN"
           /\ \A q \in Partition : checkpoint[q].last =< checkpoint'[q].last
  <1>1. /\ StoreTypeOK /\ CorrectionTypeOK(Generation) /\ Conservation
        /\ OneEffectPerIdentity /\ CorrectionsMatchLate
    BY DEF PubInv, TypeOK
  <1>2. PICK o \in Nat, e \in Payload, v \in Verdicts :
             /\ o = checkpoint[p].last + 1
             /\ KeysFree(p, o, e, v)
             /\ e = Arrival(p, o)
             /\ v = Verdict(e, seen_event[e.id], checkpoint[p].max)
             /\ RecordOutcome(p, o, seen_event[e.id], checkpoint[p].max)
    BY <1>1, ConsumeEffect
  <1> DEFINE effect == [time |-> e.time, late |-> v = "ACCEPTED_LATE",
                        partition |-> p, offset |-> o]
             correction == [status |-> "OPEN", partition |-> p, offset |-> o,
                            resolved |-> None]
  <1>3. /\ accepted_event' = IF v \in Accepting
                             THEN [accepted_event EXCEPT ![e.id] = effect]
                             ELSE accepted_event
        /\ correction_exception' = IF v = "ACCEPTED_LATE"
                                   THEN [correction_exception EXCEPT ![e.id] = correction]
                                   ELSE correction_exception
        /\ checkpoint' = [checkpoint EXCEPT ![p] =
                             [last |-> o, max |-> NextMax(e, checkpoint[p].max)]]
    BY <1>2 DEF RecordOutcome
  <1>4. /\ e.id \in EventId
        /\ v = "ACCEPTED_LATE" => v \in Accepting
        /\ v \in Accepting => e.id \notin AcceptedIds
    BY <1>1, <1>2 DEF KeysFree, OneEffectPerIdentity, Payload, Accepting, AcceptedIds
  <1>5. /\ effect.partition = p /\ effect.offset = o
        /\ correction.status = "OPEN"
    OBVIOUS
  <1> HIDE DEF effect, correction
  <1>6. \A i \in EventId :
           /\ accepted_event'[i] = IF v \in Accepting /\ i = e.id THEN effect
                                                                  ELSE accepted_event[i]
           /\ correction_exception'[i] =
                 IF v = "ACCEPTED_LATE" /\ i = e.id THEN correction
                                                    ELSE correction_exception[i]
    BY <1>1, <1>3 DEF StoreTypeOK, CorrectionTypeOK
  <1>7. \A i \in EventId \ AcceptedIds :
           accepted_event[i] = None /\ correction_exception[i] = None
    BY <1>1 DEF CorrectionsMatchLate, AcceptedIds
  <1>8. \A i \in AcceptedIds : i \in EventId
    BY DEF AcceptedIds
  <1>9. \A q \in Partition : checkpoint[q].last =< checkpoint'[q].last
    <2>1. \A q \in Partition : checkpoint[q].last \in Int
      BY <1>1 DEF StoreTypeOK
    <2>2. \A q \in Partition : checkpoint'[q].last = IF q = p THEN o ELSE checkpoint[q].last
      BY <1>1, <1>3 DEF StoreTypeOK
    <2> QED
      BY <1>2, <2>1, <2>2
  <1>10. checkpoint[p].last \in Int
    BY <1>1 DEF StoreTypeOK
  <1>11. ASSUME NEW i \in EventId \ AcceptedIds
         PROVE  /\ accepted_event'[i] # None =>
                       /\ accepted_event'[i].partition = p
                       /\ checkpoint[p].last < accepted_event'[i].offset
                /\ correction_exception'[i] # None =>
                       correction_exception'[i].status = "OPEN"
    BY <1>2, <1>5, <1>6, <1>7, <1>10
  <1> QED
    BY <1>4, <1>6, <1>8, <1>9, <1>11

-----------------------------------------------------------------------------
(* What the two kinds of update do to the generation table. *)

BecomesStatus(g, s) == generation' = [generation EXCEPT ![g].status = s]

LEMMA StatusEffect ==
    ASSUME TypeOK, NEW g \in Generation, Exists(g), NEW s \in Statuses,
           BecomesStatus(g, s)
    PROVE  /\ generation' \in [Generation -> GenerationRows \cup {None}]
           /\ \A h \in Generation : generation'[h] # None <=> generation[h] # None
           /\ \A h \in Bundles :
                 /\ generation'[h].parent = generation[h].parent
                 /\ generation'[h].mode = generation[h].mode
                 /\ generation'[h].events = generation[h].events
                 /\ generation'[h].corrections = generation[h].corrections
                 /\ generation'[h].frontier = generation[h].frontier
                 /\ generation'[h].status = IF h = g THEN s ELSE generation[h].status
  <1> DEFINE row == [generation[g] EXCEPT !.status = s]
  <1>1. generation \in [Generation -> GenerationRows \cup {None}]
    BY DEF TypeOK
  <1>2. generation[g] \in GenerationRows
    BY <1>1 DEF Exists
  <1>3. /\ row \in GenerationRows
        /\ row.parent = generation[g].parent /\ row.mode = generation[g].mode
        /\ row.events = generation[g].events
        /\ row.corrections = generation[g].corrections
        /\ row.frontier = generation[g].frontier /\ row.status = s
    BY <1>2 DEF GenerationRows
  <1>4. generation' = [generation EXCEPT ![g] = row]
    BY DEF BecomesStatus
  <1> HIDE DEF row
  <1>5. \A h \in Generation : generation'[h] = IF h = g THEN row ELSE generation[h]
    BY <1>1, <1>4
  <1>6. row # None
    BY <1>3, NoneIsNoRow
  <1>7. generation' \in [Generation -> GenerationRows \cup {None}]
    BY <1>1, <1>3, <1>4
  <1> QED
    BY <1>3, <1>5, <1>6, <1>7 DEF Exists, Bundles

Candidate(r) ==
    [parent |-> r.parent, mode |-> r.mode, status |-> "CANDIDATE",
     events |-> r.events, corrections |-> r.corrections, frontier |-> r.frontier]

LEMMA InsertEffect ==
    ASSUME PubInv, NEW b \in Builder, InsertCandidate(b)
    PROVE  LET g == builder[b].gid
               row == Candidate(builder[b])
           IN  /\ g \in Generation /\ ~Exists(g) /\ g \in artifacts
               /\ row \in GenerationRows /\ row # None
               /\ generation' = [generation EXCEPT ![g] = row]
               /\ \A h \in Generation : generation'[h] = IF h = g THEN row ELSE generation[h]
  <1> DEFINE g == builder[b].gid
             row == Candidate(builder[b])
  <1>1. builder[b].pc = "insert" /\ builder[b] \in BuilderStates
        /\ generation \in [Generation -> GenerationRows \cup {None}]
    BY DEF InsertCandidate, PubInv, TypeOK
  <1>2. /\ g \in Generation /\ builder[b].mode \in Modes
        /\ builder[b].corrections \in CorrectionTables /\ builder[b].frontier \in Frontiers
    BY <1>1 DEF PubInv, BuildsHold, BuildHolds
  <1>3. ~Exists(g) /\ g \in artifacts
    BY <1>1 DEF PubInv, OneWriterPerBundle
  <1>4. row \in GenerationRows
    BY <1>1, <1>2 DEF Candidate, GenerationRows, BuilderStates, Statuses
  <1>5. row # None
    BY <1>4, NoneIsNoRow
  <1>6. generation' = [generation EXCEPT ![g] = row]
    BY <1>3 DEF InsertCandidate, Candidate
  <1> QED
    BY <1>1, <1>2, <1>3, <1>4, <1>5, <1>6

LEMMA InsertKeepsPublished ==
    ASSUME PubInv, NEW b \in Builder, InsertCandidate(b)
    PROVE  Published' = Published
  <1> DEFINE g == builder[b].gid
             row == Candidate(builder[b])
  <1>1. /\ g \in Generation /\ ~Exists(g)
        /\ \A h \in Generation : generation'[h] = IF h = g THEN row ELSE generation[h]
    BY InsertEffect
  <1>2. row.status # "PUBLISHED"
    BY DEF Candidate
  <1> HIDE DEF g, row
  <1> QED
    BY <1>1, <1>2 DEF Published, InStatus, Exists

LEMMA PublishEffect ==
    ASSUME PubInv, NEW g \in Generation, Publish(g)
    PROVE  /\ g \in Bundles \ Published
           /\ generation[g].parent = pointer.active
           /\ pointer'.active = g /\ pointer'.version = pointer.version + 1
           /\ BecomesStatus(g, "PUBLISHED")
           /\ Published' = Published \cup {g}
  <1>1. /\ g \in Bundles \ Published /\ "PUBLISHED" \in Statuses
        /\ generation[g].parent = pointer.active
        /\ pointer'.active = g /\ pointer'.version = pointer.version + 1
        /\ BecomesStatus(g, "PUBLISHED")
    BY DEF Publish, ParentIsActive, InStatus, Bundles, Published, Statuses, BecomesStatus
  <1>2. /\ \A h \in Generation : generation'[h] # None <=> generation[h] # None
        /\ \A h \in Bundles :
              generation'[h].status = IF h = g THEN "PUBLISHED" ELSE generation[h].status
    <2>1. TypeOK /\ Exists(g)
      BY <1>1 DEF PubInv, Bundles
    <2> QED
      BY <1>1, <2>1, StatusEffect
  <1> QED
    BY <1>1, <1>2 DEF Published, InStatus, Bundles, Exists

LEMMA SupersedeEffect ==
    ASSUME PubInv, NEW g \in Generation, Supersede(g)
    PROVE  /\ g \in Bundles
           /\ BecomesStatus(g, "SUPERSEDED")
           /\ Published' = Published
  <1>1. /\ g \in Bundles /\ g \notin Published /\ "SUPERSEDED" \in Statuses
        /\ BecomesStatus(g, "SUPERSEDED")
    BY DEF Supersede, InStatus, Bundles, Published, Statuses, BecomesStatus
  <1>2. /\ \A h \in Generation : generation'[h] # None <=> generation[h] # None
        /\ \A h \in Bundles :
              generation'[h].status = IF h = g THEN "SUPERSEDED" ELSE generation[h].status
    <2>1. TypeOK /\ Exists(g)
      BY <1>1 DEF PubInv, Bundles
    <2> QED
      BY <1>1, <2>1, StatusEffect
  <1> QED
    BY <1>1, <1>2 DEF Published, InStatus, Bundles, Exists

(* The steps of a build before the last one touch neither tables nor rows. *)
LEMMA ReadingStep ==
    ASSUME NEW b \in Builder, Build(b), ~InsertCandidate(b)
    PROVE  UNCHANGED <<storeVars, generation, pointer>> /\ artifacts \subseteq artifacts'
  BY DEF Build, BeginBuild, ReadCorrections, MakeDirectory, ReadOffsets, AbortBuild

LEMMA StepGrows ==
    ASSUME PubInv, [Next]_vars
    PROVE  Grows
  <1>1. \A p \in Partition : checkpoint[p].last \in Int
    BY DEF PubInv, TypeOK, StoreTypeOK
  <1>2. CASE UNCHANGED <<storeVars, generation>> /\ artifacts \subseteq artifacts'
    BY <1>1, <1>2 DEF Grows, storeVars, tables, Published, InStatus, Exists
  <1>3. ASSUME NEW p \in Partition, Consume(p), UNCHANGED publicationVars
        PROVE  Grows
    <2>1. /\ \A i \in AcceptedIds : accepted_event'[i] = accepted_event[i]
          /\ \A i \in EventId \ AcceptedIds :
                accepted_event'[i] # None =>
                   /\ accepted_event'[i].partition = p
                   /\ checkpoint[p].last < accepted_event'[i].offset
          /\ \A q \in Partition : checkpoint[q].last =< checkpoint'[q].last
      BY <1>3, ConsumeGrows
    <2> QED
      BY <1>3, <2>1 DEF Grows, AcceptedIds, publicationVars, Published, InStatus, Exists
  <1>4. ASSUME UNCHANGED <<accepted_event, checkpoint, artifacts>>,
               \A g \in Published :
                  g \in Published' /\ generation'[g].frontier = generation[g].frontier
        PROVE  Grows
    BY <1>1, <1>4 DEF Grows
  <1>5. Published \subseteq Bundles
    BY DEF Published, InStatus, Bundles
  <1>6. ASSUME NEW b \in Builder, InsertCandidate(b) PROVE Grows
    <2>1. \A g \in Bundles : generation'[g] = generation[g]
      BY <1>6, InsertEffect DEF Bundles, Exists
    <2>2. UNCHANGED <<accepted_event, checkpoint, artifacts>>
      BY <1>6 DEF InsertCandidate, storeVars, tables
    <2> QED
      BY <1>4, <1>5, <1>6, <2>1, <2>2, InsertKeepsPublished
  <1>7. ASSUME NEW g \in Generation, Publish(g) PROVE Grows
    <2>1. \A h \in Bundles : generation'[h].frontier = generation[h].frontier
      BY <1>7, PublishEffect, StatusEffect DEF PubInv, Bundles, Statuses
    <2>2. UNCHANGED <<accepted_event, checkpoint, artifacts>>
      BY <1>7 DEF Publish
    <2> QED
      BY <1>4, <1>5, <1>7, <2>1, <2>2, PublishEffect
  <1>8. ASSUME NEW g \in Generation, Supersede(g) PROVE Grows
    <2>1. \A h \in Bundles : generation'[h].frontier = generation[h].frontier
      BY <1>8, SupersedeEffect, StatusEffect DEF PubInv, Bundles, Statuses
    <2>2. UNCHANGED <<accepted_event, checkpoint, artifacts>>
      BY <1>8 DEF Supersede, storeVars, tables
    <2> QED
      BY <1>4, <1>5, <1>8, <2>1, <2>2, SupersedeEffect
  <1> QED
    BY <1>2, <1>3, <1>6, <1>7, <1>8, ReadingStep
    DEF Next, Ingest, StoreNext, vars, publicationVars

-----------------------------------------------------------------------------
(* Types.  A build's record changes by EXCEPT only. *)

BuilderNext(b) == \E r \in BuilderStates : builder' = [builder EXCEPT ![b] = r]

LEMMA IdleIsAState == Idle \in BuilderStates
  BY DEF Idle, BuilderStates

(* A replay's view of a correction row: the same late event, RESOLVED by     *)
(* itself unless it was already.                                             *)
ResolvedBy(g, old, new) ==
    /\ new # None <=> old # None
    /\ old # None =>
          /\ new.status = "RESOLVED"
          /\ new.partition = old.partition /\ new.offset = old.offset
          /\ new.resolved = g \/ new = old

LEMMA CorrectionsForType ==
    ASSUME CorrectionTypeOK(Generation), NEW m \in Modes, NEW g \in Generation
    PROVE  /\ CorrectionsFor(m, g) \in CorrectionTables
           /\ m = "REPLAY" =>
                 \A i \in EventId :
                    ResolvedBy(g, correction_exception[i], CorrectionsFor(m, g)[i])
  <1> DEFINE row(i) == correction_exception[i]
             res(i) == [row(i) EXCEPT !.status = "RESOLVED", !.resolved = g]
             new(i) == IF m = "REPLAY" /\ row(i) # None /\ row(i).status = "OPEN"
                       THEN res(i) ELSE row(i)
  <1>1. ASSUME NEW i \in EventId, row(i) # None
        PROVE  /\ res(i) \in CorrectionRows(Generation) /\ res(i).status = "RESOLVED"
               /\ res(i).partition = row(i).partition /\ res(i).offset = row(i).offset
               /\ res(i).resolved = g
               /\ row(i).status \in {"OPEN", "RESOLVED"}
    BY <1>1 DEF CorrectionTypeOK, CorrectionRows
  <1>2. \A i \in EventId : row(i) \in CorrectionRows(Generation) \cup {None}
    BY DEF CorrectionTypeOK
  <1>3. CorrectionsFor(m, g) = [i \in EventId |-> new(i)]
    BY DEF CorrectionsFor
  <1> HIDE DEF row, res
  <1>4. \A i \in EventId :
           /\ new(i) \in CorrectionRows(Generation) \cup {None}
           /\ m = "REPLAY" => ResolvedBy(g, row(i), new(i))
    BY <1>1, <1>2, NoneIsNoRow DEF ResolvedBy
  <1> HIDE DEF new
  <1>5. \A i \in EventId : m = "REPLAY" => ResolvedBy(g, row(i), CorrectionsFor(m, g)[i])
    BY <1>3, <1>4
  <1> QED
    BY <1>3, <1>4, <1>5 DEF CorrectionTables, row

LEMMA BuilderType ==
    ASSUME PubInv, NEW b \in Builder, Build(b)
    PROVE  BuilderNext(b)
  <1>1. builder[b] \in BuilderStates /\ CorrectionTypeOK(Generation)
    BY DEF PubInv, TypeOK
  <1>2. /\ \A pc \in {"corrections", "directory", "offsets", "insert"} :
              [builder[b] EXCEPT !.pc = pc] \in BuilderStates
        /\ builder[b].gid \in Generation \cup {None}
    BY <1>1 DEF BuilderStates
  <1>3. ASSUME NEW g \in Generation, NEW parent \in Published \cup {None},
               NEW m \in Modes, BeginBuild(b, g, parent, m)
        PROVE  BuilderNext(b)
    <2> DEFINE r == [Idle EXCEPT !.pc = "corrections", !.gid = g, !.parent = parent,
                                 !.mode = m, !.events = EventsFor(m)]
    <2>1. EventsFor(m) \in SUBSET EventId /\ parent \in Generation \cup {None}
      BY DEF EventsFor, AcceptedIds, Published, InStatus
    <2>2. r \in BuilderStates
      BY <2>1 DEF Idle, BuilderStates
    <2>3. builder' = [builder EXCEPT ![b] = r]
      BY <1>3 DEF BeginBuild
    <2> HIDE DEF r
    <2> QED
      BY <2>2, <2>3 DEF BuilderNext
  <1>4. CASE ReadCorrections(b)
    <2> DEFINE r == [builder[b] EXCEPT !.pc = "directory",
                        !.corrections = CorrectionsFor(builder[b].mode, builder[b].gid)]
    <2>1. builder[b].gid \in Generation /\ builder[b].mode \in Modes
      BY <1>4 DEF ReadCorrections, PubInv, BuildsHold, BuildHolds
    <2>2. CorrectionsFor(builder[b].mode, builder[b].gid) \in CorrectionTables
      BY <1>1, <2>1, CorrectionsForType
    <2>3. r \in BuilderStates
      BY <1>1, <2>2 DEF BuilderStates
    <2>4. builder' = [builder EXCEPT ![b] = r]
      BY <1>4 DEF ReadCorrections
    <2> HIDE DEF r
    <2> QED
      BY <2>3, <2>4 DEF BuilderNext
  <1>5. CASE MakeDirectory(b)
    <2> DEFINE r == [builder[b] EXCEPT !.pc = "offsets"]
    <2>1. r \in BuilderStates
      BY <1>2
    <2>2. builder' = [builder EXCEPT ![b] = r] \/ builder' = [builder EXCEPT ![b] = Idle]
      BY <1>5 DEF MakeDirectory
    <2> HIDE DEF r
    <2> QED
      BY <2>1, <2>2, IdleIsAState DEF BuilderNext
  <1>6. CASE ReadOffsets(b)
    <2> DEFINE r == [builder[b] EXCEPT !.pc = "insert", !.frontier = Frontier]
    <2>1. Frontier \in Frontiers
      BY DEF Frontier, Frontiers, PubInv, TypeOK, StoreTypeOK
    <2>2. r \in BuilderStates
      BY <1>1, <2>1 DEF BuilderStates
    <2>3. builder' = [builder EXCEPT ![b] = r] \/ builder' = [builder EXCEPT ![b] = Idle]
      BY <1>6 DEF ReadOffsets
    <2> HIDE DEF r
    <2> QED
      BY <2>2, <2>3, IdleIsAState DEF BuilderNext
  <1>7. CASE InsertCandidate(b) \/ AbortBuild(b)
    <2>1. builder' = [builder EXCEPT ![b] = Idle]
      BY <1>7 DEF InsertCandidate, AbortBuild
    <2> QED
      BY <2>1, IdleIsAState DEF BuilderNext
  <1> QED
    BY <1>3, <1>4, <1>5, <1>6, <1>7 DEF Build

LEMMA ResolvedType ==
    ASSUME CorrectionTypeOK(Generation), NEW g \in Generation
    PROVE  /\ Resolved(g) \in CorrectionTables
           /\ generation[g].mode # "REPLAY" => Resolved(g) = correction_exception
           /\ generation[g].mode = "REPLAY" =>
                 \A i \in EventId : ResolvedBy(g, correction_exception[i], Resolved(g)[i])
  <1>1. generation[g].mode = "REPLAY" => Resolved(g) = CorrectionsFor("REPLAY", g)
    BY DEF Resolved, CorrectionsFor
  <1>2. "REPLAY" \in Modes
    BY DEF Modes
  <1>3. generation[g].mode # "REPLAY" => Resolved(g) = correction_exception
    BY DEF Resolved
  <1>4. correction_exception \in CorrectionTables
    BY DEF CorrectionTypeOK, CorrectionTables
  <1>5. /\ CorrectionsFor("REPLAY", g) \in CorrectionTables
        /\ \A i \in EventId :
              ResolvedBy(g, correction_exception[i], CorrectionsFor("REPLAY", g)[i])
    BY <1>2, CorrectionsForType
  <1> QED
    BY <1>1, <1>3, <1>4, <1>5

LEMMA TypeStep ==
    ASSUME PubInv, [Next]_vars
    PROVE  TypeOK'
  <1>1. /\ StoreTypeOK /\ CorrectionTypeOK(Generation)
        /\ generation \in [Generation -> GenerationRows \cup {None}]
        /\ pointer \in [active : Generation \cup {None}, version : Nat]
        /\ artifacts \subseteq Generation
        /\ builder \in [Builder -> BuilderStates]
    BY DEF PubInv, TypeOK
  <1>2. CASE UNCHANGED vars
    BY <1>1, <1>2 DEF vars, publicationVars, storeVars, tables, TypeOK, StoreTypeOK,
                      CorrectionTypeOK
  <1>3. ASSUME NEW p \in Partition, Consume(p), UNCHANGED publicationVars
        PROVE  TypeOK'
    <2>1. StoreTypeOK' /\ CorrectionTypeOK(Generation)'
      BY <1>1, <1>3, ConsumeType, ConsumeCorrections, NoneIsNoRow DEF PubInv
    <2> QED
      BY <1>1, <1>3, <2>1 DEF publicationVars, TypeOK
  <1>4. ASSUME NEW b \in Builder, Build(b) PROVE TypeOK'
    <2>1. builder' \in [Builder -> BuilderStates]
      BY <1>1, <1>4, BuilderType DEF BuilderNext
    <2>2. UNCHANGED <<storeVars, pointer>> /\ artifacts' \subseteq Generation
      <3>1. CASE MakeDirectory(b)
        <4>1. builder[b].gid \in Generation
          BY <3>1 DEF MakeDirectory, PubInv, BuildsHold, BuildHolds
        <4> QED
          BY <1>1, <3>1, <4>1 DEF MakeDirectory
      <3> QED
        BY <1>1, <1>4, <3>1 DEF Build, BeginBuild, ReadCorrections, ReadOffsets,
                                InsertCandidate, AbortBuild
    <2>3. generation' \in [Generation -> GenerationRows \cup {None}]
      <3>1. CASE InsertCandidate(b)
        BY <1>1, <3>1, InsertEffect
      <3> QED
        BY <1>1, <1>4, <3>1, ReadingStep
    <2> QED
      BY <1>1, <2>1, <2>2, <2>3 DEF TypeOK, storeVars, tables, StoreTypeOK, CorrectionTypeOK
  <1>5. ASSUME NEW g \in Generation, Publish(g) PROVE TypeOK'
    <2>1. generation' \in [Generation -> GenerationRows \cup {None}]
      BY <1>5, PublishEffect, StatusEffect DEF PubInv, Bundles, Statuses
    <2>2. CorrectionTypeOK(Generation)'
      BY <1>1, <1>5, ResolvedType DEF Publish, CorrectionTypeOK, CorrectionTables
    <2>3. /\ pointer' \in [active : Generation \cup {None}, version : Nat]
          /\ UNCHANGED <<log, checkpoint, ingestion_outcome, quarantine, seen_event,
                         accepted_event, artifacts, builder>>
      BY <1>1, <1>5 DEF Publish
    <2> QED
      BY <1>1, <2>1, <2>2, <2>3 DEF TypeOK, StoreTypeOK
  <1>6. ASSUME NEW g \in Generation, Supersede(g) PROVE TypeOK'
    <2>1. generation' \in [Generation -> GenerationRows \cup {None}]
      BY <1>6, SupersedeEffect, StatusEffect DEF PubInv, Bundles, Statuses
    <2>2. UNCHANGED <<storeVars, pointer, artifacts, builder>>
      BY <1>6 DEF Supersede
    <2> QED
      BY <1>1, <2>1, <2>2 DEF TypeOK, storeVars, tables, StoreTypeOK, CorrectionTypeOK
  <1> QED
    BY <1>2, <1>3, <1>4, <1>5, <1>6 DEF Next, Ingest, StoreNext

-----------------------------------------------------------------------------
(* What has been read stays true of a store that only grows. *)

LEMMA EventsKept ==
    ASSUME PubInv, Grows, TypeOK', NEW r, EventsHold(r)
    PROVE  EventsHold(r)'
  <1>1. ASSUME NEW i \in AcceptedIds
        PROVE  /\ i \in AcceptedIds' /\ accepted_event'[i] = accepted_event[i]
               /\ accepted_event[i].partition \in Partition
               /\ accepted_event[i].offset \in Int
               /\ checkpoint[accepted_event[i].partition].last \in Int
               /\ accepted_event[i].offset =< checkpoint[accepted_event[i].partition].last
    <2>1. /\ i \in EventId /\ accepted_event[i].partition \in Partition
          /\ accepted_event[i].offset \in Int
          /\ accepted_event[i].offset =< checkpoint[accepted_event[i].partition].last
      BY AcceptedBelow DEF PubInv, TypeOK
    <2>2. checkpoint[accepted_event[i].partition].last \in Int
      BY <2>1 DEF PubInv, TypeOK, StoreTypeOK
    <2> QED
      BY <2>1, <2>2 DEF Grows, AcceptedIds
  <1>2. ASSUME NEW j \in AcceptedIds', j \notin AcceptedIds
        PROVE  /\ accepted_event'[j].offset \in Int
               /\ checkpoint[accepted_event'[j].partition].last < accepted_event'[j].offset
    <2>1. j \in EventId /\ accepted_event'[j] # None /\ accepted_event[j] = None
      BY <1>2 DEF AcceptedIds
    <2>2. accepted_event'[j] \in AcceptedRows
      BY <2>1 DEF TypeOK, StoreTypeOK
    <2> QED
      BY <2>1, <2>2 DEF Grows, AcceptedRows
  <1>3. \A i \in r.events : i \in AcceptedIds
    BY DEF EventsHold
  <1>4. ASSUME NEW i \in r.events, NEW j \in AcceptedIds', j \notin r.events,
               accepted_event'[j].partition = accepted_event'[i].partition,
               ~accepted_event'[j].late
        PROVE  accepted_event'[i].offset < accepted_event'[j].offset
    <2>1. CASE j \in AcceptedIds
      <3>1. accepted_event'[j] = accepted_event[j] /\ accepted_event'[i] = accepted_event[i]
        BY <1>1, <1>3, <2>1
      <3> QED
        BY <1>4, <2>1, <3>1 DEF EventsHold
    <2>2. CASE j \notin AcceptedIds
      BY <1>1, <1>2, <1>3, <1>4, <2>2
    <2> QED
      BY <2>1, <2>2
  <1>5. \A i \in r.events : accepted_event'[i].late => r.mode = "REPLAY"
    BY <1>1, <1>3 DEF EventsHold
  <1>6. r.parent # None => r.parent \in Published'
    BY DEF EventsHold, Grows
  <1> QED
    BY <1>1, <1>3, <1>4, <1>5, <1>6 DEF EventsHold

LEMMA CorrectionsKept ==
    ASSUME Grows, NEW r, EventsHold(r), CorrectionsHold(r)
    PROVE  CorrectionsHold(r)'
  BY DEF Grows, EventsHold, CorrectionsHold

LEMMA OffsetsKept ==
    ASSUME PubInv, Grows, TypeOK', NEW r, r.frontier \in Frontiers,
           EventsHold(r), OffsetsHold(r)
    PROVE  OffsetsHold(r)'
  <1>1. \A p \in Partition : /\ checkpoint[p].last \in Int /\ checkpoint'[p].last \in Int
                             /\ checkpoint[p].last =< checkpoint'[p].last
                             /\ r.frontier[p] \in Int
    BY DEF Grows, PubInv, TypeOK, StoreTypeOK, Frontiers
  <1>2. \A p \in Partition : r.frontier[p] =< checkpoint'[p].last
    BY <1>1 DEF OffsetsHold
  <1>3. \A i \in r.events :
           accepted_event'[i].offset =< r.frontier[accepted_event'[i].partition]
    BY DEF EventsHold, Grows, OffsetsHold
  <1>4. r.parent # None =>
           \A p \in Partition : generation'[r.parent].frontier[p] =< r.frontier[p]
    BY DEF EventsHold, Grows, OffsetsHold
  <1> QED
    BY <1>2, <1>3, <1>4 DEF OffsetsHold

LEMMA BuildKept ==
    ASSUME PubInv, Grows, TypeOK', NEW r, BuildHolds(r)
    PROVE  BuildHolds(r)'
  <1>1. r.pc # "idle" => EventsHold(r)'
    BY EventsKept DEF BuildHolds
  <1>2. r.pc \in {"directory", "offsets", "insert"} => CorrectionsHold(r)'
    BY CorrectionsKept DEF BuildHolds
  <1>3. r.pc = "insert" => OffsetsHold(r)'
    BY OffsetsKept DEF BuildHolds
  <1> QED
    BY <1>1, <1>2, <1>3 DEF BuildHolds

(* So a step that leaves builds alone keeps them, and one that turns one     *)
(* build into r must establish what r is past.                               *)
LEMMA BuildsKept ==
    ASSUME PubInv, Grows, TypeOK', builder' = builder
    PROVE  BuildsHold'
  <1> SUFFICES ASSUME NEW b \in Builder PROVE BuildHolds(builder[b])'
    BY DEF BuildsHold
  <1>1. PICK r : r = builder[b]
    OBVIOUS
  <1>2. BuildHolds(r)'
    BY <1>1, BuildKept DEF PubInv, BuildsHold
  <1> QED
    BY <1>1, <1>2 DEF BuildHolds, EventsHold, CorrectionsHold, OffsetsHold

LEMMA BuildBecomes ==
    ASSUME PubInv, Grows, TypeOK', NEW b \in Builder, NEW r, BuildHolds(r),
           builder' = [builder EXCEPT ![b] = r]
    PROVE  BuildsHold'
  <1> SUFFICES ASSUME NEW c \in Builder PROVE BuildHolds(builder[c])'
    BY DEF BuildsHold
  <1>1. PICK s : s = IF c = b THEN r ELSE builder[c]
    OBVIOUS
  <1>2. builder'[c] = s
    BY <1>1 DEF PubInv, TypeOK
  <1>3. BuildHolds(s)'
    <2>1. BuildHolds(s)
      BY <1>1 DEF PubInv, BuildsHold
    <2> QED
      BY <2>1, BuildKept
  <1> QED
    BY <1>2, <1>3 DEF BuildHolds, EventsHold, CorrectionsHold, OffsetsHold

LEMMA RowKept ==
    ASSUME PubInv, Grows, TypeOK', NEW r, r.frontier \in Frontiers, RowHolds(r)
    PROVE  RowHolds(r)'
  BY EventsKept, CorrectionsKept, OffsetsKept DEF RowHolds

-----------------------------------------------------------------------------
(* Each part of the invariant survives a step. *)

LEMMA BuildsStep ==
    ASSUME PubInv, [Next]_vars
    PROVE  BuildsHold'
  <1>1. Grows /\ TypeOK'
    BY StepGrows, TypeStep
  <1>2. CASE builder' = builder
    BY <1>1, <1>2, BuildsKept
  <1>3. BuildHolds(Idle)
    BY DEF BuildHolds, Idle
  <1>4. ASSUME NEW b \in Builder, builder' = [builder EXCEPT ![b] = Idle]
        PROVE  BuildsHold'
    <2>1. PICK r : r = Idle
      OBVIOUS
    <2>2. BuildHolds(r) /\ builder' = [builder EXCEPT ![b] = r]
      BY <1>3, <1>4, <2>1
    <2> QED
      BY <1>1, <2>2, BuildBecomes
  <1>5. ASSUME NEW b \in Builder, NEW g \in Generation, NEW parent \in Published \cup {None},
               NEW m \in Modes, BeginBuild(b, g, parent, m)
        PROVE  BuildsHold'
    <2>1. PICK r : r = [Idle EXCEPT !.pc = "corrections", !.gid = g, !.parent = parent,
                                    !.mode = m, !.events = EventsFor(m)]
      OBVIOUS
    <2>2. /\ r.pc = "corrections" /\ r.gid = g /\ r.parent = parent /\ r.mode = m
          /\ r.events = EventsFor(m)
      BY <2>1 DEF Idle
    <2>3. EventsHold(r)
      BY <2>2 DEF EventsHold, EventsFor, AcceptedIds, Modes
    <2>4. BuildHolds(r)
      BY <2>2, <2>3 DEF BuildHolds
    <2>5. builder' = [builder EXCEPT ![b] = r]
      BY <1>5, <2>1 DEF BeginBuild
    <2> QED
      BY <1>1, <2>4, <2>5, BuildBecomes
  <1>6. ASSUME NEW b \in Builder PROVE builder[b] \in BuilderStates /\ BuildHolds(builder[b])
    BY DEF PubInv, TypeOK, BuildsHold
  <1>7. ASSUME NEW b \in Builder, ReadCorrections(b) PROVE BuildsHold'
    <2> DEFINE m == builder[b].mode
               table == CorrectionsFor(m, builder[b].gid)
    <2>1. PICK r : r = [builder[b] EXCEPT !.pc = "directory", !.corrections = table]
      OBVIOUS
    <2>2. /\ r.pc = "directory" /\ r.gid = builder[b].gid /\ r.parent = builder[b].parent
          /\ r.mode = m /\ r.events = builder[b].events /\ r.corrections = table
      BY <1>6, <2>1 DEF BuilderStates
    <2>3. builder[b].gid \in Generation /\ m \in Modes /\ EventsHold(builder[b])
      BY <1>6, <1>7 DEF ReadCorrections, BuildHolds
    <2>4. /\ table \in CorrectionTables
          /\ m = "REPLAY" =>
                \A i \in EventId : ResolvedBy(builder[b].gid, correction_exception[i], table[i])
      BY <2>3, CorrectionsForType DEF PubInv, TypeOK
    <2>5. builder' = [builder EXCEPT ![b] = r]
      BY <1>7, <2>1 DEF ReadCorrections
    <2> HIDE DEF m, table
    <2>6. EventsHold(r)
      BY <2>2, <2>3 DEF EventsHold, m
    <2>7. CorrectionsHold(r)
      <3>1. SUFFICES ASSUME NEW i \in r.events, accepted_event[i].late
                     PROVE  table[i] # None /\ table[i].status = "RESOLVED"
        BY <2>2 DEF CorrectionsHold
      <3>2. m = "REPLAY" /\ i \in EventId /\ accepted_event[i] # None
        BY <2>2, <2>6, <3>1 DEF EventsHold, AcceptedIds
      <3>3. correction_exception[i] # None
        BY <3>1, <3>2 DEF PubInv, CorrectionsMatchLate
      <3> QED
        BY <2>4, <3>2, <3>3 DEF ResolvedBy
    <2>8. BuildHolds(r)
      BY <2>2, <2>3, <2>4, <2>6, <2>7 DEF BuildHolds
    <2> QED
      BY <1>1, <2>5, <2>8, BuildBecomes
  <1>8. ASSUME NEW b \in Builder, MakeDirectory(b) PROVE BuildsHold'
    <2>1. PICK r : r = [builder[b] EXCEPT !.pc = "offsets"]
      OBVIOUS
    <2>2. /\ r.pc = "offsets" /\ r.gid = builder[b].gid /\ r.parent = builder[b].parent
          /\ r.mode = builder[b].mode /\ r.events = builder[b].events
          /\ r.corrections = builder[b].corrections
      BY <1>6, <2>1 DEF BuilderStates
    <2>3. builder[b].pc = "directory"
      BY <1>8 DEF MakeDirectory
    <2>4. EventsHold(r) /\ CorrectionsHold(r)
      BY <1>6, <2>2, <2>3 DEF BuildHolds, EventsHold, CorrectionsHold
    <2>5. BuildHolds(r)
      BY <1>6, <2>2, <2>3, <2>4 DEF BuildHolds
    <2>6. builder' = [builder EXCEPT ![b] = r] \/ builder' = [builder EXCEPT ![b] = Idle]
      BY <1>8, <2>1 DEF MakeDirectory
    <2> QED
      BY <1>1, <1>4, <2>5, <2>6, BuildBecomes
  <1>9. ASSUME NEW b \in Builder, ReadOffsets(b) PROVE BuildsHold'
    <2>1. PICK r : r = [builder[b] EXCEPT !.pc = "insert", !.frontier = Frontier]
      OBVIOUS
    <2>2. /\ r.pc = "insert" /\ r.gid = builder[b].gid /\ r.parent = builder[b].parent
          /\ r.mode = builder[b].mode /\ r.events = builder[b].events
          /\ r.corrections = builder[b].corrections /\ r.frontier = Frontier
      BY <1>6, <2>1 DEF BuilderStates
    <2>3. builder[b].pc = "offsets"
      BY <1>9 DEF ReadOffsets
    <2>4. EventsHold(r) /\ CorrectionsHold(r)
      BY <1>6, <2>2, <2>3 DEF BuildHolds, EventsHold, CorrectionsHold
    <2>5. \A p \in Partition : Frontier[p] = checkpoint[p].last /\ Frontier[p] \in Nat \cup {-1}
      BY DEF Frontier, PubInv, TypeOK, StoreTypeOK
    <2>6. Frontier \in Frontiers
      BY <2>5 DEF Frontier, Frontiers
    <2>7. OffsetsHold(r)
      <3>1. \A i \in r.events :
               /\ accepted_event[i].partition \in Partition
               /\ accepted_event[i].offset =< checkpoint[accepted_event[i].partition].last
        BY <2>4, AcceptedBelow DEF EventsHold, PubInv, TypeOK
      <3>2. r.parent # None =>
               \A p \in Partition : generation[r.parent].frontier[p] =< checkpoint[p].last
        <4>1. r.parent # None => r.parent \in Bundles
          BY <2>4 DEF EventsHold, Published, InStatus, Bundles
        <4> QED
          BY <4>1 DEF PubInv, RowsHold, RowHolds, OffsetsHold
      <3> QED
        BY <2>2, <2>5, <3>1, <3>2 DEF OffsetsHold
    <2>8. BuildHolds(r)
      BY <1>6, <2>2, <2>3, <2>4, <2>6, <2>7 DEF BuildHolds
    <2>9. builder' = [builder EXCEPT ![b] = r] \/ builder' = [builder EXCEPT ![b] = Idle]
      BY <1>9, <2>1 DEF ReadOffsets
    <2> QED
      BY <1>1, <1>4, <2>8, <2>9, BuildBecomes
  <1>10. ASSUME NEW b \in Builder, InsertCandidate(b) \/ AbortBuild(b) PROVE BuildsHold'
    <2>1. builder' = [builder EXCEPT ![b] = Idle]
      BY <1>10 DEF InsertCandidate, AbortBuild
    <2> QED
      BY <1>4, <2>1
  <1>11. ASSUME NEW b \in Builder, Build(b) PROVE BuildsHold'
    BY <1>5, <1>7, <1>8, <1>9, <1>10, <1>11 DEF Build
  <1> QED
    BY <1>2, <1>11 DEF Next, Ingest, Publish, Supersede, vars, publicationVars

LEMMA RowsStep ==
    ASSUME PubInv, [Next]_vars
    PROVE  RowsHold' /\ RowsHaveDirectories'
  <1>1. Grows /\ TypeOK'
    BY StepGrows, TypeStep
  <1>2. ASSUME NEW g \in Bundles
        PROVE  /\ g \in artifacts' /\ generation[g].frontier \in Frontiers
               /\ RowHolds(generation[g])
    BY <1>1 DEF PubInv, TypeOK, RowsHaveDirectories, RowsHold, Grows, Bundles, Exists,
                GenerationRows
  <1>3. ASSUME NEW g \in Bundles,
               generation'[g].parent = generation[g].parent,
               generation'[g].mode = generation[g].mode,
               generation'[g].events = generation[g].events,
               generation'[g].corrections = generation[g].corrections,
               generation'[g].frontier = generation[g].frontier
        PROVE  RowHolds(generation[g])'
    <2>1. PICK r : r = generation[g]
      OBVIOUS
    <2>2. RowHolds(r)'
      BY <1>1, <1>2, <2>1, RowKept
    <2> QED
      BY <1>3, <2>1, <2>2 DEF RowHolds, EventsHold, CorrectionsHold, OffsetsHold
  <1>4. CASE generation' = generation
    <2>1. Bundles' = Bundles
      BY <1>4 DEF Bundles, Exists
    <2> QED
      BY <1>2, <1>3, <1>4, <2>1 DEF RowsHold, RowsHaveDirectories
  <1>5. ASSUME NEW b \in Builder, InsertCandidate(b)
        PROVE  RowsHold' /\ RowsHaveDirectories'
    <2>0. PICK g : g = builder[b].gid
      OBVIOUS
    <2>1. PICK r : r = Candidate(builder[b])
      OBVIOUS
    <2>2. /\ g \in Generation /\ g \in artifacts
          /\ r \in GenerationRows
          /\ \A h \in Generation : generation'[h] = IF h = g THEN r ELSE generation[h]
      BY <1>5, <2>0, <2>1, InsertEffect
    <2>3. /\ builder[b].pc = "insert" /\ BuildHolds(builder[b])
          /\ artifacts' = artifacts
      BY <1>5 DEF InsertCandidate, PubInv, BuildsHold
    <2>4. /\ r.parent = builder[b].parent /\ r.mode = builder[b].mode
          /\ r.events = builder[b].events
          /\ r.corrections = builder[b].corrections /\ r.frontier = builder[b].frontier
      BY <2>1 DEF Candidate
    <2>5. RowHolds(r) /\ r.frontier \in Frontiers
      BY <2>3, <2>4 DEF BuildHolds, RowHolds, EventsHold, CorrectionsHold, OffsetsHold
    <2>6. RowHolds(r)'
      BY <1>1, <2>5, RowKept
    <2>7. RowHolds(generation[g])'
      BY <2>2, <2>6 DEF RowHolds, EventsHold, CorrectionsHold, OffsetsHold
    <2>8. \A h \in Bundles' : h = g \/ (h \in Bundles /\ generation'[h] = generation[h])
      BY <2>2 DEF Bundles, Exists
    <2>9. \A h \in Bundles' : RowHolds(generation[h])' /\ h \in artifacts'
      BY <1>2, <1>3, <2>2, <2>3, <2>7, <2>8
    <2> QED
      BY <2>9 DEF RowsHold, RowsHaveDirectories
  <1>6. ASSUME NEW g \in Generation, Publish(g) \/ Supersede(g)
        PROVE  RowsHold' /\ RowsHaveDirectories'
    <2>1. PICK s \in {"PUBLISHED", "SUPERSEDED"} : BecomesStatus(g, s) /\ g \in Bundles
      BY <1>6, PublishEffect, SupersedeEffect
    <2>2. /\ \A h \in Generation : generation'[h] # None <=> generation[h] # None
          /\ \A h \in Bundles :
                /\ generation'[h].parent = generation[h].parent
                /\ generation'[h].mode = generation[h].mode
                /\ generation'[h].events = generation[h].events
                /\ generation'[h].corrections = generation[h].corrections
                /\ generation'[h].frontier = generation[h].frontier
      <3>1. TypeOK /\ Exists(g) /\ s \in Statuses
        BY <2>1 DEF PubInv, Bundles, Statuses
      <3> QED
        BY <2>1, <3>1, StatusEffect
    <2>3. Bundles' = Bundles
      BY <2>2 DEF Bundles, Exists
    <2> QED
      BY <1>2, <1>3, <2>2, <2>3 DEF RowsHold, RowsHaveDirectories
  <1> QED
    BY <1>4, <1>5, <1>6, ReadingStep DEF Next, Ingest, vars, publicationVars

(* A directory is made before anything else of its bundle and never removed, *)
(* so whoever makes it is alone with it.                                     *)
LEMMA WriterStays ==
    ASSUME PubInv, NEW b \in Builder, NEW r, builder' = [builder EXCEPT ![b] = r],
           \A g \in Generation : Exists(g)' => Exists(g) \/ g = builder[b].gid,
           artifacts \subseteq artifacts',
           builder[b].pc = "insert" \/ \A g \in Generation : Exists(g)' => Exists(g),
           r.pc \in {"offsets", "insert"} =>
              r.gid = builder[b].gid /\ builder[b].pc = "offsets"
    PROVE  OneWriterPerBundle'
  BY DEF PubInv, TypeOK, OneWriterPerBundle, BuildsHold, BuildHolds

LEMMA OneWriterStep ==
    ASSUME PubInv, [Next]_vars
    PROVE  OneWriterPerBundle'
  <1>1. /\ OneWriterPerBundle /\ RowsHaveDirectories
        /\ builder \in [Builder -> BuilderStates]
    BY DEF PubInv, TypeOK
  <1>2. CASE builder' = builder /\ artifacts' = artifacts
             /\ \A g \in Generation : Exists(g)' <=> Exists(g)
    BY <1>1, <1>2 DEF PubInv, OneWriterPerBundle, BuildsHold, BuildHolds
  <1>3. ASSUME NEW b \in Builder, ~InsertCandidate(b), ~MakeDirectory(b), Build(b)
        PROVE  OneWriterPerBundle'
    <2>1. generation' = generation /\ artifacts' = artifacts
      BY <1>3 DEF Build, BeginBuild, ReadCorrections, ReadOffsets, AbortBuild
    <2>2. \A g \in Generation : Exists(g)' => Exists(g)
      BY <2>1 DEF Exists
    <2>3. builder[b] \in BuilderStates
      BY <1>1
    <2>4. ASSUME NEW r, builder' = [builder EXCEPT ![b] = r],
                 r.pc \in {"offsets", "insert"} =>
                    r.gid = builder[b].gid /\ builder[b].pc = "offsets"
          PROVE  OneWriterPerBundle'
      BY <2>1, <2>2, <2>4, WriterStays
    <2>5. ASSUME builder' = [builder EXCEPT ![b] = Idle] PROVE OneWriterPerBundle'
      <3>1. PICK r : r = Idle
        OBVIOUS
      <3>2. r.pc \notin {"offsets", "insert"} /\ builder' = [builder EXCEPT ![b] = r]
        BY <2>5, <3>1 DEF Idle
      <3> QED
        BY <2>4, <3>2
    <2>6. CASE ReadOffsets(b)
      <3>1. PICK r : r = [builder[b] EXCEPT !.pc = "insert", !.frontier = Frontier]
        OBVIOUS
      <3>2. r.gid = builder[b].gid
        BY <2>3, <3>1 DEF BuilderStates
      <3>3. /\ builder[b].pc = "offsets"
            /\ \/ builder' = [builder EXCEPT ![b] = r]
               \/ builder' = [builder EXCEPT ![b] = Idle]
        BY <2>6, <3>1 DEF ReadOffsets
      <3> QED
        BY <2>4, <2>5, <3>2, <3>3
    <2>7. CASE ReadCorrections(b)
      <3>1. PICK r : r = [builder[b] EXCEPT
                             !.pc = "directory",
                             !.corrections = CorrectionsFor(builder[b].mode, builder[b].gid)]
        OBVIOUS
      <3>2. r.pc = "directory"
        BY <2>3, <3>1 DEF BuilderStates
      <3>3. builder' = [builder EXCEPT ![b] = r]
        BY <2>7, <3>1 DEF ReadCorrections
      <3> QED
        BY <2>4, <3>2, <3>3
    <2>8. CASE AbortBuild(b)
      BY <2>5, <2>8 DEF AbortBuild
    <2>9. ASSUME NEW g \in Generation, NEW parent \in Published \cup {None},
                 NEW m \in Modes, BeginBuild(b, g, parent, m)
          PROVE  OneWriterPerBundle'
      <3>1. PICK r : r = [Idle EXCEPT !.pc = "corrections", !.gid = g, !.parent = parent,
                                      !.mode = m, !.events = EventsFor(m)]
        OBVIOUS
      <3>2. r.pc = "corrections"
        BY <3>1 DEF Idle
      <3>3. builder' = [builder EXCEPT ![b] = r]
        BY <2>9, <3>1 DEF BeginBuild
      <3> QED
        BY <2>4, <3>2, <3>3
    <2> QED
      BY <1>3, <2>6, <2>7, <2>8, <2>9 DEF Build
  <1>4. ASSUME NEW b \in Builder, InsertCandidate(b) PROVE OneWriterPerBundle'
    <2>1. /\ builder' = [builder EXCEPT ![b] = Idle]
          /\ builder[b].pc = "insert" /\ artifacts' = artifacts
      BY <1>4 DEF InsertCandidate
    <2>2. \A g \in Generation : Exists(g)' => Exists(g) \/ g = builder[b].gid
      BY <1>4, InsertEffect DEF Exists
    <2>3. PICK r : r = Idle
      OBVIOUS
    <2>4. r.pc \notin {"offsets", "insert"} /\ builder' = [builder EXCEPT ![b] = r]
      BY <2>1, <2>3 DEF Idle
    <2> QED
      BY <2>1, <2>2, <2>4, WriterStays
  <1>5. ASSUME NEW b \in Builder, MakeDirectory(b) PROVE OneWriterPerBundle'
    <2>1. /\ generation' = generation /\ artifacts' = artifacts \cup {builder[b].gid}
          /\ \A g \in Generation : Exists(g)' => Exists(g)
          /\ builder[b] \in BuilderStates
      BY <1>1, <1>5 DEF MakeDirectory, Exists
    <2>2. CASE builder[b].gid \in artifacts
      <3>1. PICK r : r = Idle
        OBVIOUS
      <3>2. r.pc \notin {"offsets", "insert"} /\ builder' = [builder EXCEPT ![b] = r]
        BY <1>5, <2>2, <3>1 DEF MakeDirectory, MayMakeDirectory, Idle
      <3> QED
        BY <2>1, <3>2, WriterStays
    <2>3. CASE builder[b].gid \notin artifacts
      <3>1. PICK r : r = [builder[b] EXCEPT !.pc = "offsets"]
        OBVIOUS
      <3>2. r.gid = builder[b].gid
        BY <2>1, <3>1 DEF BuilderStates
      <3>3. builder' = [builder EXCEPT ![b] = r]
        BY <1>5, <2>3, <3>1 DEF MakeDirectory, MayMakeDirectory
      <3>4. builder[b].gid \in Generation
        BY <1>5 DEF MakeDirectory, PubInv, BuildsHold, BuildHolds
      <3>5. ~Exists(builder[b].gid)
        BY <1>1, <2>3, <3>4 DEF RowsHaveDirectories, Bundles
      <3>6. \A c \in Builder : builder'[c] = IF c = b THEN r ELSE builder[c]
        BY <1>1, <3>3
      <3>7. \A c \in Builder \ {b} : builder[c].pc \in {"offsets", "insert"} =>
               builder[c].gid \in artifacts /\ builder[c].gid # builder[b].gid
        BY <1>1, <2>3 DEF OneWriterPerBundle
      <3> QED
        BY <1>1, <2>1, <3>2, <3>5, <3>6, <3>7 DEF OneWriterPerBundle, Exists
    <2> QED
      BY <2>2, <2>3
  <1>6. ASSUME NEW g \in Generation, Publish(g) \/ Supersede(g)
        PROVE  OneWriterPerBundle'
    <2>1. PICK s \in {"PUBLISHED", "SUPERSEDED"} : BecomesStatus(g, s) /\ g \in Bundles
      BY <1>6, PublishEffect, SupersedeEffect
    <2>2. TypeOK /\ Exists(g) /\ s \in Statuses
      BY <2>1 DEF PubInv, Bundles, Statuses
    <2>3. \A h \in Generation : Exists(h)' <=> Exists(h)
      BY <2>1, <2>2, StatusEffect DEF Exists
    <2>4. builder' = builder /\ artifacts' = artifacts
      BY <1>6 DEF Publish, Supersede
    <2> QED
      BY <1>2, <2>3, <2>4
  <1>7. CASE UNCHANGED publicationVars
    BY <1>2, <1>7 DEF publicationVars, Exists
  <1> QED
    BY <1>3, <1>4, <1>5, <1>6, <1>7 DEF Next, Ingest, vars

LEMMA CorrectionsMatchStep ==
    ASSUME PubInv, [Next]_vars
    PROVE  CorrectionsMatchLate'
  <1>1. CASE UNCHANGED <<accepted_event, correction_exception>>
    BY <1>1 DEF PubInv, CorrectionsMatchLate
  <1>2. ASSUME NEW p \in Partition, Consume(p) PROVE CorrectionsMatchLate'
    BY <1>2, ConsumeCorrections, NoneIsNoRow DEF PubInv, TypeOK
  <1>3. ASSUME NEW g \in Generation, Publish(g) PROVE CorrectionsMatchLate'
    <2>1. correction_exception' = Resolved(g) /\ accepted_event' = accepted_event
      BY <1>3 DEF Publish
    <2>2. /\ CorrectionTypeOK(Generation)
          /\ generation[g].mode # "REPLAY" => correction_exception' = correction_exception
          /\ generation[g].mode = "REPLAY" =>
                \A i \in EventId :
                   ResolvedBy(g, correction_exception[i], correction_exception'[i])
      BY <2>1, ResolvedType DEF PubInv, TypeOK
    <2> QED
      BY <1>1, <2>1, <2>2 DEF PubInv, CorrectionsMatchLate, ResolvedBy, SameKey
  <1>4. \A b \in Builder : Build(b) => UNCHANGED storeVars
    BY DEF Build, BeginBuild, ReadCorrections, MakeDirectory, ReadOffsets, AbortBuild,
           InsertCandidate
  <1> QED
    BY <1>1, <1>2, <1>3, <1>4 DEF Next, Ingest, StoreNext, Supersede, vars, storeVars, tables

LEMMA ConservationStep ==
    ASSUME PubInv, [Next]_vars
    PROVE  Conservation' /\ OneEffectPerIdentity'
  <1>1. CASE UNCHANGED <<log, checkpoint, ingestion_outcome, quarantine, seen_event,
                         accepted_event>>
    <2>1. /\ \A p, o : Arrival(p, o)' = Arrival(p, o) /\ (HasOutcome(p, o)' <=> HasOutcome(p, o))
          /\ \A r : RowArrival(r)' = RowArrival(r)
      BY <1>1 DEF Arrival, HasOutcome, RowArrival
    <2>2. Conservation'
      BY <1>1, <2>1 DEF PubInv, Conservation
    <2>3. OneEffectPerIdentity'
      BY <1>1, <2>1 DEF PubInv, OneEffectPerIdentity
    <2> QED
      BY <2>2, <2>3
  <1>2. ASSUME NEW p \in Partition, Consume(p)
        PROVE  Conservation' /\ OneEffectPerIdentity'
    BY <1>2, ConsumeConservation, ConsumeOneEffect DEF PubInv, TypeOK
  <1>3. \A b \in Builder : Build(b) => UNCHANGED storeVars
    BY DEF Build, BeginBuild, ReadCorrections, MakeDirectory, ReadOffsets, AbortBuild,
           InsertCandidate
  <1> QED
    BY <1>1, <1>2, <1>3
    DEF Next, Ingest, StoreNext, Publish, Supersede, vars, storeVars, tables

(* The two halves of CorrectionsFollowPublication. *)
ResolvedNamesReplay ==
    \A i \in EventId :
        correction_exception[i] # None /\ correction_exception[i].status = "RESOLVED" =>
            /\ correction_exception[i].resolved \in Published
            /\ generation[correction_exception[i].resolved].mode = "REPLAY"
PublishedAreResolved ==
    \A g \in Published : \A i \in generation[g].events :
        IsLateEvent(i) => correction_exception[i].status = "RESOLVED"

LEMMA TwoHalves == CorrectionsFollowPublication <=> ResolvedNamesReplay /\ PublishedAreResolved
  BY DEF CorrectionsFollowPublication, ResolvedNamesReplay, PublishedAreResolved

LEMMA CorrectionsFollowStep ==
    ASSUME PubInv, [Next]_vars
    PROVE  CorrectionsFollowPublication'
  <1>1. /\ ResolvedNamesReplay /\ PublishedAreResolved
        /\ \A g \in Published : g \in Bundles /\ RowHolds(generation[g])
    BY TwoHalves DEF PubInv, RowsHold, Published, InStatus, Bundles
  <1>2. \A g \in Published : \A i \in generation[g].events : i \in AcceptedIds
    BY <1>1 DEF RowHolds, EventsHold
  <1>3. ASSUME UNCHANGED <<accepted_event, correction_exception>>,
               Published' = Published,
               \A g \in Published : /\ generation'[g].mode = generation[g].mode
                                    /\ generation'[g].events = generation[g].events
        PROVE  ResolvedNamesReplay' /\ PublishedAreResolved'
    BY <1>1, <1>3 DEF ResolvedNamesReplay, PublishedAreResolved, IsLateEvent
  <1>4. ASSUME UNCHANGED <<accepted_event, correction_exception, generation>>
        PROVE  ResolvedNamesReplay' /\ PublishedAreResolved'
    <2>1. Published' = Published
      BY <1>4 DEF Published, InStatus, Exists
    <2> QED
      BY <1>3, <1>4, <2>1
  <1>5. ASSUME NEW p \in Partition, Consume(p), UNCHANGED publicationVars
        PROVE  ResolvedNamesReplay' /\ PublishedAreResolved'
    <2>1. /\ generation' = generation /\ Published' = Published
      BY <1>5 DEF publicationVars, Published, InStatus, Exists
    <2>2. /\ \A i \in AcceptedIds :
                /\ accepted_event'[i] = accepted_event[i]
                /\ correction_exception'[i] = correction_exception[i]
          /\ \A i \in EventId \ AcceptedIds :
                correction_exception'[i] # None => correction_exception'[i].status = "OPEN"
      BY <1>5, ConsumeGrows
    <2>3. ResolvedNamesReplay'
      BY <1>1, <2>1, <2>2 DEF ResolvedNamesReplay
    <2>4. PublishedAreResolved'
      BY <1>1, <1>2, <2>1, <2>2 DEF PublishedAreResolved, IsLateEvent
    <2> QED
      BY <2>3, <2>4
  <1>6. ASSUME NEW b \in Builder, InsertCandidate(b)
        PROVE  ResolvedNamesReplay' /\ PublishedAreResolved'
    <2>1. Published' = Published /\ UNCHANGED <<accepted_event, correction_exception>>
      BY <1>6, InsertKeepsPublished DEF InsertCandidate, storeVars, tables
    <2>2. \A g \in Bundles : generation'[g] = generation[g]
      BY <1>6, InsertEffect DEF Bundles, Exists
    <2> QED
      BY <1>1, <1>3, <2>1, <2>2
  <1>7. ASSUME NEW g \in Generation, Supersede(g)
        PROVE  ResolvedNamesReplay' /\ PublishedAreResolved'
    <2>1. /\ Published' = Published /\ g \in Bundles /\ BecomesStatus(g, "SUPERSEDED")
          /\ UNCHANGED <<accepted_event, correction_exception>>
      BY <1>7, SupersedeEffect DEF Supersede, storeVars, tables
    <2>2. \A h \in Bundles : /\ generation'[h].mode = generation[h].mode
                             /\ generation'[h].events = generation[h].events
      BY <2>1, StatusEffect DEF PubInv, Bundles, Statuses
    <2> QED
      BY <1>1, <1>3, <2>1, <2>2
  <1>8. ASSUME NEW g \in Generation, Publish(g)
        PROVE  ResolvedNamesReplay' /\ PublishedAreResolved'
    <2>1. /\ g \in Bundles /\ BecomesStatus(g, "PUBLISHED")
          /\ Published' = Published \cup {g}
      BY <1>8, PublishEffect
    <2>2. \A h \in Bundles : /\ generation'[h].mode = generation[h].mode
                             /\ generation'[h].events = generation[h].events
      BY <2>1, StatusEffect DEF PubInv, Bundles, Statuses
    <2>3. accepted_event' = accepted_event /\ correction_exception' = Resolved(g)
      BY <1>8 DEF Publish
    <2>4. CASE generation[g].mode = "REPLAY"
      <3>1. \A i \in EventId : ResolvedBy(g, correction_exception[i], correction_exception'[i])
        BY <2>1, <2>3, <2>4, ResolvedType DEF PubInv, TypeOK, Bundles
      <3>2. ResolvedNamesReplay'
        BY <1>1, <2>1, <2>2, <2>4, <3>1 DEF ResolvedNamesReplay, ResolvedBy
      <3>3. \A h \in Published' : \A i \in generation'[h].events : i \in EventId
        BY <1>1, <2>1, <2>2 DEF PubInv, RowsHold, RowHolds, EventsHold, AcceptedIds
      <3>4. PublishedAreResolved'
        BY <2>3, <3>1, <3>3
        DEF PublishedAreResolved, IsLateEvent, ResolvedBy, PubInv, CorrectionsMatchLate
      <3> QED
        BY <3>2, <3>4
    <2>5. CASE generation[g].mode # "REPLAY"
      <3>1. correction_exception' = correction_exception
        BY <2>3, <2>5 DEF Resolved
      <3>2. ResolvedNamesReplay'
        BY <1>1, <2>1, <2>2, <3>1 DEF ResolvedNamesReplay
      <3>3. \A i \in generation[g].events : ~accepted_event[i].late
        BY <2>1, <2>5 DEF PubInv, RowsHold, RowHolds, EventsHold
      <3>4. PublishedAreResolved'
        BY <1>1, <2>1, <2>2, <2>3, <3>1, <3>3 DEF PublishedAreResolved, IsLateEvent
      <3> QED
        BY <3>2, <3>4
    <2> QED
      BY <2>4, <2>5
  <1>9. ResolvedNamesReplay' /\ PublishedAreResolved'
    BY <1>4, <1>5, <1>6, <1>7, <1>8, ReadingStep
    DEF Next, Ingest, StoreNext, vars, publicationVars, storeVars, tables
  <1> QED
    BY <1>9 DEF CorrectionsFollowPublication, ResolvedNamesReplay, PublishedAreResolved

LEMMA PubInit == Init => PubInv
  <1> SUFFICES ASSUME Init PROVE PubInv
    OBVIOUS
  <1>1. /\ StoreInit /\ generation = [g \in Generation |-> None]
        /\ pointer = [active |-> None, version |-> 0] /\ artifacts = {}
        /\ builder = [b \in Builder |-> Idle]
    BY DEF Init
  <1>2. StoreInv /\ correction_exception = [i \in EventId |-> None]
    BY <1>1, StoreInitInv DEF StoreInit, EmptyTables
  <1>3. TypeOK
    BY <1>1, <1>2, IdleIsAState DEF StoreInv, TypeOK, CorrectionTypeOK
  <1>4. Bundles = {} /\ Published = {}
    BY <1>1 DEF Bundles, Published, InStatus, Exists
  <1>5. RowsHold /\ RowsHaveDirectories /\ CorrectionsFollowPublication
    BY <1>2, <1>4 DEF RowsHold, RowsHaveDirectories, CorrectionsFollowPublication
  <1>6. \A b \in Builder : builder[b].pc = "idle"
    BY <1>1 DEF Idle
  <1>7. OneWriterPerBundle
    BY <1>6 DEF OneWriterPerBundle
  <1>8. BuildsHold
    BY <1>6 DEF BuildsHold, BuildHolds
  <1> QED
    BY <1>2, <1>3, <1>5, <1>7, <1>8 DEF PubInv, StoreInv

LEMMA PubStep == PubInv /\ [Next]_vars => PubInv'
  BY TypeStep, ConservationStep, CorrectionsMatchStep, OneWriterStep,
     CorrectionsFollowStep, BuildsStep, RowsStep DEF PubInv

LEMMA PubAlways == Spec => []PubInv
  BY PubInit, PubStep, PTL DEF Spec

-----------------------------------------------------------------------------
(* Rows and the local variables of racing and dying builds keep the types of *)
(* the schema.                                                               *)
THEOREM PublicationTyped == Spec => []TypeOK
  <1>1. PubInv => TypeOK
    BY DEF PubInv
  <1> QED
    BY <1>1, PubAlways, PTL

(* mkdir(exist_ok=False) gives every bundle one writer (build_generation).   *)
THEOREM EachBundleHasOneWriter == Spec => []OneWriterPerBundle
  <1>1. PubInv => OneWriterPerBundle
    BY DEF PubInv
  <1> QED
    BY <1>1, PubAlways, PTL

(* Events and offsets come from different connections, yet the events of a   *)
(* bundle are what one moment of the store held, below its manifest's        *)
(* offsets (build_generation).  Its corrections are read on yet another      *)
(* connection and may be of a later moment.                                  *)
THEOREM BundlesAreSnapshots == Spec => []BundleWithinFrontier
  <1>1. PubInv => BundleWithinFrontier
    <2> SUFFICES ASSUME PubInv, NEW g \in Bundles, NEW i \in generation[g].events
                 PROVE  /\ accepted_event[i].offset
                              =< generation[g].frontier[accepted_event[i].partition]
                        /\ \A j \in AcceptedIds \ generation[g].events :
                              (accepted_event[j].partition = accepted_event[i].partition
                                   /\ ~accepted_event[j].late)
                              => accepted_event[j].offset > accepted_event[i].offset
      BY DEF BundleWithinFrontier
    <2>1. EventsHold(generation[g]) /\ OffsetsHold(generation[g])
      BY DEF PubInv, RowsHold, RowHolds
    <2>2. \A j \in AcceptedIds : accepted_event[j].offset \in Int
      BY AcceptedBelow DEF PubInv, TypeOK
    <2> QED
      BY <2>1, <2>2 DEF EventsHold, OffsetsHold
  <1> QED
    BY <1>1, PubAlways, PTL

(* A late event is in REPLAY bundles only, RESOLVED there although the       *)
(* corrections are read after the events (build_generation, _corrections).   *)
THEOREM LateEventsNeedReplay == Spec => []LateOnlyThroughReplay
  <1>1. PubInv => LateOnlyThroughReplay
    BY DEF PubInv, RowsHold, RowHolds, EventsHold, CorrectionsHold,
           LateOnlyThroughReplay, IsLateEvent
  <1> QED
    BY <1>1, PubAlways, PTL

(* Publishing a REPLAY resolves corrections and nothing else does (publish). *)
THEOREM CorrectionsFollow == Spec => []CorrectionsFollowPublication
  <1>1. PubInv => CorrectionsFollowPublication
    BY DEF PubInv
  <1> QED
    BY <1>1, PubAlways, PTL

(* publish implements the abstract compare-and-swap, whatever builds,        *)
(* publications and arrivals race.                                           *)
THEOREM PublishRefinesPointer == Spec => PublishesByCompareAndSwap
  <1> DEFINE line == {<<g, generation[g].parent>> : g \in Published}
  <1>1. Init => Pointer!Init
    BY DEF Init, Published, InStatus, Exists, Pointer!Init
  <1>2. PubInv /\ [Next]_vars => [Pointer!Next]_(Pointer!pointerVars)
    <2> SUFFICES ASSUME PubInv, [Next]_vars
                 PROVE  Pointer!Next \/ UNCHANGED Pointer!pointerVars
      OBVIOUS
    <2>1. Published \subseteq Bundles
      BY DEF Published, InStatus, Bundles
    <2>2. ASSUME pointer' = pointer, Published' = Published,
                 \A g \in Published : generation'[g].parent = generation[g].parent
          PROVE  UNCHANGED Pointer!pointerVars
      BY <2>2 DEF Pointer!pointerVars
    <2>3. CASE UNCHANGED <<generation, pointer>>
      <3>1. Published' = Published
        BY <2>3 DEF Published, InStatus, Exists
      <3> QED
        BY <2>2, <2>3, <3>1
    <2>4. ASSUME NEW b \in Builder, InsertCandidate(b) PROVE UNCHANGED Pointer!pointerVars
      <3>1. Published' = Published /\ pointer' = pointer
        BY <2>4, InsertKeepsPublished DEF InsertCandidate
      <3>2. \A g \in Bundles : generation'[g] = generation[g]
        BY <2>4, InsertEffect DEF Bundles, Exists
      <3> QED
        BY <2>1, <2>2, <3>1, <3>2
    <2>5. ASSUME NEW g \in Generation, Supersede(g) PROVE UNCHANGED Pointer!pointerVars
      <3>1. /\ Published' = Published /\ pointer' = pointer
            /\ g \in Bundles /\ BecomesStatus(g, "SUPERSEDED")
        BY <2>5, SupersedeEffect DEF Supersede
      <3>2. \A h \in Bundles : generation'[h].parent = generation[h].parent
        BY <3>1, StatusEffect DEF PubInv, Bundles, Statuses
      <3> QED
        BY <2>1, <2>2, <3>1, <3>2
    <2>6. ASSUME NEW g \in Generation, Publish(g) PROVE Pointer!Next
      <3>1. /\ g \in Bundles \ Published /\ generation[g].parent = pointer.active
            /\ pointer'.active = g /\ pointer'.version = pointer.version + 1
            /\ BecomesStatus(g, "PUBLISHED") /\ Published' = Published \cup {g}
        BY <2>6, PublishEffect
      <3>2. \A h \in Bundles : generation'[h].parent = generation[h].parent
        BY <3>1, StatusEffect DEF PubInv, Bundles, Statuses
      <3>3. line' = line \cup {<<g, pointer.active>>}
        BY <2>1, <3>1, <3>2
      <3>4. \A e \in line : e[1] \in Published
        OBVIOUS
      <3> QED
        BY <3>1, <3>3, <3>4 DEF Pointer!Next, Pointer!Publish, Pointer!Published
    <2> QED
      BY <2>3, <2>4, <2>5, <2>6, ReadingStep DEF Next, Ingest, vars, publicationVars
  <1> QED
    BY <1>1, <1>2, PubAlways, PTL DEF Spec, PublishesByCompareAndSwap, Pointer!Spec

(* "LIVE advances; REPLAY never rewinds": the swap compares the parent, and  *)
(* a build's offsets are read after its parent was published (publish,       *)
(* build_generation).                                                        *)
THEOREM FrontierOnlyAdvances == Spec => FrontierNeverRewinds
  <1> DEFINE Advances ==
        pointer.active # None /\ pointer'.active # pointer.active =>
            \A p \in Partition :
                generation[pointer.active].frontier[p]
                    =< generation'[pointer'.active].frontier[p]
  <1>1. PubInv /\ [Next]_vars => [Advances]_vars
    <2> SUFFICES ASSUME PubInv, [Next]_vars, pointer'.active # pointer.active,
                        pointer.active # None
                 PROVE  \A p \in Partition :
                           generation[pointer.active].frontier[p]
                               =< generation'[pointer'.active].frontier[p]
      OBVIOUS
    <2>1. \A b \in Builder : Build(b) => pointer' = pointer
      BY DEF Build, BeginBuild, ReadCorrections, MakeDirectory, ReadOffsets, AbortBuild,
             InsertCandidate
    <2>2. PICK g \in Generation : Publish(g)
      BY <2>1 DEF Next, Ingest, publicationVars, Supersede, vars
    <2>3. /\ g \in Bundles /\ generation[g].parent = pointer.active
          /\ pointer'.active = g /\ BecomesStatus(g, "PUBLISHED")
      BY <2>2, PublishEffect
    <2>4. generation'[g].frontier = generation[g].frontier
      BY <2>3, StatusEffect DEF PubInv, Bundles, Statuses
    <2>5. OffsetsHold(generation[g])
      BY <2>3 DEF PubInv, RowsHold, RowHolds
    <2> QED
      BY <2>3, <2>4, <2>5 DEF OffsetsHold
  <1> QED
    BY <1>1, PubAlways, PTL DEF Spec, FrontierNeverRewinds

(* Hence the published generations of the store form one line, and the       *)
(* version of the pointer is its length (publish).                           *)
THEOREM StorePublishesOneLine == Spec => []PublishedLine
  <1>1. Pointer!Init => Line!Init
    BY DEF Pointer!Init, Line!Init
  <1>2. [Pointer!Next]_(Pointer!pointerVars) => [Line!Next]_(Line!pointerVars)
    BY DEF Pointer!Next, Line!Next, Pointer!Publish, Line!Publish,
           Pointer!Published, Line!Published, Pointer!pointerVars, Line!pointerVars
  <1>3. Line!Spec => [](Line!PointerTypeOK /\ Line!OneLine /\ Line!VersionCountsPublications)
    BY Line!PointerCorrect, PublicationNoneAssumption
  <1>4. Line!OneLine /\ Line!VersionCountsPublications => PublishedLine
    <2>1. Line!Published = Pointer!Published
      BY DEF Line!Published, Pointer!Published
    <2>2. Line!OneLine => Pointer!OneLine
      BY <2>1 DEF Line!OneLine, Pointer!OneLine
    <2>3. Line!VersionCountsPublications => Pointer!VersionCountsPublications
      BY Zenon DEF Line!VersionCountsPublications, Pointer!VersionCountsPublications,
                   Line!IsFiniteSet, Pointer!IsFiniteSet,
                   Line!Cardinality, Pointer!Cardinality
    <2> QED
      BY <2>2, <2>3 DEF PublishedLine
  <1>5. Pointer!Spec => Line!Spec
    BY <1>1, <1>2, PTL DEF Pointer!Spec, Line!Spec
  <1>6. Spec => Pointer!Spec
    BY PublishRefinesPointer DEF PublishesByCompareAndSwap
  <1> QED
    BY <1>3, <1>4, <1>5, <1>6, PTL

(* Whoever reads the active bundle reads at least as far, in every           *)
(* partition, as anyone read before, through lives and replays alike.        *)
THEOREM ActiveReadsFurthest == Spec => []ActiveIsFurthest
  <1> DEFINE Inv == /\ ActiveIsFurthest
                    /\ Published # {} => pointer.active \in Published
  <1>1. Init => Inv
    BY DEF Init, Published, InStatus, Exists, ActiveIsFurthest
  <1>2. PubInv /\ Inv /\ [Next]_vars => Inv'
    <2> SUFFICES ASSUME PubInv, Inv, [Next]_vars PROVE Inv'
      OBVIOUS
    <2>1. \A g \in Published :
             g \in Published' /\ generation'[g].frontier = generation[g].frontier
      BY StepGrows DEF Grows
    <2>2. \A g \in Published : g \in Bundles /\ g \in Generation
      BY DEF Published, InStatus, Bundles
    <2>3. ASSUME Published' = Published, pointer' = pointer PROVE Inv'
      BY <2>1, <2>3 DEF ActiveIsFurthest
    <2>4. ASSUME NEW g \in Generation, Publish(g) PROVE Inv'
      <3>1. /\ g \in Bundles \ Published /\ generation[g].parent = pointer.active
            /\ pointer'.active = g /\ BecomesStatus(g, "PUBLISHED")
            /\ Published' = Published \cup {g}
        BY <2>4, PublishEffect
      <3>2. generation'[g].frontier = generation[g].frontier
        BY <3>1, StatusEffect DEF PubInv, Bundles, Statuses
      <3>3. OffsetsHold(generation[g])
        BY <3>1 DEF PubInv, RowsHold, RowHolds
      <3>4. \A h \in Bundles, p \in Partition : generation[h].frontier[p] \in Int
        BY PublicationNoneAssumption DEF PubInv, TypeOK, Bundles, Exists, GenerationRows, Frontiers
      <3>5. ASSUME NEW h \in Published, NEW p \in Partition
            PROVE  generation[h].frontier[p] =< generation[g].frontier[p]
        <4>1. pointer.active \in Published /\ pointer.active # None
          BY <2>2, PublicationNoneAssumption
        <4>2. generation[h].frontier[p] =< generation[pointer.active].frontier[p]
          BY DEF ActiveIsFurthest
        <4>3. generation[pointer.active].frontier[p] =< generation[g].frontier[p]
          BY <3>1, <3>3, <4>1 DEF OffsetsHold
        <4> QED
          BY <2>2, <3>1, <3>4, <4>1, <4>2, <4>3
      <3>6. ASSUME NEW h \in Published', NEW p \in Partition
            PROVE  generation'[h].frontier[p] =< generation'[g].frontier[p]
        BY <2>1, <3>1, <3>2, <3>4, <3>5
      <3> QED
        BY <3>1, <3>6 DEF ActiveIsFurthest
    <2>5. CASE UNCHANGED <<generation, pointer>>
      BY <2>3, <2>5 DEF Published, InStatus, Exists
    <2>6. ASSUME NEW b \in Builder, InsertCandidate(b) PROVE Inv'
      BY <2>3, <2>6, InsertKeepsPublished DEF InsertCandidate
    <2>7. ASSUME NEW g \in Generation, Supersede(g) PROVE Inv'
      BY <2>3, <2>7, SupersedeEffect DEF Supersede
    <2> QED
      BY <2>4, <2>5, <2>6, <2>7, ReadingStep DEF Next, Ingest, vars, publicationVars
  <1>3. Inv => ActiveIsFurthest
    OBVIOUS
  <1> HIDE DEF Inv
  <1> QED
    BY <1>1, <1>2, <1>3, PubAlways, PTL DEF Spec

(* mkdir(exist_ok=False) refuses the directory an abandoned build has left,  *)
(* in every later build of the id (build_generation).                        *)
THEOREM AbandonedIdsStayUnbuilt == Spec => AbandonedForGood
  <1> DEFINE Stay == \A g \in Generation : Abandoned(g) => Abandoned(g)'
  <1>1. PubInv /\ [Next]_vars => [Stay]_vars
    <2> SUFFICES ASSUME PubInv, [Next]_vars, NEW g \in Generation, Abandoned(g)
                 PROVE  Abandoned(g)'
      OBVIOUS
    <2>1. builder \in [Builder -> BuilderStates] /\ g \in artifacts /\ generation[g] = None
      BY DEF PubInv, TypeOK, Abandoned, Exists
    <2>2. CASE UNCHANGED <<generation, artifacts, builder>>
      BY <2>2 DEF Abandoned, Exists
    <2>3. ASSUME NEW b \in Builder, Build(b) PROVE Abandoned(g)'
      <3>1. artifacts \subseteq artifacts'
        BY <2>3 DEF Build, BeginBuild, ReadCorrections, MakeDirectory, ReadOffsets,
                    InsertCandidate, AbortBuild
      <3>2. generation'[g] = None
        <4>1. CASE InsertCandidate(b)
          <5>1. builder[b].gid # g
            BY <4>1 DEF Abandoned, InsertCandidate
          <5> QED
            BY <2>1, <4>1, <5>1, InsertEffect
        <4>2. CASE ~InsertCandidate(b)
          BY <2>1, <2>3, <4>2, ReadingStep
        <4> QED
          BY <4>1, <4>2
      <3>3. /\ \A c \in Builder \ {b} : builder'[c] = builder[c]
            /\ builder'[b].pc \in {"offsets", "insert"} => builder'[b].gid # g
        <4>1. ASSUME NEW r, builder' = [builder EXCEPT ![b] = r],
                     r.pc \in {"offsets", "insert"} => r.gid # g
              PROVE  /\ \A c \in Builder \ {b} : builder'[c] = builder[c]
                     /\ builder'[b].pc \in {"offsets", "insert"} => builder'[b].gid # g
          BY <2>1, <4>1
        <4>2. Idle.pc = "idle"
          BY DEF Idle
        <4>3. \/ builder' = [builder EXCEPT ![b] = Idle]
              \/ /\ \A c \in Builder \ {b} : builder'[c] = builder[c]
                 /\ builder'[b].pc \in {"corrections", "directory"}
              \/ /\ builder[b].pc = "directory" /\ builder[b].gid \notin artifacts
                 /\ builder' = [builder EXCEPT ![b] = [builder[b] EXCEPT !.pc = "offsets"]]
              \/ /\ builder[b].pc = "offsets"
                 /\ \E f : builder' = [builder EXCEPT ![b] =
                                          [builder[b] EXCEPT !.pc = "insert", !.frontier = f]]
          <5>1. CASE \E h \in Generation, parent \in Published \cup {None}, mode \in Modes :
                        BeginBuild(b, h, parent, mode)
            BY <2>1, <5>1 DEF BeginBuild, Idle
          <5>2. CASE ReadCorrections(b)
            BY <2>1, <5>2 DEF ReadCorrections, BuilderStates
          <5>3. CASE MakeDirectory(b)
            BY <2>1, <5>3 DEF MakeDirectory, MayMakeDirectory
          <5>4. CASE ReadOffsets(b)
            BY <2>1, <5>4 DEF ReadOffsets
          <5>5. CASE InsertCandidate(b) \/ AbortBuild(b)
            BY <5>5 DEF InsertCandidate, AbortBuild
          <5> QED
            BY <2>3, <5>1, <5>2, <5>3, <5>4, <5>5 DEF Build
        <4>4. builder[b] \in BuilderStates
          BY <2>1
        <4>5. \A f : /\ [builder[b] EXCEPT !.pc = "offsets"].gid = builder[b].gid
                     /\ [builder[b] EXCEPT !.pc = "insert", !.frontier = f].gid = builder[b].gid
          BY <4>4 DEF BuilderStates
        <4>6. CASE builder' = [builder EXCEPT ![b] = Idle]
          BY <4>1, <4>2, <4>6
        <4>7. CASE /\ builder[b].pc = "directory" /\ builder[b].gid \notin artifacts
                   /\ builder' = [builder EXCEPT ![b] = [builder[b] EXCEPT !.pc = "offsets"]]
          BY <2>1, <4>1, <4>5, <4>7
        <4>8. CASE /\ builder[b].pc = "offsets"
                   /\ \E f : builder' = [builder EXCEPT ![b] =
                                           [builder[b] EXCEPT !.pc = "insert", !.frontier = f]]
          <5>1. PICK f : builder' = [builder EXCEPT ![b] =
                                       [builder[b] EXCEPT !.pc = "insert", !.frontier = f]]
            BY <4>8
          <5>2. builder[b].gid # g
            BY <4>8 DEF Abandoned
          <5> QED
            BY <4>1, <4>5, <5>1, <5>2
        <4> QED
          BY <4>3, <4>6, <4>7, <4>8
      <3> QED
        BY <2>1, <3>1, <3>2, <3>3 DEF Abandoned, Exists
    <2>4. ASSUME NEW h \in Generation, Publish(h) \/ Supersede(h) PROVE Abandoned(g)'
      <3>1. artifacts' = artifacts /\ builder' = builder
        BY <2>4 DEF Publish, Supersede
      <3>2. generation'[g] = None
        <4>1. PICK s \in Statuses : Exists(h) /\ BecomesStatus(h, s)
          BY <2>4, PublishEffect, SupersedeEffect DEF Bundles, Statuses
        <4> QED
          BY <2>1, <4>1, StatusEffect DEF PubInv
      <3> QED
        BY <2>1, <3>1, <3>2 DEF Abandoned, Exists
    <2> QED
      BY <2>2, <2>3, <2>4 DEF Next, Ingest, vars, publicationVars
  <1> QED
    BY <1>1, PubAlways, PTL DEF Spec, AbandonedForGood
=============================================================================
