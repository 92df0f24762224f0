------------------------- MODULE AwsPublicationProofs -------------------------
(***************************************************************************)
(* The publication Lambdas implement ActivePointer, for any number of      *)
(* invocations, generations and builds; the DAG that invokes them          *)
(* (GenerationDag) changes nothing about that, and its outcomes tell the   *)
(* truth.                                                                  *)
(*                                                                         *)
(* The argument: an item never changes its parent or digest once it        *)
(* exists, so what an invocation read of it is still true when it writes   *)
(* (ReadsMatchItems).  The transaction re-checks everything else it read,  *)
(* status, version and parent, against the tables.                         *)
(***************************************************************************)
EXTENDS GenerationDag, TLAPS

(* The theorems of ActivePointer, read through the same mapping. *)
Line == INSTANCE ActivePointerProofs WITH
    active <- pointer.active,
    version <- pointer.version,
    lineage <- {<<g, item[g].parent>> : g \in Published}

(* What an invocation has read of an item is what the item says. *)
ReadsMatchItems ==
    \A c \in Caller :
        /\ call[c].pc = "transact" => call[c].found
        /\ call[c].found =>
              /\ call[c].gid \in Generation
              /\ item[call[c].gid] # None
              /\ item[call[c].gid].parent = call[c].parent
              /\ item[call[c].gid].digest = call[c].digest

AwsInv == TypeOK /\ PointerNamesPublishedItem /\ ReadsMatchItems

(* What every step leaves of an item that exists. *)
ItemKept(g) ==
    /\ item'[g] # None
    /\ item'[g].parent = item[g].parent /\ item'[g].uri = item[g].uri
    /\ item'[g].digest = item[g].digest
    /\ item[g].status = "PUBLISHED" => item'[g].status = "PUBLISHED"

LEMMA RequestIsTyped ==
    ASSUME NEW r \in Requests
    PROVE  /\ r.gid \in Generation /\ r.mode \in Modes
           /\ r.source \in SourceRanges \cup {None}
           /\ r.parent \in Uri \cup {None} /\ r.output \in Uri \cup {None}
  BY RequestsAssumption DEF RequestTypes

LEMMA IdleIsACall ==
    /\ Idle \in Calls
    /\ Idle.pc = "idle" /\ ~Idle.found
  BY DEF Idle, Calls, Parents

LEMMA AwsInit == Init => AwsInv
  <1> SUFFICES ASSUME Init PROVE AwsInv
      OBVIOUS
  <1>1. TypeOK
      BY IdleIsACall, MaxBuildsAssumption DEF Init, TypeOK, Parents
  <1>2. PointerNamesPublishedItem /\ ReadsMatchItems
      BY IdleIsACall DEF Init, PointerNamesPublishedItem, ReadsMatchItems
  <1> QED  BY <1>1, <1>2 DEF AwsInv

-----------------------------------------------------------------------------
(* What the actions do to the items. *)

(* What the job writes for a request that it accepts. *)
Written(r) ==
    [gid |-> r.gid, mode |-> r.mode, parent |-> ParentOf(r),
     frontier |-> IF r.mode = "REPLAY" THEN ParentFrontier(r)
                  ELSE Advanced(r.source, ParentFrontier(r)),
     digest |-> builds + 1]

LEMMA JobWrites ==
    ASSUME TypeOK, NEW r \in Requests, WriteManifest(r)
    PROVE  /\ r.output \in Uri
           /\ Written(r) \in Manifests /\ Written(r) # None
           /\ manifest' = [manifest EXCEPT ![r.output] = Written(r)]
           /\ manifest'[r.output] = Written(r)
           /\ builds' = builds + 1 /\ builds' \in Digests
           /\ UNCHANGED <<item, pointer, call>>
  <1>1. /\ r.output \in Uri /\ r.parent \in Uri \cup {None} /\ r.gid \in Generation
        /\ r.mode \in Modes /\ r.source \in SourceRanges
        /\ r.parent # None => manifest[r.parent] # None
      BY RequestIsTyped DEF WriteManifest, JobAccepts, ValidSource
  <1>2. builds' = builds + 1 /\ builds + 1 \in Digests
      BY MaxBuildsAssumption DEF WriteManifest, TypeOK, Digests
  <1>3. r.parent # None => manifest[r.parent] \in Manifests
      BY <1>1 DEF TypeOK
  <1>4. ParentOf(r) \in Parents
      BY <1>3 DEF ParentOf, Parents, Manifests
  <1>5. ParentFrontier(r) \in Frontiers
    <2>1. NoFrontier \in Frontiers
        BY DEF NoFrontier, Frontiers
    <2> QED  BY <1>3, <2>1 DEF ParentFrontier, Manifests
  <1>6. Advanced(r.source, ParentFrontier(r)) \in Frontiers
    <2>1. \A q \in Partition :
             (IF r.source[q] # None THEN r.source[q].end ELSE ParentFrontier(r)[q])
                \in Nat \cup {None}
        BY <1>1, <1>5 DEF SourceRanges, Frontiers
    <2> QED  BY <2>1 DEF Advanced, Frontiers
  <1>7. Written(r) \in Manifests
      BY <1>1, <1>2, <1>4, <1>5, <1>6 DEF Written, Manifests
  <1>8. manifest' = [manifest EXCEPT ![r.output] = Written(r)]
      BY <1>2 DEF WriteManifest, Written
  <1> QED  BY <1>1, <1>2, <1>7, <1>8, AwsNoneAssumption DEF WriteManifest, TypeOK

LEMMA PutKeepsItems ==
    ASSUME TypeOK, NEW c \in Caller, PutItem(c)
    PROVE  /\ \A g \in Generation : item[g] # None => item'[g] = item[g]
           /\ \A g \in Generation : item'[g] # item[g] => item'[g].status = "CANDIDATE"
           /\ item' \in [Generation -> Items \cup {None}]
  <1> DEFINE h == call[c].gid
             row == [parent |-> call[c].parent, status |-> "CANDIDATE",
                     uri |-> call[c].uri, digest |-> call[c].digest]
  <1>1. h \in Generation /\ row \in Items /\ row.status = "CANDIDATE"
      BY DEF TypeOK, PutItem, Calls, Items
  <1>2. item' = item \/ (item[h] = None /\ item' = [item EXCEPT ![h] = row])
      BY DEF PutItem, KeyIsFree
  <1>3. item \in [Generation -> Items \cup {None}]
      BY DEF TypeOK
  <1> HIDE DEF h, row
  <1> QED  BY <1>1, <1>2, <1>3

LEMMA TransactPublishes ==
    ASSUME AwsInv, NEW c \in Caller, Transact(c)
    PROVE  LET h == call[c].gid
               published == [item[h] EXCEPT !.status = "PUBLISHED"]
           IN  /\ h \in Generation
               /\ item[h] # None /\ item[h].status = "CANDIDATE"
               /\ item[h].parent = pointer.active
               /\ item[h].digest = call[c].digest
               /\ published \in Items /\ published # None
               /\ published.parent = item[h].parent
               /\ published.uri = item[h].uri
               /\ published.digest = item[h].digest
               /\ published.status = "PUBLISHED"
               /\ item' = [item EXCEPT ![h] = published]
  <1> DEFINE h == call[c].gid
  <1>1. /\ CandidateCondition(h, call[c].digest)
        /\ PointerCondition(call[c].parent, call[c].version)
      BY DEF Transact, Cancelled
  <1>2. h \in Generation /\ item[h].parent = call[c].parent
      BY DEF Transact, AwsInv, ReadsMatchItems
  <1>3. item[h] \in Items
      BY <1>1, <1>2 DEF AwsInv, TypeOK, CandidateCondition
  <1>4. [item[h] EXCEPT !.status = "PUBLISHED"] \in Items
      BY <1>3 DEF Items
  <1> QED
      BY <1>1, <1>2, <1>3, <1>4, AwsNoneAssumption
      DEF Transact, CandidateCondition, PointerCondition, MarkPublished, Items

LEMMA TransactMoves ==
    ASSUME AwsInv, NEW c \in Caller, Transact(c)
    PROVE  /\ call[c].gid \in Generation
           /\ call[c].digest \in Digests
           /\ pointer' = [active |-> call[c].gid, version |-> pointer.version + 1,
                          digest |-> call[c].digest]
           /\ pointer'.active = call[c].gid
           /\ pointer'.version = pointer.version + 1
           /\ pointer'.digest = call[c].digest
           /\ pointer.version \in Nat
  <1>1. call[c].gid \in Generation /\ call[c].digest \in Digests
      BY DEF Transact, AwsInv, TypeOK
  <1>2. pointer.version \in Nat /\ call[c].version = pointer.version
      BY DEF Transact, AwsInv, TypeOK, Cancelled, PointerCondition
  <1> QED  BY <1>1, <1>2 DEF Transact

LEMMA TransactEffect ==
    ASSUME AwsInv, NEW c \in Caller, Transact(c), NEW h, h = call[c].gid
    PROVE  /\ h \in Generation
           /\ item'[h] # None
           /\ item'[h].status = "PUBLISHED"
           /\ item'[h].parent = item[h].parent
           /\ item'[h].uri = item[h].uri
           /\ item'[h].digest = call[c].digest
           /\ \A g \in Generation \ {h} : item'[g] = item[g]
           /\ Published' = Published \cup {h}
  <1> DEFINE published == [item[h] EXCEPT !.status = "PUBLISHED"]
  <1>1. /\ h \in Generation /\ item[h].digest = call[c].digest
        /\ published # None
        /\ published.parent = item[h].parent
        /\ published.uri = item[h].uri
        /\ published.digest = item[h].digest
        /\ published.status = "PUBLISHED"
        /\ item' = [item EXCEPT ![h] = published]
      BY TransactPublishes
  <1> HIDE DEF published
  <1>2. item'[h] = published /\ \A g \in Generation \ {h} : item'[g] = item[g]
      BY <1>1 DEF AwsInv, TypeOK
  <1>3. Published' = Published \cup {h}
      BY <1>1, <1>2 DEF Published
  <1> QED  BY <1>1, <1>2, <1>3

(* Only the job writes objects, and only two requests change a table. *)
LEMMA ObjectSteps ==
    ASSUME [Next]_vars
    PROVE  \/ UNCHANGED <<manifest, builds>>
           \/ \E r \in Requests : WriteManifest(r)
  <1>1. ASSUME NEW c \in Caller, NEW r \in Requests, ReadManifest(c, r)
        PROVE  UNCHANGED <<manifest, builds>>
      BY <1>1 DEF ReadManifest
  <1>2. ASSUME NEW c \in Caller, NEW g \in Generation, ReadCandidate(c, g)
        PROVE  UNCHANGED <<manifest, builds>>
      BY <1>2 DEF ReadCandidate
  <1>3. ASSUME NEW c \in Caller, PutItem(c) \/ ReadPointer(c) \/ Transact(c) \/ GiveUp(c)
        PROVE  UNCHANGED <<manifest, builds>>
      BY <1>3 DEF PutItem, ReadPointer, Transact, GiveUp
  <1> QED  BY <1>1, <1>2, <1>3 DEF Next, Handler, vars

LEMMA TableSteps ==
    ASSUME [Next]_vars
    PROVE  \/ UNCHANGED <<item, pointer>>
           \/ \E c \in Caller : PutItem(c) /\ UNCHANGED pointer
           \/ \E c \in Caller : Transact(c)
  <1>1. ASSUME NEW r \in Requests, WriteManifest(r) PROVE UNCHANGED <<item, pointer>>
      BY <1>1 DEF WriteManifest
  <1>2. ASSUME NEW c \in Caller, NEW r \in Requests, ReadManifest(c, r)
        PROVE  UNCHANGED <<item, pointer>>
      BY <1>2 DEF ReadManifest
  <1>3. ASSUME NEW c \in Caller, NEW g \in Generation, ReadCandidate(c, g)
        PROVE  UNCHANGED <<item, pointer>>
      BY <1>3 DEF ReadCandidate
  <1>4. ASSUME NEW c \in Caller, ReadPointer(c) \/ GiveUp(c)
        PROVE  UNCHANGED <<item, pointer>>
      BY <1>4 DEF ReadPointer, GiveUp
  <1>5. \A c \in Caller : PutItem(c) => UNCHANGED pointer
      BY DEF PutItem
  <1> QED  BY <1>1, <1>2, <1>3, <1>4, <1>5 DEF Next, Handler, vars

LEMMA ItemsAreKept ==
    ASSUME AwsInv, [Next]_vars, NEW g \in Generation, item[g] # None
    PROVE  ItemKept(g)
  <1>1. CASE item' = item
      BY <1>1 DEF ItemKept
  <1>2. ASSUME NEW c \in Caller, PutItem(c) PROVE ItemKept(g)
      BY <1>2, PutKeepsItems DEF AwsInv, ItemKept
  <1>3. ASSUME NEW c \in Caller, Transact(c) PROVE ItemKept(g)
    <2>1. CASE g = call[c].gid
      <3>1. item[g].digest = call[c].digest
          BY <1>3, <2>1, TransactPublishes
      <3>2. /\ item'[g] # None /\ item'[g].status = "PUBLISHED"
            /\ item'[g].parent = item[g].parent /\ item'[g].uri = item[g].uri
            /\ item'[g].digest = call[c].digest
          BY <1>3, <2>1, TransactEffect
      <3> QED  BY <3>1, <3>2 DEF ItemKept
    <2>2. CASE g # call[c].gid
        BY <1>3, <2>2, TransactEffect DEF ItemKept
    <2> QED  BY <2>1, <2>2
  <1> QED  BY <1>1, <1>2, <1>3, TableSteps

-----------------------------------------------------------------------------
LEMMA TypeStep == AwsInv /\ [Next]_vars => TypeOK'
  <1> SUFFICES ASSUME AwsInv, [Next]_vars PROVE TypeOK'
      OBVIOUS
  <1> USE DEF AwsInv
  <1>1. ASSUME NEW r \in Requests, WriteManifest(r) PROVE TypeOK'
    <2>1. /\ r.output \in Uri /\ Written(r) \in Manifests
          /\ manifest' = [manifest EXCEPT ![r.output] = Written(r)]
          /\ builds' \in Digests /\ UNCHANGED <<item, pointer, call>>
        BY <1>1, JobWrites
    <2>2. manifest' \in [Uri -> Manifests \cup {None}] /\ builds' \in 0 .. MaxBuilds
        BY <2>1, MaxBuildsAssumption DEF TypeOK, Digests
    <2> QED  BY <2>1, <2>2 DEF TypeOK
  <1>2. ASSUME NEW c \in Caller, NEW r \in Requests, ReadManifest(c, r)
        PROVE  TypeOK'
    <2> DEFINE m == manifest[r.output]
               next == [Idle EXCEPT !.pc = "put", !.gid = r.gid, !.uri = r.output,
                                    !.parent = m.parent, !.digest = m.digest]
    <2>1. m \in Manifests /\ r.gid \in Generation /\ r.output \in Approved
        BY <1>2, RequestIsTyped, ApprovedAssumption DEF ReadManifest, Registrable, TypeOK
    <2>2. /\ next \in Calls
          /\ next.gid \in Generation /\ next.pc = "put" /\ next.digest \in Digests
          /\ next.uri \in Approved
        BY <2>1 DEF Idle, Calls, Parents, Manifests
    <2>3. /\ call' = [call EXCEPT ![c] = next]
          /\ UNCHANGED <<manifest, builds, item, pointer>>
        BY <1>2 DEF ReadManifest, Becomes
    <2> HIDE DEF next, m
    <2> QED  BY <2>2, <2>3 DEF TypeOK
  <1>3. ASSUME NEW c \in Caller, NEW g \in Generation, ReadCandidate(c, g)
        PROVE  TypeOK'
    <2> DEFINE missing == [Idle EXCEPT !.pc = "pointer", !.gid = g]
               found == [Idle EXCEPT !.pc = "pointer", !.gid = g, !.found = TRUE,
                                     !.parent = item[g].parent,
                                     !.digest = item[g].digest]
               next == IF item[g] = None THEN missing ELSE found
    <2>1. item[g] # None => item[g] \in Items
        BY DEF TypeOK
    <2>2. /\ missing \in Calls
          /\ missing.gid = g /\ missing.pc = "pointer" /\ ~missing.found
        BY DEF Idle, Calls, Parents
    <2>3. item[g] # None =>
             /\ found \in Calls
             /\ found.gid = g /\ found.pc = "pointer" /\ found.digest \in Digests
        BY <2>1 DEF Idle, Calls, Parents, Items
    <2>4. /\ call' = [call EXCEPT ![c] = next]
          /\ UNCHANGED <<manifest, builds, item, pointer>>
        BY <1>3 DEF ReadCandidate, Becomes
    <2>5. /\ next \in Calls /\ next.gid = g /\ next.pc = "pointer"
          /\ next.found => next.digest \in Digests
        BY <2>2, <2>3
    <2> HIDE DEF next, missing, found
    <2> QED  BY <2>4, <2>5 DEF TypeOK
  <1>4. ASSUME NEW c \in Caller, PutItem(c) PROVE TypeOK'
    <2>1. item' \in [Generation -> Items \cup {None}]
        BY <1>4, PutKeepsItems
    <2>2. /\ call' = [call EXCEPT ![c] = Idle]
          /\ UNCHANGED <<manifest, builds, pointer>>
        BY <1>4 DEF PutItem, Becomes
    <2> QED  BY <2>1, <2>2, IdleIsACall DEF TypeOK
  <1>5. ASSUME NEW c \in Caller, ReadPointer(c) PROVE TypeOK'
    <2> DEFINE next == [call[c] EXCEPT !.pc = "transact", !.version = pointer.version]
    <2>1. /\ call[c] \in Calls /\ call[c].gid \in Generation
          /\ call[c].found => call[c].digest \in Digests
          /\ pointer.version \in Nat
        BY <1>5 DEF ReadPointer, TypeOK
    <2>2. /\ next \in Calls /\ next.gid = call[c].gid /\ next.pc = "transact"
          /\ next.digest = call[c].digest /\ next.version \in Nat
        BY <2>1 DEF Calls
    <2>3. /\ call' = [call EXCEPT ![c] = IF call[c].found THEN next ELSE Idle]
          /\ UNCHANGED <<manifest, builds, item, pointer>>
        BY <1>5 DEF ReadPointer, CandidateFound, Becomes
    <2> HIDE DEF next
    <2>4. CASE call[c].found
        BY <2>1, <2>2, <2>3, <2>4 DEF TypeOK
    <2>5. CASE ~call[c].found
        BY <2>3, <2>5, IdleIsACall DEF TypeOK
    <2> QED  BY <2>4, <2>5
  <1>6. ASSUME NEW c \in Caller, Transact(c) PROVE TypeOK'
    <2>1. item' \in [Generation -> Items \cup {None}]
        BY <1>6, TransactPublishes DEF TypeOK
    <2>2. pointer' \in [active : Parents, version : Nat, digest : Digests \cup {None}]
      <3>1. pointer.version + 1 \in Nat
          BY <1>6, TransactMoves
      <3> QED  BY <1>6, <3>1, TransactMoves DEF Parents
    <2>3. /\ call' = [call EXCEPT ![c] = Idle]
          /\ UNCHANGED <<manifest, builds>>
        BY <1>6 DEF Transact, Becomes
    <2> QED  BY <2>1, <2>2, <2>3, IdleIsACall DEF TypeOK
  <1>7. ASSUME NEW c \in Caller, GiveUp(c) PROVE TypeOK'
      BY <1>7, IdleIsACall DEF GiveUp, Becomes, TypeOK
  <1>8. CASE UNCHANGED vars
      BY <1>8 DEF vars, TypeOK
  <1> QED
      BY <1>1, <1>2, <1>3, <1>4, <1>5, <1>6, <1>7, <1>8 DEF Next, Handler, Parents

LEMMA PointerStep == AwsInv /\ [Next]_vars => PointerNamesPublishedItem'
  <1> SUFFICES ASSUME AwsInv, [Next]_vars PROVE PointerNamesPublishedItem'
      OBVIOUS
  <1>1. CASE pointer' = pointer
    <2> SUFFICES ASSUME pointer.active # None
                 PROVE  /\ pointer.active \in Published'
                        /\ item'[pointer.active].digest = pointer.digest
        BY <1>1 DEF PointerNamesPublishedItem
    <2>1. /\ pointer.active \in Generation
          /\ item[pointer.active] # None
          /\ item[pointer.active].status = "PUBLISHED"
          /\ item[pointer.active].digest = pointer.digest
        BY DEF AwsInv, PointerNamesPublishedItem, Published
    <2>2. ItemKept(pointer.active)
        BY <2>1, ItemsAreKept
    <2> QED  BY <2>1, <2>2 DEF ItemKept, Published
  <1>2. ASSUME NEW c \in Caller, Transact(c) PROVE PointerNamesPublishedItem'
    <2> DEFINE h == call[c].gid
    <2>1. /\ pointer'.active = h /\ pointer'.digest = call[c].digest
          /\ h \in Published' /\ item'[h].digest = call[c].digest
        BY <1>2, TransactMoves, TransactEffect
    <2> HIDE DEF h
    <2> QED  BY <2>1 DEF PointerNamesPublishedItem
  <1> QED  BY <1>1, <1>2, TableSteps

LEMMA ReadsStep == AwsInv /\ [Next]_vars => ReadsMatchItems'
  <1> SUFFICES ASSUME AwsInv, [Next]_vars, NEW c \in Caller
               PROVE  /\ call'[c].pc = "transact" => call'[c].found
                      /\ call'[c].found =>
                            /\ call'[c].gid \in Generation
                            /\ item'[call'[c].gid] # None
                            /\ item'[call'[c].gid].parent = call'[c].parent
                            /\ item'[call'[c].gid].digest = call'[c].digest
      BY DEF ReadsMatchItems
  <1> DEFINE Holds(s) == /\ s.pc = "transact" => s.found
                         /\ s.found =>
                               /\ s.gid \in Generation
                               /\ item'[s.gid] # None
                               /\ item'[s.gid].parent = s.parent
                               /\ item'[s.gid].digest = s.digest
  <1>1. Holds(call[c])
      BY ItemsAreKept DEF AwsInv, ReadsMatchItems, ItemKept
  <1>2. Holds(Idle)
      BY IdleIsACall
  <1>3. call \in [Caller -> Calls]
      BY DEF AwsInv, TypeOK
  <1>4. CASE call' = call
      BY <1>1, <1>4
  <1>5. ASSUME NEW d \in Caller, call' = [call EXCEPT ![d] = Idle]
        PROVE  Holds(call'[c])
      BY <1>1, <1>2, <1>3, <1>5
  <1>6. ASSUME NEW d \in Caller, NEW r \in Requests, ReadManifest(d, r)
        PROVE  Holds(call'[c])
    <2> DEFINE next == [Idle EXCEPT !.pc = "put", !.gid = r.gid, !.uri = r.output,
                                    !.parent = manifest[r.output].parent,
                                    !.digest = manifest[r.output].digest]
    <2>1. next.pc = "put" /\ ~next.found
        BY DEF Idle
    <2>2. call' = [call EXCEPT ![d] = next]
        BY <1>6 DEF ReadManifest, Becomes
    <2> HIDE DEF next
    <2> QED  BY <1>1, <1>3, <2>1, <2>2
  <1>7. ASSUME NEW d \in Caller, NEW g \in Generation, ReadCandidate(d, g)
        PROVE  Holds(call'[c])
    <2> DEFINE missing == [Idle EXCEPT !.pc = "pointer", !.gid = g]
               found == [Idle EXCEPT !.pc = "pointer", !.gid = g, !.found = TRUE,
                                     !.parent = item[g].parent,
                                     !.digest = item[g].digest]
               next == IF item[g] = None THEN missing ELSE found
    <2>1. missing.pc = "pointer" /\ ~missing.found
        BY DEF Idle
    <2>2. /\ found.pc = "pointer" /\ found.gid = g
          /\ found.parent = item[g].parent /\ found.digest = item[g].digest
        BY DEF Idle
    <2>3. call' = [call EXCEPT ![d] = next] /\ item' = item
        BY <1>7 DEF ReadCandidate, Becomes
    <2> HIDE DEF missing, found
    <2>4. Holds(next)
        BY <2>1, <2>2, <2>3
    <2> HIDE DEF next, Holds
    <2> QED  BY <1>1, <1>3, <2>3, <2>4
  <1>8. ASSUME NEW d \in Caller, ReadPointer(d) PROVE Holds(call'[c])
    <2> DEFINE next == [call[d] EXCEPT !.pc = "transact", !.version = pointer.version]
    <2>1. call' = [call EXCEPT ![d] = IF call[d].found THEN next ELSE Idle]
        BY <1>8 DEF ReadPointer, CandidateFound, Becomes
    <2>2. /\ next.found = call[d].found /\ next.gid = call[d].gid
          /\ next.parent = call[d].parent /\ next.digest = call[d].digest
        BY <1>3 DEF Calls
    <2>3. call[d].found => Holds(next)
        BY <2>2, ItemsAreKept DEF AwsInv, ReadsMatchItems, ItemKept
    <2> HIDE DEF next, Holds
    <2> QED  BY <1>1, <1>2, <1>3, <2>1, <2>3
  <1> QED
      BY <1>4, <1>5, <1>6, <1>7, <1>8
      DEF Next, Handler, Becomes, vars, WriteManifest, PutItem, Transact, GiveUp

-----------------------------------------------------------------------------
LEMMA AwsAlways == Spec => []AwsInv
  <1>1. Init => AwsInv
      BY AwsInit
  <1>2. AwsInv /\ [Next]_vars => AwsInv'
      BY TypeStep, PointerStep, ReadsStep DEF AwsInv
  <1> QED  BY <1>1, <1>2, PTL DEF Spec

(* However many registrations and publications race, the active pointer      *)
(* names a PUBLISHED item and carries the digest it was registered with      *)
(* (register_generation and publish_generation handlers).                    *)
THEOREM PublicationCorrect == Spec => [](TypeOK /\ PointerNamesPublishedItem)
  <1>1. AwsInv => TypeOK /\ PointerNamesPublishedItem
      BY DEF AwsInv
  <1> QED  BY <1>1, AwsAlways, PTL

(* The part of it that publication is about: readers who follow the pointer  *)
(* find a PUBLISHED item with the pointer's digest (publication_transaction).*)
THEOREM PointerIsAnItem == Spec => []PointerNamesPublishedItem
  BY PublicationCorrect, PTL

(* An item's parent, URI and digest never change and PUBLISHED is final      *)
(* (attribute_not_exists in register_generation; the only update is the      *)
(* status in publication_transaction).                                       *)
THEOREM ItemsAreRegisteredOnce == Spec => RegisteredOnce
  <1> DEFINE Kept == \A g \in Generation : item[g] # None => ItemKept(g)
  <1>1. AwsInv /\ [Next]_vars => [Kept]_vars
      BY ItemsAreKept
  <1>2. Spec => [][Kept]_vars
      BY <1>1, AwsAlways, PTL DEF Spec
  <1> QED  BY <1>2 DEF RegisteredOnce, ItemKept

(* The Lambdas implement the abstract compare-and-swap: every transaction    *)
(* that goes through is one Publish of ActivePointer, everything else        *)
(* stutters.                                                                 *)
THEOREM LambdasRefinePointer == Spec => PublishesByCompareAndSwap
  <1> DEFINE line == {<<g, item[g].parent>> : g \in Published}
  <1>1. Init => Pointer!Init
      BY DEF Init, Published, Pointer!Init
  <1>2. AwsInv /\ [Next]_vars => [Pointer!Next]_(Pointer!pointerVars)
    <2> SUFFICES ASSUME AwsInv, [Next]_vars PROVE Pointer!Next \/ UNCHANGED Pointer!pointerVars
        OBVIOUS
    <2>1. CASE item' = item /\ pointer' = pointer
        BY <2>1 DEF Published, Pointer!pointerVars
    <2>2. ASSUME NEW c \in Caller, PutItem(c) PROVE UNCHANGED Pointer!pointerVars
      <3>1. Published' = Published /\ \A g \in Published : item'[g].parent = item[g].parent
          BY <2>2, PutKeepsItems DEF AwsInv, Published
      <3> QED  BY <2>2, <3>1 DEF PutItem, Pointer!pointerVars
    <2>3. ASSUME NEW c \in Caller, Transact(c) PROVE Pointer!Next
      <3> DEFINE h == call[c].gid
      <3>1. h \in Generation /\ h \notin Published /\ item[h].parent = pointer.active
          BY <2>3, TransactPublishes DEF Published
      <3>2. Published' = Published \cup {h}
          BY <2>3, TransactEffect
      <3>3. \A g \in Published \cup {h} : item'[g].parent = item[g].parent
          BY <2>3, <3>1, TransactEffect DEF Published
      <3>4. line' = line \cup {<<h, pointer.active>>}
          BY <3>1, <3>2, <3>3
      <3>5. pointer'.active = h /\ pointer'.version = pointer.version + 1
          BY <2>3, TransactMoves
      <3>6. \A e \in line : e[1] \in Published
          OBVIOUS
      <3> HIDE DEF h
      <3> QED
          BY <3>1, <3>4, <3>5, <3>6
          DEF Pointer!Next, Pointer!Publish, Pointer!Published
    <2> QED  BY <2>1, <2>2, <2>3, TableSteps
  <1> QED
      BY <1>1, <1>2, AwsAlways, PTL DEF Spec, PublishesByCompareAndSwap, Pointer!Spec

(* Hence the published generations form one line, and the pointer version is *)
(* its length.                                                               *)
THEOREM PublishedOnOneLine == Spec => []PublishedLine
  <1>1. Pointer!Init => Line!Init
      BY DEF Pointer!Init, Line!Init
  <1>2. [Pointer!Next]_(Pointer!pointerVars) => [Line!Next]_(Line!pointerVars)
      BY DEF Pointer!Next, Line!Next, Pointer!Publish, Line!Publish,
             Pointer!Published, Line!Published, Pointer!pointerVars, Line!pointerVars
  <1>3. Line!Spec => [](Line!PointerTypeOK /\ Line!OneLine /\ Line!VersionCountsPublications)
      BY Line!PointerCorrect, AwsNoneAssumption
  <1>4. Line!OneLine /\ Line!VersionCountsPublications => PublishedLine
    <2>1. Line!Published = Pointer!Published
        BY DEF Line!Published, Pointer!Published
    <2>2. Line!OneLine => Pointer!OneLine
        BY <2>1 DEF Line!OneLine, Pointer!OneLine
    <2>3. Line!VersionCountsPublications => Pointer!VersionCountsPublications
        BY Zenon DEF Line!VersionCountsPublications, Pointer!VersionCountsPublications,
                     Line!IsFiniteSet, Pointer!IsFiniteSet,
                     Line!Cardinality, Pointer!Cardinality
    <2> QED  BY <2>2, <2>3 DEF PublishedLine
  <1>5. Pointer!Spec => Line!Spec
      BY <1>1, <1>2, PTL DEF Pointer!Spec, Line!Spec
  <1>6. Spec => Pointer!Spec
      BY LambdasRefinePointer DEF PublishesByCompareAndSwap
  <1> QED  BY <1>3, <1>4, <1>5, <1>6, PTL

(* What lost the race for a parent is never published: the line has no place *)
(* for it, and its parent cannot change.                                     *)
THEOREM LosersAreNeverPublished == Spec => LosersStayCandidates
  <1> DEFINE Kept ==
        \A g \in Generation : item[g] # None =>
            /\ item'[g] # None
            /\ item'[g].parent = item[g].parent /\ item'[g].uri = item[g].uri
            /\ item'[g].digest = item[g].digest
            /\ item[g].status = "PUBLISHED" => item'[g].status = "PUBLISHED"
             Loses ==
        \A g \in Generation, h \in Published :
            item[g] # None /\ g \notin Published /\ item[g].parent = item[h].parent
                => g \notin Published'
  <1>1. PublishedLine' /\ Kept => Loses
    <2> SUFFICES ASSUME PublishedLine', Kept, NEW g \in Generation, NEW h \in Published,
                        item[g] # None, g \notin Published, item[g].parent = item[h].parent,
                        g \in Published'
                 PROVE  FALSE
        OBVIOUS
    <2>1. h \in Generation /\ item[h] # None /\ item[h].status = "PUBLISHED"
        BY DEF Published
    <2>2. h \in Published'
        BY <2>1 DEF Published
    <2>3. item'[g].parent = item'[h].parent
        BY <2>1
    <2>4. \A d, e \in {<<x, item'[x].parent>> : x \in Published'} : d[2] = e[2] => d = e
        BY DEF PublishedLine, Pointer!OneLine
    <2>5. PICK d, e : d = <<g, item'[g].parent>> /\ e = <<h, item'[h].parent>>
        OBVIOUS
    <2>6. /\ d \in {<<x, item'[x].parent>> : x \in Published'}
          /\ e \in {<<x, item'[x].parent>> : x \in Published'}
        BY <2>2, <2>5
    <2>7. d[1] = g /\ e[1] = h /\ d[2] = e[2]
        BY <2>3, <2>5
    <2> QED  BY <2>4, <2>6, <2>7
  <1>2. PublishedLine' /\ [Kept]_vars => [Loses]_vars
      BY <1>1
  <1> HIDE DEF Kept, Loses
  <1>3. RegisteredOnce => [][Kept]_vars
      BY DEF RegisteredOnce, Kept
  <1>4. [][Loses]_vars => LosersStayCandidates
      BY DEF LosersStayCandidates, Loses
  <1> QED  BY <1>2, <1>3, <1>4, ItemsAreRegisteredOnce, PublishedOnOneLine, PTL

-----------------------------------------------------------------------------
(* The DAG that calls the handlers, for any number of runs and faults: it
   adds no step to AwsPublication, and what the outcome of a run says about
   the tables is true. *)

(* DagTypeOK without the tables, and the two facts that make it inductive:
   only a register or publish task waits for a handler, and a handler whose
   answer has come is idle. *)
DagRuns ==
    [run : 0 .. MaxRuns, request : Requests \cup {None},
     task : Tasks \cup Ended, from : Tasks \cup {"none"},
     caller : Caller \cup {None}, answer : {"ok", "error", None}, clean : BOOLEAN,
     known : BOOLEAN]

DagShape ==
    /\ dag \in DagRuns
    /\ jobs \subseteq Job
    /\ faults \in 0 .. MaxFaults
    /\ dag.task # "none" => dag.request \in Requests
    /\ dag.answer # None => dag.caller # None
    /\ dag.caller # None => dag.task \in {"register", "publish"}
    /\ dag.caller # None /\ dag.answer = None =>
          /\ call[dag.caller].gid = dag.request.gid
          /\ call[dag.caller].pc \in
                IF dag.task = "register" THEN {"put"} ELSE {"pointer", "transact"}
    /\ dag.caller # None /\ dag.answer # None => call[dag.caller].pc = "idle"

dagAll == <<vars, dagVars>>

-----------------------------------------------------------------------------
(* Every step of the DAG is a step of AwsPublication or leaves it alone. *)

LEMMA DagStepIsAws ==
    ASSUME DagShape, [DagNext]_dagAll
    PROVE  [Next]_vars
  <1>1. ASSUME NEW j \in jobs, JobCompletes(j) PROVE Next
    <2>1. j.request \in Requests
      BY DEF DagShape, Job
    <2> QED
      BY <1>1, <2>1 DEF JobCompletes, Next
  <1>2. ASSUME NEW c \in Caller, Invoke(c) PROVE Next
    <2>1. dag.request \in Requests /\ dag.request.gid \in Generation
      BY <1>2, RequestIsTyped DEF Invoke, DagShape
    <2> QED
      BY <1>2, <2>1 DEF Invoke, Next, Handler
  <1>3. ASSUME NEW c \in Caller, Handles(c) \/ TimesOut(c) PROVE Next
    BY <1>3 DEF Handles, Register, LookUp, Swap, Refuse, TimesOut, Next, Handler
  <1>4. ASSUME NEW j \in jobs, JobRaises(j) \/ JobDies(j) PROVE UNCHANGED vars
    BY <1>4 DEF JobRaises, JobDies
  <1>5. ASSUME NEW r \in Requests, Trigger(r) PROVE UNCHANGED vars
    BY <1>5 DEF Trigger
  <1>6. ASSUME NEW c \in Caller, TurnAway(c) PROVE UNCHANGED vars
    BY <1>6 DEF TurnAway
  <1>7. CASE Receive \/ AnswerLost \/ TaskLost
    BY <1>7 DEF Receive, AnswerLost, TaskLost
  <1>8. CASE UNCHANGED dagAll
    BY <1>8 DEF dagAll
  <1> QED
    BY <1>1, <1>2, <1>3, <1>4, <1>5, <1>6, <1>7, <1>8 DEF DagNext, JobEnds

(* What a step makes of the invocations. *)
LEMMA CallStep ==
    ASSUME TypeOK, NEW c \in Caller, NEW state, Becomes(c, state)
    PROVE  call'[c] = state /\ \A x \in Caller : x # c => call'[x] = call[x]
  BY DEF Becomes, TypeOK

LEMMA AnswerKeepsShape ==
    ASSUME TypeOK, DagShape, NEW c \in Caller, NEW a \in {"ok", "error"},
           Becomes(c, Idle), Answers(c, a), UNCHANGED <<jobs, faults>>
    PROVE  DagShape'
  <1>1. call'[c] = Idle /\ \A x \in Caller : x # c => call'[x] = call[x]
    BY CallStep
  <1>2. CASE dag.caller = c
    <2>1. dag' = [dag EXCEPT !.answer = a]
      BY <1>2 DEF Answers
    <2> QED
      BY <1>1, <1>2, <2>1, DagNoneAssumption, IdleIsACall DEF DagShape, DagRuns
  <1>3. CASE dag.caller # c
    BY <1>1, <1>3 DEF Answers, DagShape, DagRuns
  <1> QED
    BY <1>2, <1>3

LEMMA ShapeStep ==
    ASSUME TypeOK, DagShape, [DagNext]_dagAll
    PROVE  DagShape'
  <1>1. ASSUME NEW r \in Requests, Trigger(r) PROVE DagShape'
    <2>1. dag.run + 1 \in 1 .. MaxRuns
      BY <1>1, DagBoundsAssumption DEF Trigger, DagShape, DagRuns
    <2>2. dag' \in DagRuns
      <3>1. dag' = [run |-> dag.run + 1, request |-> r, task |-> "build", from |-> "none",
                    caller |-> None, answer |-> None, clean |-> Quiet,
                    known |-> item[r.gid] # None]
        BY <1>1 DEF Trigger, NoRun
      <3>2. Quiet \in BOOLEAN /\ (item[r.gid] # None) \in BOOLEAN
        BY DEF Quiet
      <3> HIDE DEF Quiet
      <3> QED
        BY <2>1, <3>1, <3>2 DEF Tasks, DagRuns
    <2>3. dag'.request = r /\ dag'.caller = None /\ dag'.answer = None
      BY <1>1 DEF Trigger, NoRun
    <2>4. jobs' \subseteq Job /\ faults' = faults
      BY <1>1, <2>1 DEF Trigger, DagShape, DagRuns, Job
    <2> QED
      BY <2>2, <2>3, <2>4 DEF DagShape, DagRuns
  <1>2. ASSUME NEW j \in jobs, NEW task \in {"register", "failed"},
               jobs' = jobs \ {j}, faults' = faults, call' = call,
               IF Awaited(j) THEN MoveTo(task) ELSE UNCHANGED dag
        PROVE  DagShape'
    <2>1. CASE Awaited(j)
      <3>1. dag' = [dag EXCEPT !.task = task, !.from = dag.task, !.caller = None,
                               !.answer = None]
        BY <1>2, <2>1 DEF MoveTo
      <3> QED
        BY <1>2, <2>1, <3>1 DEF Awaited, DagShape, DagRuns, Tasks, Ended
    <2>2. CASE ~Awaited(j)
      BY <1>2, <2>2 DEF DagShape, DagRuns
    <2> QED
      BY <2>1, <2>2
  <1>3. ASSUME NEW j \in jobs, JobDies(j) PROVE DagShape'
    <2>1. jobs' \subseteq jobs /\ faults' \in 0 .. MaxFaults /\ call' = call
      BY <1>3, DagBoundsAssumption DEF JobDies, Fault, vars, DagShape, DagRuns
    <2>2. CASE Awaited(j)
      <3>1. dag' = [dag EXCEPT !.task = "failed", !.from = "build", !.clean = FALSE]
        BY <1>3, <2>2 DEF JobDies
      <3> QED
        BY <2>1, <2>2, <3>1 DEF Awaited, DagShape, DagRuns, Tasks, Ended
    <2>3. CASE ~Awaited(j)
      BY <1>3, <2>1, <2>3 DEF JobDies, DagShape, DagRuns
    <2> QED
      BY <2>2, <2>3
  <1>4. ASSUME NEW c \in Caller, Invoke(c) PROVE DagShape'
    <2>1. dag' = [dag EXCEPT !.caller = c] /\ UNCHANGED <<jobs, faults>>
          /\ dag.caller = None
      BY <1>4 DEF Invoke
    <2>2. \/ /\ dag.task = "register"
             /\ call'[c].pc = "put" /\ call'[c].gid = dag.request.gid
          \/ /\ dag.task = "publish"
             /\ call'[c].pc = "pointer" /\ call'[c].gid = dag.request.gid
      <3>1. CASE dag.task = "register" /\ ReadManifest(c, dag.request)
        <4> DEFINE built == manifest[dag.request.output]
                   state == [Idle EXCEPT !.pc = "put", !.gid = dag.request.gid,
                                         !.uri = dag.request.output,
                                         !.parent = built.parent, !.digest = built.digest]
        <4>1. state.pc = "put" /\ state.gid = dag.request.gid
          BY DEF Idle
        <4>2. Becomes(c, state)
          BY <3>1 DEF ReadManifest
        <4> HIDE DEF state
        <4>3. call'[c] = state
          BY <4>2, CallStep
        <4> QED
          BY <3>1, <4>1, <4>3
      <3>2. CASE dag.task = "publish" /\ ReadCandidate(c, dag.request.gid)
        <4> DEFINE g == dag.request.gid
                   state == IF item[g] = None
                            THEN [Idle EXCEPT !.pc = "pointer", !.gid = g]
                            ELSE [Idle EXCEPT !.pc = "pointer", !.gid = g,
                                    !.found = TRUE, !.parent = item[g].parent,
                                    !.digest = item[g].digest]
        <4>1. state.pc = "pointer" /\ state.gid = dag.request.gid
          BY DEF Idle
        <4>2. Becomes(c, state)
          BY <3>2 DEF ReadCandidate
        <4> HIDE DEF state
        <4>3. call'[c] = state
          BY <4>2, CallStep
        <4> QED
          BY <3>2, <4>1, <4>3
      <3> QED
        BY <1>4, <3>1, <3>2 DEF Invoke
    <2>3. dag.answer = None
      BY <2>1 DEF DagShape, DagRuns
    <2>4. /\ dag'.caller = c /\ dag'.answer = None /\ dag'.task = dag.task
          /\ dag'.request = dag.request /\ c # None
      BY <2>1, <2>3, DagNoneAssumption DEF DagShape, DagRuns
    <2>5. dag' \in DagRuns
      BY <2>1 DEF DagShape, DagRuns
    <2>6. dag'.task \in {"register", "publish"} /\ dag.request \in Requests
      BY <2>2, <2>4 DEF DagShape
    <2> QED
      BY <2>1, <2>2, <2>4, <2>5, <2>6 DEF DagShape
  <1>5. ASSUME NEW c \in Caller, Register(c) \/ Swap(c) \/ Refuse(c) PROVE DagShape'
    <2>1. /\ Becomes(c, Idle) /\ UNCHANGED <<jobs, faults>>
          /\ Answers(c, "ok") \/ Answers(c, "error")
      BY <1>5 DEF Register, Swap, Refuse, PutItem, Transact, GiveUp
    <2> QED
      BY <2>1, AnswerKeepsShape
  <1>6. ASSUME NEW c \in Caller, LookUp(c) PROVE DagShape'
    <2>1. CASE CandidateFound(c)
      <3>1. /\ Becomes(c, [call[c] EXCEPT !.pc = "transact", !.version = pointer.version])
            /\ UNCHANGED <<dag, jobs, faults>> /\ call[c].pc = "pointer"
        BY <1>6, <2>1 DEF LookUp, ReadPointer
      <3>2. /\ call'[c].pc = "transact" /\ call'[c].gid = call[c].gid
            /\ \A x \in Caller : x # c => call'[x] = call[x]
        <4> DEFINE state == [call[c] EXCEPT !.pc = "transact", !.version = pointer.version]
        <4>1. state.pc = "transact" /\ state.gid = call[c].gid
          BY DEF TypeOK, Calls
        <4>2. Becomes(c, state)
          BY <3>1
        <4> HIDE DEF state
        <4>3. call'[c] = state /\ \A x \in Caller : x # c => call'[x] = call[x]
          BY <4>2, CallStep
        <4> QED
          BY <4>1, <4>3
      <3>3. CASE dag.caller = c
        <4>1. dag.answer = None /\ dag.task # "register" /\ call[c].gid = dag.request.gid
          BY <3>1, <3>3, DagNoneAssumption DEF DagShape, DagRuns
        <4> QED
          BY <3>1, <3>2, <3>3, <4>1 DEF DagShape, DagRuns
      <3>4. CASE dag.caller # c
        <4>1. dag.caller # None => call'[dag.caller] = call[dag.caller]
          BY <3>2, <3>4 DEF DagShape, DagRuns
        <4> QED
          BY <3>1, <4>1 DEF DagShape
      <3> QED
        BY <3>3, <3>4
    <2>2. CASE ~CandidateFound(c)
      BY <1>6, <2>2, AnswerKeepsShape DEF LookUp, ReadPointer
    <2> QED
      BY <2>1, <2>2
  <1>7. CASE Receive
    <2>1. dag' = [dag EXCEPT !.task = AfterAnswer(dag.task), !.from = dag.task,
                             !.caller = None, !.answer = None]
          /\ UNCHANGED <<vars, jobs, faults>>
      BY <1>7 DEF Receive, MoveTo
    <2>2. AfterAnswer(dag.task) \in {"publish", "success", "failed"}
          /\ dag.task \in {"register", "publish"}
      BY <1>7 DEF AfterAnswer, Following, Receive, DagShape, DagRuns
    <2> QED
      BY <2>1, <2>2 DEF DagShape, DagRuns, Tasks, Ended
  <1>8. ASSUME NEW c \in Caller, TimesOut(c) PROVE DagShape'
    <2>1. Becomes(c, Idle) /\ jobs' = jobs /\ faults' \in 0 .. MaxFaults
      BY <1>8, DagBoundsAssumption DEF TimesOut, Fault, GiveUp, DagShape, DagRuns
    <2>2. call'[c].pc = "idle" /\ \A x \in Caller : x # c => call'[x] = call[x]
      BY <2>1, CallStep, IdleIsACall
    <2>3. CASE dag.caller = c
      <3>1. dag' = [dag EXCEPT !.answer = "error", !.clean = FALSE]
        BY <1>8, <2>3 DEF TimesOut
      <3> QED
        BY <2>1, <2>2, <2>3, <3>1, DagNoneAssumption DEF DagShape, DagRuns
    <2>4. CASE dag.caller # c
      BY <1>8, <2>1, <2>2, <2>4 DEF TimesOut, DagShape, DagRuns
    <2> QED
      BY <2>3, <2>4
  <1>9. CASE AnswerLost \/ TaskLost
    <2>1. /\ UNCHANGED <<vars, jobs>> /\ faults' \in 0 .. MaxFaults
          /\ \/ dag' = [dag EXCEPT !.caller = None, !.answer = None, !.clean = FALSE]
             \/ /\ dag.task \in Tasks
                /\ dag' = [dag EXCEPT !.task = "failed", !.from = dag.task, !.caller = None,
                                      !.answer = None, !.clean = FALSE]
      BY <1>9, DagBoundsAssumption DEF AnswerLost, TaskLost, Fault, DagShape, DagRuns
    <2> QED
      BY <2>1 DEF DagShape, DagRuns, Tasks, Ended
  <1>10. CASE UNCHANGED dagAll
    BY <1>10 DEF dagAll, dagVars, vars, DagShape, DagRuns
  <1>11. ASSUME NEW j \in jobs, JobEnds(j) PROVE DagShape'
    BY <1>2, <1>11 DEF JobEnds, JobCompletes, JobRaises, WriteManifest, vars
  <1>12. ASSUME NEW c \in Caller, TurnAway(c) PROVE DagShape'
    <2>1. /\ dag' = [dag EXCEPT !.caller = c, !.answer = "error"]
          /\ UNCHANGED <<vars, jobs, faults>> /\ call[c].pc = "idle"
          /\ dag.task = "register"
      BY <1>12 DEF TurnAway
    <2> QED
      BY <2>1, DagNoneAssumption DEF DagShape, DagRuns, vars
  <1> QED
    BY <1>1, <1>3, <1>4, <1>5, <1>6, <1>7, <1>8, <1>9, <1>10, <1>11, <1>12
    DEF DagNext, Handles

-----------------------------------------------------------------------------
(* The invariant, and what AwsPublication's theorems say of the DAG. *)

DagInv == AwsInv /\ DagShape

LEMMA DagInvInit ==
    ASSUME DagInit
    PROVE  DagInv
  <1>1. AwsInv
    BY AwsInit DEF DagInit
  <1>2. DagShape
    BY DagBoundsAssumption DEF DagInit, NoRun, DagShape, DagRuns, Tasks, Ended
  <1> QED
    BY <1>1, <1>2 DEF DagInv

LEMMA DagInvStep ==
    ASSUME DagInv, [DagNext]_dagAll
    PROVE  DagInv'
  <1>1. [Next]_vars
    BY DagStepIsAws DEF DagInv
  <1>2. AwsInv'
    BY <1>1, TypeStep, PointerStep, ReadsStep DEF DagInv, AwsInv
  <1>3. DagShape'
    BY ShapeStep DEF DagInv, AwsInv
  <1> QED
    BY <1>2, <1>3 DEF DagInv

LEMMA DagAlways == DagSpec => []DagInv
  <1>1. DagInit => DagInv
    BY DagInvInit
  <1>2. DagInv /\ [DagNext]_dagAll => DagInv'
    BY DagInvStep
  <1> QED
    BY <1>1, <1>2, PTL DEF DagSpec, dagAll

(* The orchestration only ever does what the handlers and the job do. *)
THEOREM DagImplementsHandlers == DagSpec => Spec
  <1>1. DagInit => Init
    BY DEF DagInit
  <1>2. DagInv /\ [DagNext]_dagAll => [Next]_vars
    BY DagStepIsAws DEF DagInv
  <1> QED
    BY <1>1, <1>2, DagAlways, PTL DEF DagSpec, Spec, dagAll

(* Hence reruns, lost answers and leftover handlers move the pointer by
   compare-and-swap from parent to child and by nothing else. *)
THEOREM DagSwapsThePointer == DagSpec => PublishesByCompareAndSwap
  BY DagImplementsHandlers, LambdasRefinePointer

(* A task waits only for a handler it invoked for its own generation. *)
THEOREM DagTyped == DagSpec => []DagTypeOK
  <1>1. DagInv => DagTypeOK
    BY DEF DagInv, AwsInv, DagShape, DagRuns, DagTypeOK
  <1> QED
    BY <1>1, DagAlways, PTL

-----------------------------------------------------------------------------
(* What the outcome of a run says. *)

(* A run counts on the publication its answer reported. *)
OutcomeHolds ==
    /\ dag.task = "success" => dag.request.gid \in Published
    /\ dag.task = "publish" /\ dag.answer = "ok" => dag.request.gid \in Published

(* A run that found an item never learns that its register call succeeded. *)
KnownStays ==
    dag.known =>
        /\ dag.request.gid \in Generation /\ item[dag.request.gid] # None
        /\ dag.task \notin {"publish", "success"}
        /\ ~(dag.task = "register" /\ dag.answer = "ok")

LEMMA PublishedStays ==
    ASSUME AwsInv, [Next]_vars
    PROVE  /\ Published \subseteq Published'
           /\ \A g \in Generation : item[g] # None => item'[g] # None
  BY ItemsAreKept DEF ItemKept, Published

(* An answer that means success is a publication, or a registration of a
   generation that had no item. *)
LEMMA OkMeans ==
    ASSUME DagInv, NEW c \in Caller, dag.caller = c,
           (Register(c) /\ item' # item) \/ Swap(c)
    PROVE  /\ dag.request.gid \in Generation /\ dag.answer = None
           /\ dag.task = "register" => item[dag.request.gid] = None
           /\ dag.task # "register" => dag.request.gid \in Published'
  <1>1. call[c].pc \in {"put", "transact"} /\ dag.caller # None
    BY DagNoneAssumption DEF Register, Swap, PutItem, Transact
  <1>2. /\ dag.answer = None /\ call[c].gid = dag.request.gid
        /\ call[c].pc \in IF dag.task = "register" THEN {"put"} ELSE {"pointer", "transact"}
        /\ dag.request.gid \in Generation
    BY <1>1, RequestIsTyped DEF DagInv, DagShape
  <1>3. CASE Register(c) /\ item' # item
    BY <1>2, <1>3 DEF Register, PutItem, KeyIsFree
  <1>4. CASE Swap(c)
    <2>1. item'[dag.request.gid] # None /\ item'[dag.request.gid].status = "PUBLISHED"
      BY <1>2, <1>4, TransactEffect DEF Swap, DagInv
    <2> QED
      BY <1>2, <1>4, <2>1 DEF Swap, Transact, Published
  <1> QED
    BY <1>2, <1>3, <1>4

(* How a step changes the run: a new one, an answer, the next task, or the
   end of the task. *)
Begins ==
    /\ dag'.request.gid \in Generation /\ dag'.task = "build" /\ dag'.answer = None
    /\ dag'.known = (item[dag'.request.gid] # None)
SameRun == dag'.request = dag.request /\ dag'.known = dag.known
Waits == dag'.task = dag.task /\ dag'.answer \in {dag.answer, "error", None}
Succeeds ==
    /\ dag'.task = dag.task /\ dag'.answer = "ok"
    /\ dag.request.gid \in Generation
    /\ dag.task = "register" => item[dag.request.gid] = None
    /\ dag.task # "register" => dag.request.gid \in Published'
Proceeds ==
    /\ dag.answer # None /\ dag'.answer = None
    /\ dag'.task = AfterAnswer(dag.task)
Stops == dag'.task \in {"failed", "register"} /\ dag'.answer \in {dag.answer, None}
         /\ dag.task \in Tasks /\ (dag'.task = "register" => dag'.answer = None)

LEMMA DagMoves ==
    ASSUME DagInv, [DagNext]_dagAll
    PROVE  Begins \/ (SameRun /\ (Waits \/ Succeeds \/ Proceeds \/ Stops))
  <1>0. dag \in DagRuns /\ (dag.caller # None => dag.task \in {"register", "publish"})
    BY DEF DagInv, DagShape
  <1>1. ASSUME NEW r \in Requests, Trigger(r) PROVE Begins
    <2>1. dag' = [run |-> dag.run + 1, request |-> r, task |-> "build", from |-> "none",
                  caller |-> None, answer |-> None, clean |-> Quiet,
                  known |-> item[r.gid] # None]
      BY <1>1 DEF Trigger, NoRun
    <2> QED
      BY <2>1, RequestIsTyped DEF Begins
  <1>2. ASSUME NEW j \in jobs, JobEnds(j) PROVE SameRun /\ (Waits \/ Stops)
    <2>1. CASE ~Awaited(j)
      BY <1>2, <2>1 DEF JobEnds, JobCompletes, JobRaises, SameRun, Waits
    <2>2. CASE Awaited(j)
      <3>1. PICK task \in {"register", "failed"} :
               dag' = [dag EXCEPT !.task = task, !.from = dag.task, !.caller = None,
                                  !.answer = None]
        BY <1>2, <2>2 DEF JobEnds, JobCompletes, JobRaises, MoveTo
      <3> QED
        BY <1>0, <2>2, <3>1 DEF DagRuns, SameRun, Stops, Awaited, Tasks
    <2> QED
      BY <2>1, <2>2
  <1>3. ASSUME NEW j \in jobs, JobDies(j) PROVE SameRun /\ (Waits \/ Stops)
    <2>1. CASE ~Awaited(j)
      BY <1>3, <2>1 DEF JobDies, SameRun, Waits
    <2>2. CASE Awaited(j)
      <3>1. dag' = [dag EXCEPT !.task = "failed", !.from = "build", !.clean = FALSE]
        BY <1>3, <2>2 DEF JobDies
      <3> QED
        BY <1>0, <2>2, <3>1 DEF DagRuns, SameRun, Stops, Awaited, Tasks
    <2> QED
      BY <2>1, <2>2
  <1>4. ASSUME NEW c \in Caller, Invoke(c) \/ TurnAway(c) PROVE SameRun /\ Waits
    BY <1>0, <1>4 DEF Invoke, TurnAway, DagRuns, SameRun, Waits
  <1>5. ASSUME NEW c \in Caller, NEW a \in {"ok", "error"}, Answers(c, a),
               a = "ok" /\ dag.caller = c =>
                  (Register(c) /\ item' # item) \/ Swap(c)
        PROVE  SameRun /\ (Waits \/ Succeeds)
    <2>1. CASE dag.caller # c
      BY <1>5, <2>1 DEF Answers, SameRun, Waits
    <2>2. CASE dag.caller = c
      <3>1. dag' = [dag EXCEPT !.answer = a]
        BY <1>5, <2>2 DEF Answers
      <3>2. SameRun /\ dag'.task = dag.task /\ dag'.answer = a
        BY <1>0, <3>1 DEF DagRuns, SameRun
      <3>3. CASE a = "ok"
        BY <1>5, <2>2, <3>2, <3>3, OkMeans DEF Succeeds
      <3>4. CASE a = "error"
        BY <3>2, <3>4 DEF Waits
      <3> QED
        BY <3>2, <3>3, <3>4
    <2> QED
      BY <2>1, <2>2
  <1>6. ASSUME NEW c \in Caller, Handles(c) PROVE SameRun /\ (Waits \/ Succeeds)
    <2>1. CASE Register(c)
      <3>1. CASE item' # item
        BY <1>5, <2>1, <3>1 DEF Register
      <3>2. CASE item' = item
        BY <1>5, <2>1, <3>2 DEF Register
      <3> QED
        BY <3>1, <3>2
    <2>2. CASE LookUp(c)
      BY <1>5, <2>2 DEF LookUp, SameRun, Waits
    <2>3. CASE Swap(c)
      BY <1>5, <2>3 DEF Swap
    <2>4. CASE Refuse(c)
      BY <1>5, <2>4 DEF Refuse
    <2> QED
      BY <1>6, <2>1, <2>2, <2>3, <2>4 DEF Handles
  <1>7. ASSUME NEW c \in Caller, TimesOut(c) PROVE SameRun /\ Waits
    BY <1>0, <1>7 DEF TimesOut, DagRuns, SameRun, Waits
  <1>8. CASE Receive
    BY <1>0, <1>8 DEF Receive, MoveTo, DagRuns, SameRun, Proceeds
  <1>9. CASE AnswerLost
    BY <1>0, <1>9 DEF AnswerLost, DagRuns, SameRun, Waits
  <1>10. CASE TaskLost
    BY <1>0, <1>10 DEF TaskLost, DagRuns, SameRun, Stops
  <1>11. CASE UNCHANGED dagAll
    BY <1>11 DEF dagAll, dagVars, SameRun, Waits
  <1> QED
    BY <1>1, <1>2, <1>3, <1>4, <1>6, <1>7, <1>8, <1>9, <1>10, <1>11 DEF DagNext

LEMMA OutcomeStep ==
    ASSUME DagInv, OutcomeHolds, KnownStays, [DagNext]_dagAll
    PROVE  (OutcomeHolds /\ KnownStays)'
  <1>1. /\ Published \subseteq Published'
        /\ \A g \in Generation : item[g] # None => item'[g] # None
    BY DagStepIsAws, PublishedStays DEF DagInv
  <1>2. /\ dag.answer \in {"ok", "error", None} /\ None \notin {"ok", "error"}
        /\ dag.answer # None => dag.task \in {"register", "publish"}
    BY DagNoneAssumption DEF DagInv, DagShape, DagRuns
  <1>3. CASE Begins
    <2>1. dag'.known => item'[dag'.request.gid] # None
      BY <1>1, <1>3 DEF Begins
    <2> QED
      BY <1>3, <2>1 DEF Begins, OutcomeHolds, KnownStays
  <1>4. CASE SameRun /\ Waits
    BY <1>1, <1>2, <1>4 DEF SameRun, Waits, OutcomeHolds, KnownStays
  <1>5. CASE SameRun /\ Succeeds
    BY <1>1, <1>2, <1>5 DEF SameRun, Succeeds, OutcomeHolds, KnownStays
  <1>6. CASE SameRun /\ Proceeds
    BY <1>1, <1>2, <1>6 DEF SameRun, Proceeds, AfterAnswer, Following, OutcomeHolds, KnownStays
  <1>7. CASE SameRun /\ Stops
    BY <1>1, <1>2, <1>7 DEF SameRun, Stops, OutcomeHolds, KnownStays
  <1> QED
    BY <1>3, <1>4, <1>5, <1>6, <1>7, DagMoves

LEMMA OutcomeAlways == DagSpec => [](OutcomeHolds /\ KnownStays)
  <1>1. DagInit => OutcomeHolds /\ KnownStays
    BY DEF DagInit, NoRun, OutcomeHolds, KnownStays
  <1>2. DagInv /\ OutcomeHolds /\ KnownStays /\ [DagNext]_dagAll
           => (OutcomeHolds /\ KnownStays)'
    BY OutcomeStep
  <1> QED
    BY <1>1, <1>2, DagAlways, PTL DEF DagSpec, dagAll

(* A run reported as success has published its generation, whatever answers
   were lost and whatever an earlier run left behind. *)
THEOREM SuccessMeansPublished == DagSpec => []SuccessIsPublished
  <1>1. OutcomeHolds => SuccessIsPublished
    BY DEF OutcomeHolds, SuccessIsPublished
  <1> QED
    BY <1>1, OutcomeAlways, PTL

(* A run triggered for a registered generation never publishes it: put_item
   refuses, whoever wrote the item. *)
THEOREM RerunsStopAtRegister == DagSpec => []RerunNeverPublishes
  <1>1. KnownStays => RerunNeverPublishes
    BY DEF KnownStays, RerunNeverPublishes
  <1> QED
    BY <1>1, OutcomeAlways, PTL
-----------------------------------------------------------------------------
(* No failure without a reason.  Digests are numbered by the runs of the job, *)
(* so an object written later than an item never has the item's digest.       *)

DigestsBelow ==
    /\ \A u \in Uri : manifest[u] # None => manifest[u].digest =< builds
    /\ \A g \in Generation : item[g] # None => item[g].digest =< builds
    /\ \A c \in Caller : call[c].pc = "put" => call[c].digest =< builds

LEMMA DigestsStep ==
    ASSUME AwsInv, DigestsBelow, [Next]_vars
    PROVE  DigestsBelow'
  <1>1. TypeOK
    BY DEF AwsInv
  <1>2. builds \in Nat /\ builds' \in Nat /\ builds =< builds'
    <2>1. builds \in Nat
      BY <1>1, MaxBuildsAssumption DEF TypeOK
    <2>2. builds' = builds + 1 \/ builds' = builds
      BY ObjectSteps DEF WriteManifest
    <2> QED
      BY <2>1, <2>2
  <1>3. /\ \A g \in Generation : item[g] # None => item[g].digest \in Nat
        /\ \A u \in Uri : manifest[u] # None => manifest[u].digest \in Nat
        /\ \A c \in Caller : call[c].pc = "put" => call[c].digest \in Nat
    BY <1>1, MaxBuildsAssumption DEF TypeOK, Items, Manifests, Digests
  <1>4. \A u \in Uri : manifest'[u] # None => manifest'[u].digest =< builds'
    <2>1. CASE manifest' = manifest
      BY <1>2, <1>3, <2>1 DEF DigestsBelow
    <2>2. ASSUME NEW r \in Requests, WriteManifest(r)
          PROVE  \A u \in Uri : manifest'[u] # None => manifest'[u].digest =< builds'
      <3>1. /\ manifest' = [manifest EXCEPT ![r.output] = Written(r)]
            /\ builds' = builds + 1
        BY <1>1, <2>2, JobWrites
      <3>2. Written(r).digest = builds'
        BY <3>1 DEF Written
      <3>3. \A u \in Uri : manifest'[u] = IF u = r.output THEN Written(r) ELSE manifest[u]
        BY <1>1, <3>1 DEF TypeOK
      <3> QED
        BY <1>2, <1>3, <3>2, <3>3 DEF DigestsBelow
    <2> QED
      BY <2>1, <2>2, ObjectSteps
  <1>5. \A g \in Generation : item'[g] # None => item'[g].digest =< builds'
    <2> SUFFICES ASSUME NEW g \in Generation, item'[g] # None
                 PROVE  item'[g].digest =< builds'
      OBVIOUS
    <2>1. CASE item[g] # None
      <3>1. item'[g].digest = item[g].digest
        BY <2>1, ItemsAreKept DEF ItemKept
      <3> QED
        BY <1>2, <1>3, <2>1, <3>1 DEF DigestsBelow
    <2>2. CASE item[g] = None
      <3>1. PICK c \in Caller : PutItem(c) \/ Transact(c)
        BY <2>2, TableSteps
      <3>2. ~Transact(c)
        <4>1. Transact(c) => item[call[c].gid] # None /\ call[c].gid \in Generation
          BY TransactPublishes
        <4> QED
          BY <1>1, <2>2, <4>1 DEF Transact, TypeOK
      <3>3. g = call[c].gid /\ item'[g].digest = call[c].digest /\ call[c].pc = "put"
        BY <1>1, <2>2, <3>1, <3>2 DEF PutItem, TypeOK
      <3> QED
        BY <1>2, <1>3, <3>3 DEF DigestsBelow
    <2> QED
      BY <2>1, <2>2
  <1>6. ASSUME NEW c \in Caller, call'[c].pc = "put" PROVE call'[c].digest =< builds'
    <2>1. CASE call'[c] = call[c]
      BY <1>2, <1>3, <1>6, <2>1 DEF DigestsBelow
    <2>2. CASE call'[c] # call[c]
      <3>1. PICK d \in Caller : Handler(d)
        BY <2>2 DEF Next, vars, WriteManifest
      <3>2. ASSUME NEW state, Becomes(d, state) PROVE d = c /\ call'[c] = state
        BY <1>1, <2>2, <3>2, CallStep
      <3>3. Idle.pc # "put"
        BY IdleIsACall
      <3>4. PICK r \in Requests : ReadManifest(d, r)
        <4>1. CASE PutItem(d) \/ Transact(d) \/ GiveUp(d)
          BY <1>6, <3>2, <3>3, <4>1 DEF PutItem, Transact, GiveUp
        <4>2. CASE ReadPointer(d)
          <5>1. [call[d] EXCEPT !.pc = "transact", !.version = pointer.version].pc = "transact"
            BY <1>1 DEF TypeOK, Calls
          <5> QED
            BY <1>6, <3>2, <3>3, <4>2, <5>1 DEF ReadPointer
        <4>3. ASSUME NEW g \in Generation, ReadCandidate(d, g) PROVE FALSE
          <5> DEFINE state == IF item[g] = None
                              THEN [Idle EXCEPT !.pc = "pointer", !.gid = g]
                              ELSE [Idle EXCEPT !.pc = "pointer", !.gid = g, !.found = TRUE,
                                      !.parent = item[g].parent, !.digest = item[g].digest]
          <5>1. state.pc = "pointer"
            BY DEF Idle
          <5>2. Becomes(d, state)
            BY <4>3 DEF ReadCandidate
          <5> HIDE DEF state
          <5> QED
            BY <1>6, <3>2, <5>1, <5>2
        <4> QED
          BY <3>1, <4>1, <4>2, <4>3 DEF Handler
      <3> DEFINE state == [Idle EXCEPT !.pc = "put", !.gid = r.gid, !.uri = r.output,
                                       !.parent = manifest[r.output].parent,
                                       !.digest = manifest[r.output].digest]
      <3>5. state.digest = manifest[r.output].digest
        BY DEF Idle
      <3>6. Becomes(d, state) /\ r.output \in Uri /\ manifest[r.output] # None
        BY <3>4, ApprovedAssumption DEF ReadManifest, Registrable
      <3> HIDE DEF state
      <3>7. call'[c] = state
        BY <3>2, <3>6
      <3> QED
        BY <1>2, <1>3, <3>5, <3>6, <3>7 DEF DigestsBelow
    <2> QED
      BY <2>1, <2>2
  <1> QED
    BY <1>4, <1>5, <1>6 DEF DigestsBelow

(* The object at the request's URI is the one its job wrote, and the item is
   made of it. *)
Built(r) ==
    /\ r.output \in Uri /\ manifest[r.output] # None
    /\ manifest[r.output].gid = r.gid /\ manifest[r.output].mode = r.mode

Registered(r) ==
    /\ item[r.gid] # None
    /\ item[r.gid].status = "CANDIDATE"
    /\ item[r.gid].parent = manifest[r.output].parent
    /\ item[r.gid].digest = manifest[r.output].digest

OwnJob == [run |-> dag.run, request |-> dag.request]

(* What holds of a run that nothing has disturbed: it is alone, the object its
   register task reads is the one it built, an item it meets there was there
   before, and what its handlers have read is what it built. *)
Undisturbed ==
    dag.clean =>
        /\ \A x \in Caller : x # dag.caller => call[x].pc = "idle"
        /\ jobs = IF dag.task = "build" THEN {OwnJob} ELSE {}
        /\ dag.task = "register" =>
              /\ Built(dag.request)
              /\ dag.answer = None /\ item[dag.request.gid] # None =>
                    item[dag.request.gid].digest # manifest[dag.request.output].digest
              /\ dag.answer = None /\ dag.caller # None =>
                    /\ dag.request.output \in Approved
                    /\ call[dag.caller].parent = manifest[dag.request.output].parent
                    /\ call[dag.caller].digest = manifest[dag.request.output].digest
              /\ dag.answer = "ok" => Registered(dag.request)
        /\ dag.task = "publish" /\ dag.answer = None =>
              /\ Registered(dag.request)
              /\ dag.caller # None =>
                    /\ call[dag.caller].found
                    /\ call[dag.caller].parent = manifest[dag.request.output].parent
                    /\ call[dag.caller].digest = manifest[dag.request.output].digest
                    /\ call[dag.caller].pc = "transact" =>
                          call[dag.caller].version = pointer.version
        /\ dag.answer = "error" => Reason(dag.request, dag.task)
        /\ dag.task = "failed" => Reason(dag.request, dag.from)

LEMMA HandlerIsOwn ==
    ASSUME DagInv, Undisturbed, dag.clean, NEW c \in Caller, call[c].pc # "idle"
    PROVE  /\ c = dag.caller /\ dag.answer = None
           /\ call[c].gid = dag.request.gid
           /\ dag.request \in Requests /\ dag.request.gid \in Generation
           /\ call[c].pc \in IF dag.task = "register" THEN {"put"} ELSE {"pointer", "transact"}
           /\ dag.task \in {"register", "publish"} /\ dag \in DagRuns
  <1>1. c = dag.caller /\ c # None
    BY DagNoneAssumption DEF Undisturbed
  <1>2. dag.answer = None
    BY <1>1 DEF DagInv, DagShape
  <1> QED
    BY <1>1, <1>2, RequestIsTyped DEF DagInv, DagShape

(* The job of an undisturbed run ends. *)
LEMMA UndisturbedJob ==
    ASSUME DagInv, DigestsBelow, Undisturbed, dag.clean, NEW j \in jobs, JobEnds(j)
    PROVE  Undisturbed'
  <1> DEFINE r == dag.request
  <1>1. dag.task = "build" /\ jobs = {j} /\ j.run = dag.run /\ j.request = r
    BY DEF Undisturbed, OwnJob
  <1>2. /\ dag \in DagRuns /\ dag.caller = None /\ r \in Requests /\ r.gid \in Generation
        /\ TypeOK
    BY <1>1, RequestIsTyped DEF DagInv, AwsInv, DagShape
  <1>3. Awaited(j) /\ jobs \ {j} = {}
    BY <1>1 DEF Awaited
  <1>4. \A x \in Caller : call[x].pc = "idle"
    BY <1>2, DagNoneAssumption DEF Undisturbed
  <1>5. CASE JobCompletes(j)
    <2>1. /\ dag' = [dag EXCEPT !.task = "register", !.from = dag.task, !.caller = None,
                               !.answer = None]
          /\ jobs' = {} /\ WriteManifest(r)
      BY <1>1, <1>3, <1>5 DEF JobCompletes, MoveTo
    <2>2. /\ r.output \in Uri /\ manifest'[r.output] = Written(r) /\ Written(r) # None
          /\ builds' = builds + 1 /\ UNCHANGED <<item, call>>
      BY <1>2, <2>1, JobWrites
    <2>3. /\ dag'.task = "register" /\ dag'.request = r
          /\ dag'.caller = None /\ dag'.answer = None
      BY <1>2, <2>1 DEF DagRuns
    <2>4. /\ Written(r).digest = builds + 1
          /\ Written(r).gid = r.gid /\ Written(r).mode = r.mode
      BY DEF Written
    <2>5. item[r.gid] # None => item[r.gid].digest # builds + 1
      BY <1>2, MaxBuildsAssumption DEF DigestsBelow, TypeOK, Items, Digests
    <2>6. Built(dag.request)'
      BY <2>2, <2>3, <2>4 DEF Built
    <2> HIDE DEF r
    <2>7. item'[dag'.request.gid] # None =>
             item'[dag'.request.gid].digest # manifest'[dag'.request.output].digest
      BY <2>2, <2>3, <2>4, <2>5
    <2>8. \A x \in Caller : call'[x].pc = "idle"
      BY <1>4, <2>2
    <2> QED
      BY <2>1, <2>3, <2>6, <2>7, <2>8, DagNoneAssumption DEF Undisturbed
  <1>6. CASE JobRaises(j)
    <2>1. /\ dag' = [dag EXCEPT !.task = "failed", !.from = dag.task, !.caller = None,
                               !.answer = None]
          /\ jobs' = {} /\ UNCHANGED vars /\ ~JobAccepts(r)
      BY <1>1, <1>3, <1>6 DEF JobRaises, MoveTo
    <2>2. /\ dag'.task = "failed" /\ dag'.from = "build" /\ dag'.request = r
          /\ dag'.caller = None /\ dag'.answer = None
      BY <1>1, <1>2, <2>1 DEF DagRuns
    <2> HIDE DEF r
    <2>3. ~JobAccepts(r)'
      BY <2>1, <2>2 DEF JobAccepts, ParentFrontier, vars, r
    <2>4. Reason(dag.request, dag.from)'
      BY <2>2, <2>3 DEF Reason, r
    <2> QED
      BY <1>4, <2>1, <2>2, <2>4, DagNoneAssumption DEF Undisturbed, vars
  <1> QED
    BY <1>5, <1>6 DEF JobEnds

(* A run begins alone. *)
LEMMA UndisturbedTrigger ==
    ASSUME NEW r \in Requests, Trigger(r)
    PROVE  Undisturbed'
  <1>1. dag' = [run |-> dag.run + 1, request |-> r, task |-> "build", from |-> "none",
                caller |-> None, answer |-> None, clean |-> Quiet,
                known |-> item[r.gid] # None]
    BY DEF Trigger, NoRun
  <1>2. /\ dag'.run = dag.run + 1 /\ dag'.request = r
        /\ dag'.task = "build" /\ dag'.caller = None /\ dag'.answer = None
        /\ dag'.clean = Quiet
    BY <1>1
  <1>3. OwnJob' = [run |-> dag.run + 1, request |-> r]
    BY <1>2 DEF OwnJob
  <1>4. Quiet => jobs' = {OwnJob'} /\ \A x \in Caller : call'[x].pc = "idle"
    BY <1>3 DEF Trigger, Quiet, vars
  <1> QED
    BY <1>2, <1>4, DagNoneAssumption DEF Undisturbed

(* Its register and publish tasks invoke their handlers. *)
LEMMA UndisturbedInvoke ==
    ASSUME DagInv, Undisturbed, dag.clean, NEW c \in Caller, Invoke(c)
    PROVE  Undisturbed'
  <1>1. /\ TypeOK /\ dag \in DagRuns /\ dag.caller = None /\ dag.answer = None
        /\ dag.request \in Requests /\ dag.task \in {"register", "publish"}
    BY DEF Invoke, DagInv, AwsInv, DagShape
  <1>2. /\ dag' = [dag EXCEPT !.caller = c] /\ jobs' = jobs
        /\ UNCHANGED <<manifest, builds, item, pointer>>
    BY DEF Invoke, ReadManifest, ReadCandidate
  <1>3. /\ dag'.task = dag.task /\ dag'.request = dag.request
        /\ dag'.caller = c /\ dag'.answer = None /\ dag'.clean
    BY <1>1, <1>2 DEF DagRuns
  <1>4. \A x \in Caller : call[x].pc = "idle"
    BY <1>1, DagNoneAssumption DEF Undisturbed
  <1>5. CASE dag.task = "register" /\ ReadManifest(c, dag.request)
    <2> DEFINE built == manifest[dag.request.output]
               state == [Idle EXCEPT !.pc = "put", !.gid = dag.request.gid,
                                     !.uri = dag.request.output,
                                     !.parent = built.parent, !.digest = built.digest]
    <2>1. state.parent = built.parent /\ state.digest = built.digest
      BY DEF Idle
    <2>2. Becomes(c, state) /\ dag.request.output \in Approved
      BY <1>5 DEF ReadManifest, Registrable
    <2> HIDE DEF state
    <2>3. call'[c] = state /\ \A x \in Caller : x # c => call'[x].pc = "idle"
      BY <1>1, <1>4, <2>2, CallStep
    <2> QED
      BY <1>1, <1>2, <1>3, <1>5, <2>1, <2>2, <2>3, DagNoneAssumption
      DEF Undisturbed, Built
  <1>6. CASE dag.task = "publish" /\ ReadCandidate(c, dag.request.gid)
    <2>1. Registered(dag.request)
      BY <1>1, <1>6 DEF Undisturbed
    <2> DEFINE g == dag.request.gid
               state == [Idle EXCEPT !.pc = "pointer", !.gid = g, !.found = TRUE,
                                     !.parent = item[g].parent, !.digest = item[g].digest]
    <2>2. state.pc = "pointer" /\ state.found /\ state.parent = item[g].parent
          /\ state.digest = item[g].digest
      BY DEF Idle
    <2>3. Becomes(c, state)
      BY <1>6, <2>1 DEF ReadCandidate, Registered
    <2> HIDE DEF state
    <2>4. call'[c] = state /\ \A x \in Caller : x # c => call'[x].pc = "idle"
      BY <1>1, <1>4, <2>3, CallStep
    <2>5. Registered(dag.request)'
      BY <1>2, <1>3, <2>1 DEF Registered
    <2> QED
      BY <1>1, <1>2, <1>3, <1>6, <2>1, <2>2, <2>4, <2>5, DagNoneAssumption
      DEF Undisturbed, Registered
  <1> QED
    BY <1>5, <1>6 DEF Invoke

(* Its register handler raises only over the bucket: the object is there. *)
LEMMA UndisturbedTurnAway ==
    ASSUME DagInv, Undisturbed, dag.clean, NEW c \in Caller, TurnAway(c)
    PROVE  Undisturbed'
  <1>1. /\ dag \in DagRuns /\ dag.caller = None /\ dag.task = "register"
        /\ ~Registrable(dag.request)
    BY DEF TurnAway, DagInv, DagShape
  <1>2. dag' = [dag EXCEPT !.caller = c, !.answer = "error"] /\ UNCHANGED <<vars, jobs>>
    BY DEF TurnAway
  <1>3. /\ dag'.task = "register" /\ dag'.request = dag.request
        /\ dag'.caller = c /\ dag'.answer = "error"
    BY <1>1, <1>2 DEF DagRuns
  <1>4. \A x \in Caller : call'[x].pc = "idle"
    BY <1>1, <1>2, DagNoneAssumption DEF Undisturbed, vars
  <1>5. Built(dag.request) /\ dag.request.output \notin Approved
    BY <1>1 DEF Undisturbed, Built, Registrable
  <1>6. Built(dag.request)' /\ Reason(dag.request, dag.task)'
    BY <1>2, <1>3, <1>5 DEF Built, Reason, vars
  <1>7. jobs' = {}
    BY <1>1, <1>2 DEF Undisturbed
  <1> QED
    BY <1>3, <1>4, <1>6, <1>7, DagNoneAssumption DEF Undisturbed

(* What an answer leaves to show. *)
LEMMA UndisturbedAnswer ==
    ASSUME DagInv, Undisturbed, dag.clean, NEW c \in Caller, NEW a \in {"ok", "error"},
           call[c].pc # "idle", Becomes(c, Idle), Answers(c, a), jobs' = jobs,
           dag.task = "register" => manifest' = manifest,
           a = "ok" /\ dag.task = "register" => Registered(dag.request)',
           a = "error" => Reason(dag.request, dag.task)'
    PROVE  Undisturbed'
  <1>1. /\ c = dag.caller /\ dag.answer = None
        /\ dag.task \in {"register", "publish"} /\ dag \in DagRuns /\ TypeOK
    BY HandlerIsOwn DEF DagInv, AwsInv
  <1>2. dag' = [dag EXCEPT !.answer = a]
    BY <1>1 DEF Answers
  <1>3. /\ dag'.task = dag.task /\ dag'.request = dag.request
        /\ dag'.caller = c /\ dag'.answer = a /\ dag'.clean
    BY <1>1, <1>2 DEF DagRuns
  <1>4. \A x \in Caller : x # c => call'[x].pc = "idle"
    BY <1>1, CallStep DEF Undisturbed
  <1>5. jobs' = {} /\ dag'.task # "build" /\ dag'.task # "failed"
    BY <1>1, <1>3 DEF Undisturbed
  <1>6. a # None
    BY DagNoneAssumption
  <1>7. dag'.task = "register" => Built(dag.request)'
    BY <1>3 DEF Undisturbed, Built
  <1>8. a = "ok" /\ dag.task = "register" => Registered(dag.request)'
    OBVIOUS
  <1>9. a = "error" => Reason(dag.request, dag.task)'
    OBVIOUS
  <1> QED
    BY <1>3, <1>4, <1>5, <1>6, <1>7, <1>8, <1>9 DEF Undisturbed

(* The handlers of an undisturbed run answer what the tables say. *)
LEMMA UndisturbedHandler ==
    ASSUME DagInv, Undisturbed, dag.clean, NEW c \in Caller, Handles(c)
    PROVE  Undisturbed'
  <1>1. call[c].pc # "idle"
    BY DEF Handles, Register, PutItem, LookUp, ReadPointer, Swap, Transact, Refuse
  <1> DEFINE g == dag.request.gid
             built == manifest[dag.request.output]
  <1>2. /\ c = dag.caller /\ dag.answer = None /\ g \in Generation
        /\ call[c].gid = g /\ dag \in DagRuns /\ TypeOK
        /\ call[c].pc \in IF dag.task = "register" THEN {"put"} ELSE {"pointer", "transact"}
        /\ dag.task \in {"register", "publish"} /\ c # None
    BY <1>1, HandlerIsOwn, DagNoneAssumption DEF DagInv, AwsInv
  <1>3. ASSUME NEW a \in {"ok", "error"}, Answers(c, a)
        PROVE  dag'.request = dag.request /\ dag'.task = dag.task
    BY <1>2, <1>3 DEF Answers, DagRuns
  <1>4. CASE Register(c)
    <2>1. /\ call[c].pc = "put" /\ dag.task = "register"
          /\ Becomes(c, Idle) /\ jobs' = jobs /\ manifest' = manifest /\ pointer' = pointer
      BY <1>2, <1>4 DEF Register, PutItem
    <2>2. /\ call[c].parent = built.parent /\ call[c].digest = built.digest
          /\ item[g] # None => item[g].digest # built.digest
          /\ dag.request.output \in Approved /\ Built(dag.request)
      BY <1>2, <2>1 DEF Undisturbed
    <2> DEFINE row == [parent |-> call[c].parent, status |-> "CANDIDATE",
                       uri |-> call[c].uri, digest |-> call[c].digest]
    <2>3. row \in Items /\ row # None /\ row.status = "CANDIDATE"
          /\ row.parent = built.parent /\ row.digest = built.digest
      BY <1>2, <2>1, <2>2, AwsNoneAssumption DEF TypeOK, Calls, Items
    <2>4. item' = IF Encodable(built.parent) /\ item[g] = None
                  THEN [item EXCEPT ![g] = row] ELSE item
      BY <1>2, <1>4, <2>2 DEF Register, PutItem, KeyIsFree
    <2> HIDE DEF row
    <2>5. CASE item' # item
      <3>1. Answers(c, "ok") /\ item'[g] = row
        BY <1>2, <1>4, <2>4, <2>5 DEF Register, TypeOK
      <3>2. Registered(dag.request)'
        BY <1>3, <2>1, <2>3, <3>1 DEF Registered
      <3> QED
        BY <1>1, <2>1, <3>1, <3>2, UndisturbedAnswer
    <2>6. CASE item' = item
      <3>1. Answers(c, "error")
        BY <1>4, <2>6 DEF Register
      <3>2. ~Encodable(built.parent) \/ item[g] # None
        BY <1>2, <2>3, <2>4, <2>6 DEF TypeOK
      <3>3. Reason(dag.request, dag.task)'
        BY <1>3, <2>1, <2>2, <2>6, <3>1, <3>2 DEF Reason, Encodable
      <3> QED
        BY <1>1, <2>1, <3>1, <3>3, UndisturbedAnswer
    <2> QED
      BY <2>5, <2>6
  <1>5. CASE LookUp(c)
    <2>1. /\ dag.task = "publish" /\ Registered(dag.request)
          /\ call[c].found /\ call[c].parent = built.parent
          /\ call[c].digest = built.digest
      BY <1>2, <1>5 DEF LookUp, ReadPointer, Undisturbed
    <2> DEFINE state == [call[c] EXCEPT !.pc = "transact", !.version = pointer.version]
    <2>2. /\ state.pc = "transact" /\ state.version = pointer.version
          /\ state.found = call[c].found /\ state.parent = call[c].parent
          /\ state.digest = call[c].digest
      BY <1>2 DEF TypeOK, Calls
    <2>3. Becomes(c, state) /\ dag' = dag /\ jobs' = jobs
          /\ UNCHANGED <<manifest, item, pointer>>
      BY <1>5, <2>1 DEF LookUp, ReadPointer, CandidateFound
    <2> HIDE DEF state
    <2>4. call'[c] = state /\ \A x \in Caller : x # c => call'[x] = call[x]
      BY <1>2, <2>3, CallStep
    <2>5. Registered(dag.request)'
      BY <2>1, <2>3 DEF Registered
    <2>6. /\ \A x \in Caller : x # dag'.caller => call'[x].pc = "idle"
          /\ jobs' = IF dag'.task = "build" THEN {OwnJob'} ELSE {}
      BY <1>2, <2>1, <2>3, <2>4 DEF Undisturbed
    <2>7. /\ dag'.task = "publish" /\ dag'.answer = None
          /\ dag'.request = dag.request /\ dag'.caller = c
      BY <1>2, <2>1, <2>3
    <2>8. /\ call'[c].found /\ call'[c].parent = manifest'[dag'.request.output].parent
          /\ call'[c].digest = manifest'[dag'.request.output].digest
          /\ call'[c].version = pointer'.version
      BY <2>1, <2>2, <2>3, <2>4
    <2> QED
      BY <2>5, <2>6, <2>7, <2>8, DagNoneAssumption DEF Undisturbed
  <1>6. CASE Swap(c)
    <2>1. /\ Becomes(c, Idle) /\ jobs' = jobs /\ Answers(c, "ok")
          /\ call[c].pc = "transact"
      BY <1>6 DEF Swap, Transact
    <2> QED
      BY <1>1, <1>2, <2>1, UndisturbedAnswer
  <1>7. CASE Refuse(c)
    <2>1. /\ Becomes(c, Idle) /\ jobs' = jobs /\ Answers(c, "error")
          /\ call[c].pc = "transact" /\ Cancelled(c)
          /\ UNCHANGED <<manifest, item, pointer>>
      BY <1>7 DEF Refuse, GiveUp
    <2>2. /\ dag.task = "publish" /\ Registered(dag.request)
          /\ call[c].parent = built.parent /\ call[c].version = pointer.version
          /\ call[c].digest = built.digest
      BY <1>2, <2>1 DEF Undisturbed
    <2>3. item[g].parent # pointer.active
      BY <1>2, <2>1, <2>2 DEF Cancelled, CandidateCondition, PointerCondition, Registered
    <2>4. Reason(dag.request, dag.task)'
      BY <1>3, <2>1, <2>2, <2>3 DEF Reason
    <2> QED
      BY <1>1, <2>1, <2>4, UndisturbedAnswer
  <1> QED
    BY <1>4, <1>5, <1>6, <1>7 DEF Handles

LEMMA UndisturbedStep ==
    ASSUME DagInv, DigestsBelow, Undisturbed, [DagNext]_dagAll
    PROVE  Undisturbed'
  <1>1. CASE Receive
    <2>1. /\ dag' = [dag EXCEPT !.task = AfterAnswer(dag.task), !.from = dag.task,
                               !.caller = None, !.answer = None]
          /\ UNCHANGED <<vars, jobs>> /\ dag.answer # None
      BY <1>1 DEF Receive, MoveTo
    <2>2. /\ dag \in DagRuns /\ dag.caller # None /\ call[dag.caller].pc = "idle"
          /\ dag.task \in {"register", "publish"}
      BY <2>1 DEF DagInv, DagShape
    <2>3. /\ dag'.task = AfterAnswer(dag.task) /\ dag'.from = dag.task
          /\ dag'.request = dag.request /\ dag'.caller = None /\ dag'.answer = None
          /\ dag'.clean = dag.clean
      BY <2>1, <2>2 DEF DagRuns
    <2>4. AfterAnswer(dag.task) = IF dag.answer = "ok"
                                  THEN IF dag.task = "register" THEN "publish" ELSE "success"
                                  ELSE "failed"
      BY DEF AfterAnswer, Following
    <2> SUFFICES ASSUME dag.clean PROVE Undisturbed'
      BY <2>3 DEF Undisturbed
    <2>5. \A x \in Caller : call'[x].pc = "idle"
      BY <2>1, <2>2 DEF Undisturbed, vars
    <2>6. jobs' = {} /\ dag'.task \in {"publish", "success", "failed"}
      BY <2>1, <2>2, <2>3, <2>4 DEF Undisturbed
    <2>7. dag'.task = "publish" => Registered(dag.request)'
      <3>1. dag'.task = "publish" => Registered(dag.request)
        BY <2>2, <2>3, <2>4 DEF Undisturbed
      <3> QED
        BY <2>1, <2>3, <3>1 DEF Registered, vars
    <2>8. dag'.task = "failed" => Reason(dag.request, dag.from)'
      <3>1. dag'.task = "failed" => Reason(dag.request, dag.task)
        BY <2>1, <2>2, <2>3, <2>4 DEF Undisturbed, DagRuns
      <3>2. dag.task # "build"
        BY <2>2
      <3> QED
        BY <2>1, <2>3, <3>1, <3>2 DEF Reason, vars
    <2> QED
      BY <2>3, <2>5, <2>6, <2>7, <2>8, DagNoneAssumption DEF Undisturbed
  <1>2. CASE UNCHANGED dagAll
    <2>1. UNCHANGED <<vars, dag, jobs>>
      BY <1>2 DEF dagAll, dagVars
    <2>2. Reason(dag.request, dag.task)' <=> Reason(dag.request, dag.task)
      BY <2>1 DEF Reason, JobAccepts, ParentFrontier, vars
    <2>3. Reason(dag.request, dag.from)' <=> Reason(dag.request, dag.from)
      BY <2>1 DEF Reason, JobAccepts, ParentFrontier, vars
    <2> QED
      BY <2>1, <2>2, <2>3 DEF vars, Undisturbed, OwnJob, Built, Registered
  <1>3. ASSUME NEW c \in Caller, TimesOut(c) PROVE Undisturbed'
    <2>1. CASE ~dag.clean
      BY <1>3, <2>1 DEF TimesOut, Undisturbed, DagInv, DagShape, DagRuns
    <2>2. CASE dag.clean
      <3>1. c = dag.caller /\ dag \in DagRuns
        BY <1>3, <2>2, HandlerIsOwn DEF TimesOut, GiveUp
      <3>2. ~dag'.clean
        BY <1>3, <3>1 DEF TimesOut, DagRuns
      <3> QED
        BY <3>2 DEF Undisturbed
    <2> QED
      BY <2>1, <2>2
  <1>4. ASSUME NEW j \in jobs, JobDies(j) PROVE Undisturbed'
    <2>1. ~dag'.clean
      <3>1. dag \in DagRuns /\ (dag.clean => Awaited(j))
        BY DEF DagInv, DagShape, Undisturbed, OwnJob, Awaited
      <3>2. CASE Awaited(j)
        BY <1>4, <3>1, <3>2 DEF JobDies, DagRuns
      <3>3. CASE ~Awaited(j)
        BY <1>4, <3>1, <3>3 DEF JobDies
      <3> QED
        BY <3>2, <3>3
    <2> QED
      BY <2>1 DEF Undisturbed
  <1>5. CASE AnswerLost \/ TaskLost
    <2>1. ~dag'.clean
      BY <1>5 DEF AnswerLost, TaskLost, DagInv, DagShape, DagRuns
    <2> QED
      BY <2>1 DEF Undisturbed
  <1>6. ASSUME NEW r \in Requests, Trigger(r) PROVE Undisturbed'
    BY <1>6, UndisturbedTrigger
  <1>7. ASSUME ~dag.clean,
               \/ \E j \in jobs : JobEnds(j)
               \/ \E c \in Caller : Invoke(c) \/ TurnAway(c) \/ Handles(c)
        PROVE  Undisturbed'
    <2>1. dag \in DagRuns
      BY DEF DagInv, DagShape
    <2>2. ASSUME NEW j \in jobs, JobEnds(j) PROVE ~dag'.clean
      BY <1>7, <2>1, <2>2 DEF JobEnds, JobCompletes, JobRaises, MoveTo, DagRuns
    <2>3. ASSUME NEW c \in Caller, Invoke(c) \/ TurnAway(c) PROVE ~dag'.clean
      <3>1. \/ dag' = [dag EXCEPT !.caller = c]
            \/ dag' = [dag EXCEPT !.caller = c, !.answer = "error"]
        BY <2>3 DEF Invoke, TurnAway
      <3> QED
        BY <1>7, <2>1, <3>1 DEF DagRuns
    <2>4. ASSUME NEW c \in Caller, NEW a \in {"ok", "error"}, Answers(c, a)
          PROVE  ~dag'.clean
      BY <1>7, <2>1, <2>4 DEF Answers, DagRuns
    <2>5. ASSUME NEW c \in Caller, Handles(c) PROVE ~dag'.clean
      BY <1>7, <2>4, <2>5 DEF Handles, Register, LookUp, Swap, Refuse
    <2>6. ~dag'.clean
      BY <1>7, <2>2, <2>3, <2>5
    <2> QED
      BY <2>6 DEF Undisturbed
  <1>8. ASSUME dag.clean,
               \/ \E j \in jobs : JobEnds(j)
               \/ \E c \in Caller : Invoke(c) \/ TurnAway(c) \/ Handles(c)
        PROVE  Undisturbed'
    BY <1>8, UndisturbedJob, UndisturbedInvoke, UndisturbedTurnAway, UndisturbedHandler
  <1> QED
    BY <1>1, <1>2, <1>3, <1>4, <1>5, <1>6, <1>7, <1>8 DEF DagNext

(* A run that nothing disturbed fails only for a reason it meets in the
   tables, in the task that tests it: the job or the register handler refuses
   what was asked for, the generation was registered before, or its parent is
   not active. *)
THEOREM FailuresHaveReasons == DagSpec => []FailureHasReason
  <1>1. DagInit => DigestsBelow /\ Undisturbed
    BY IdleIsACall DEF DagInit, Init, NoRun, DigestsBelow, Undisturbed
  <1>2. DagInv /\ DigestsBelow /\ [DagNext]_dagAll => DigestsBelow'
    BY DigestsStep, DagStepIsAws DEF DagInv
  <1>3. DagInv /\ DigestsBelow /\ Undisturbed /\ [DagNext]_dagAll => Undisturbed'
    BY UndisturbedStep
  <1>4. Undisturbed => FailureHasReason
    BY DEF Undisturbed, FailureHasReason
  <1> QED
    BY <1>1, <1>2, <1>3, <1>4, DagAlways, PTL DEF DagSpec, dagAll
=============================================================================
