----------------------- MODULE GenerationBuilderProofs -----------------------
(***************************************************************************)
(* Proofs about the generation job, for every set of partitions,           *)
(* identities, histories and generations and every watermark.              *)
(***************************************************************************)
EXTENDS GenerationBuilder, WellFoundedInduction, TLAPS

-----------------------------------------------------------------------------
(* A set of natural numbers has a least element. *)

NatLess == {ss \in Nat \X Nat : ss[1] < ss[2]}

LEMMA NatLessIsWellFounded == IsWellFoundedOn(NatLess, Nat)
  BY NatLessThanWellFounded DEF OpToRel, NatLess

LEMMA LeastNatural ==
    ASSUME NEW S, S \subseteq Nat, S # {}
    PROVE  \E x \in S : \A y \in S : x =< y
  <1>1. PICK x \in S : \A y \in S : ~ (<<y, x>> \in NatLess)
    BY NatLessIsWellFounded, WFMin
  <1>2. ASSUME NEW y \in S PROVE x =< y
    <2>1. <<y, x>> \notin NatLess
      BY <1>1
    <2>2. x \in Nat /\ y \in Nat
      OBVIOUS
    <2> QED
      BY <2>1, <2>2 DEF NatLess
  <1> QED
    BY <1>2

-----------------------------------------------------------------------------
(* Source ranges and frontiers. *)

LEMMA SpanType ==
    ASSUME log \in [Partition -> Seq(Payload)], NEW p \in Partition, NEW s \in Spans(p)
    PROVE  /\ s.start \in Nat /\ s.end \in Nat
           /\ s.start =< s.end /\ s.end < Len(log[p])
           /\ s = [start |-> s.start, end |-> s.end]
  <1>1. Len(log[p]) \in Nat
    OBVIOUS
  <1> QED
    BY <1>1 DEF Spans

LEMMA InputType ==
    ASSUME NEW input \in SourceRanges
    PROVE  RangesOK(input) /\ DOMAIN input # {}
  <1>1. PICK P \in (SUBSET Partition) \ {{}} :
           input \in {r \in [P -> UNION {Spans(p) : p \in P}] : \A p \in P : r[p] \in Spans(p)}
    BY DEF SourceRanges
  <1> QED
    BY <1>1 DEF RangesOK

LEMMA InCovered ==
    ASSUME NEW ranges, NEW k
    PROVE  k \in Covered(ranges) <=>
              /\ k = <<k[1], k[2]>>
              /\ k[1] \in DOMAIN ranges
              /\ k[2] \in ranges[k[1]].start .. ranges[k[1]].end
  BY DEF Covered

(* A covered offset is an arrival. *)
LEMMA CoveredArrivals ==
    ASSUME log \in [Partition -> Seq(Payload)], NEW ranges, RangesOK(ranges)
    PROVE  Covered(ranges) \subseteq Arrivals
  <1> SUFFICES ASSUME NEW k \in Covered(ranges) PROVE k \in Arrivals
    OBVIOUS
  <1> DEFINE p == k[1]
             o == k[2]
  <1>1. k = <<p, o>> /\ p \in DOMAIN ranges /\ o \in ranges[p].start .. ranges[p].end
    BY InCovered
  <1>2. p \in Partition /\ ranges[p] \in Spans(p)
    BY <1>1 DEF RangesOK
  <1>3. ranges[p].start \in Nat /\ ranges[p].end \in Nat /\ ranges[p].end < Len(log[p])
    BY <1>2, SpanType
  <1>4. Len(log[p]) \in Nat
    BY <1>2
  <1>5. o \in Nat /\ o < Len(log[p])
    BY <1>1, <1>3, <1>4
  <1> QED
    BY <1>1, <1>2, <1>5 DEF Arrivals

(* A new frontier is well formed, and a LIVE one adds its input and nothing  *)
(* else: no hole and no overlap.                                             *)
LEMMA FrontierType ==
    ASSUME log \in [Partition -> Seq(Payload)],
           NEW mode, NEW input, NEW previous,
           RangesOK(input), RangesOK(previous),
           mode # "REPLAY" => Contiguous(input, previous)
    PROVE  RangesOK(Frontier(mode, input, previous))
  <1>1. CASE mode = "REPLAY"
    BY <1>1 DEF Frontier
  <1>2. CASE mode # "REPLAY"
    <2> DEFINE f == Frontier(mode, input, previous)
    <2>1. /\ DOMAIN f = DOMAIN input \cup DOMAIN previous
          /\ \A p \in DOMAIN f : f[p] =
               [start |-> IF p \in DOMAIN previous THEN previous[p].start ELSE input[p].start,
                end   |-> IF p \in DOMAIN input THEN input[p].end ELSE previous[p].end]
      BY <1>2 DEF Frontier
    <2> HIDE DEF f
    <2> SUFFICES ASSUME NEW p \in DOMAIN f PROVE p \in Partition /\ f[p] \in Spans(p)
      BY DEF RangesOK, f
    <2>2. p \in Partition
      BY <2>1 DEF RangesOK
    <2>3. Len(log[p]) \in Nat
      BY <2>2
    <2>4. CASE p \in DOMAIN input /\ p \in DOMAIN previous
      <3>1. input[p] \in Spans(p) /\ previous[p] \in Spans(p)
        BY <2>4 DEF RangesOK
      <3>2. input[p].start = previous[p].end + 1
        BY <1>2, <2>4 DEF Contiguous
      <3>3. f[p] = [start |-> previous[p].start, end |-> input[p].end]
        BY <2>1, <2>4
      <3>4. /\ previous[p].start \in Nat /\ previous[p].end \in Nat
            /\ previous[p].start =< previous[p].end
            /\ input[p].end \in Nat /\ input[p].end < Len(log[p])
            /\ input[p].start =< input[p].end
        BY <2>2, <3>1, SpanType
      <3>5. previous[p].start \in 0 .. (Len(log[p]) - 1) /\ input[p].end \in 0 .. (Len(log[p]) - 1)
            /\ previous[p].start =< input[p].end
        BY <2>3, <3>2, <3>4
      <3> QED
        BY <2>2, <3>3, <3>5 DEF Spans
    <2>5. CASE p \in DOMAIN input /\ p \notin DOMAIN previous
      <3>1. input[p] \in Spans(p)
        BY <2>5 DEF RangesOK
      <3>2. f[p] = [start |-> input[p].start, end |-> input[p].end]
        BY <2>1, <2>5
      <3> QED
        BY <2>2, <3>1, <3>2, SpanType
    <2>6. CASE p \notin DOMAIN input /\ p \in DOMAIN previous
      <3>1. previous[p] \in Spans(p)
        BY <2>6 DEF RangesOK
      <3>2. f[p] = [start |-> previous[p].start, end |-> previous[p].end]
        BY <2>1, <2>6
      <3> QED
        BY <2>2, <3>1, <3>2, SpanType
    <2> QED
      BY <2>1, <2>4, <2>5, <2>6
  <1> QED
    BY <1>1, <1>2

LEMMA FrontierTiles ==
    ASSUME log \in [Partition -> Seq(Payload)],
           NEW mode, NEW input, NEW previous,
           RangesOK(input), RangesOK(previous),
           mode # "REPLAY", Contiguous(input, previous)
    PROVE  /\ Covered(Frontier(mode, input, previous)) = Covered(previous) \cup Covered(input)
           /\ \A j \in Covered(previous), k \in Covered(input) : j[1] = k[1] => j[2] < k[2]
  <1> DEFINE f == Frontier(mode, input, previous)
  <1>1. /\ DOMAIN f = DOMAIN input \cup DOMAIN previous
        /\ \A p \in DOMAIN f :
             /\ f[p].start = IF p \in DOMAIN previous THEN previous[p].start ELSE input[p].start
             /\ f[p].end = IF p \in DOMAIN input THEN input[p].end ELSE previous[p].end
    BY DEF Frontier
  <1>2. \A p \in DOMAIN input :
           input[p].start \in Nat /\ input[p].end \in Nat /\ input[p].start =< input[p].end
    BY SpanType DEF RangesOK
  <1>3. \A p \in DOMAIN previous :
           previous[p].start \in Nat /\ previous[p].end \in Nat /\ previous[p].start =< previous[p].end
    BY SpanType DEF RangesOK
  <1>4. \A p \in DOMAIN input \cap DOMAIN previous : input[p].start = previous[p].end + 1
    BY DEF Contiguous
  <1> HIDE DEF f
  <1>5. ASSUME NEW k \in Covered(f) PROVE k \in Covered(previous) \cup Covered(input)
    <2> DEFINE p == k[1]
               o == k[2]
    <2>1. k = <<p, o>> /\ p \in DOMAIN f /\ o \in f[p].start .. f[p].end
      BY <1>5, InCovered
    <2>2. \/ p \in DOMAIN previous /\ o \in previous[p].start .. previous[p].end
          \/ p \in DOMAIN input /\ o \in input[p].start .. input[p].end
      BY <1>1, <1>2, <1>3, <1>4, <2>1
    <2> QED
      BY <2>1, <2>2, InCovered
  <1>6. ASSUME NEW k \in Covered(previous) PROVE k \in Covered(f)
    <2> DEFINE p == k[1]
               o == k[2]
    <2>1. k = <<p, o>> /\ p \in DOMAIN previous /\ o \in previous[p].start .. previous[p].end
      BY <1>6, InCovered
    <2>2. p \in DOMAIN f /\ o \in f[p].start .. f[p].end
      BY <1>1, <1>2, <1>3, <1>4, <2>1
    <2> QED
      BY <2>1, <2>2, InCovered
  <1>7. ASSUME NEW k \in Covered(input) PROVE k \in Covered(f)
    <2> DEFINE p == k[1]
               o == k[2]
    <2>1. k = <<p, o>> /\ p \in DOMAIN input /\ o \in input[p].start .. input[p].end
      BY <1>7, InCovered
    <2>2. p \in DOMAIN f /\ o \in f[p].start .. f[p].end
      BY <1>1, <1>2, <1>3, <1>4, <2>1
    <2> QED
      BY <2>1, <2>2, InCovered
  <1>8. ASSUME NEW j \in Covered(previous), NEW k \in Covered(input), j[1] = k[1]
        PROVE  j[2] < k[2]
    <2> DEFINE p == j[1]
               o == j[2]
               q == k[1]
               n == k[2]
    <2>1. j = <<p, o>> /\ p \in DOMAIN previous /\ o \in previous[p].start .. previous[p].end
      BY InCovered
    <2>2. k = <<q, n>> /\ q \in DOMAIN input /\ n \in input[q].start .. input[q].end
      BY InCovered
    <2>3. p = q
      BY <1>8, <2>1, <2>2
    <2>4. o < n
      BY <1>2, <1>3, <1>4, <2>1, <2>2, <2>3
    <2> QED
      BY <2>1, <2>2, <2>4
  <1> QED
    BY <1>5, <1>6, <1>7, <1>8 DEF f

-----------------------------------------------------------------------------
(* The identity gate of a batch: every identity has exactly one first        *)
(* arrival.                                                                   *)

LEMMA FirstIsUnique ==
    ASSUME NEW batch, batch \subseteq Arrivals,
           NEW f \in FirstArrivals(batch), NEW h \in FirstArrivals(batch), Id(f) = Id(h)
    PROVE  f = h
  <1>1. f \in Partition \X Nat /\ h \in Partition \X Nat
    BY DEF FirstArrivals, Arrivals
  <1>2. f = <<f[1], f[2]>> /\ h = <<h[1], h[2]>>
    BY <1>1
  <1>3. ~Precedes(f, h) /\ ~Precedes(h, f)
    BY DEF FirstArrivals
  <1>4. f[1] \in Nat /\ h[1] \in Nat /\ f[2] \in Nat /\ h[2] \in Nat
    BY <1>1, PartitionAssumption
  <1>5. f[1] = h[1] /\ f[2] = h[2]
    BY <1>3, <1>4 DEF Precedes
  <1> QED
    BY <1>2, <1>5

LEMMA FirstExists ==
    ASSUME NEW batch, batch \subseteq Arrivals, NEW k \in batch
    PROVE  \E f \in FirstArrivals(batch) : Id(f) = Id(k)
  <1> DEFINE same == {j \in batch : Id(j) = Id(k)}
             P == {j[1] : j \in same}
  <1>1. \A j \in same : j \in batch /\ Id(j) = Id(k) /\ j[1] \in Nat /\ j[2] \in Nat
    BY PartitionAssumption DEF Arrivals
  <1>2. P \subseteq Nat /\ P # {}
    BY <1>1
  <1>3. PICK p \in P : \A q \in P : p =< q
    BY <1>2, LeastNatural
  <1> DEFINE O == {j[2] : j \in {j \in same : j[1] = p}}
  <1>4. O \subseteq Nat /\ O # {}
    BY <1>1, <1>3
  <1>5. PICK o \in O : \A n \in O : o =< n
    BY <1>4, LeastNatural
  <1>6. PICK f \in same : f[1] = p /\ f[2] = o
    BY <1>5
  <1>7. ASSUME NEW j \in batch, Id(j) = Id(f) PROVE ~Precedes(j, f)
    <2>1. j \in same
      BY <1>6, <1>7
    <2>2. p =< j[1] /\ (j[1] = p => o =< j[2])
      BY <2>1, <1>3, <1>5
    <2>3. j[1] \in Nat /\ j[2] \in Nat /\ p \in Nat /\ o \in Nat
      BY <2>1, <1>1, <1>6
    <2> QED
      BY <1>6, <2>2, <2>3 DEF Precedes
  <1> QED
    BY <1>6, <1>7 DEF FirstArrivals

-----------------------------------------------------------------------------
(* The parts of NewBundle, by name. *)

Batch(input) == ContractValid(Covered(input))
Accepted(parent, mode, input) == Unknown(FirstArrivals(Batch(input)), Known(parent, mode))
Carried(parent, mode) == IF mode = "LIVE" THEN Keys(Curated(parent)) ELSE {}
Late(parent, mode, input) ==
    {k \in Accepted(parent, mode, input) :
        BeyondWatermark(k, Batch(input), Carried(parent, mode))}
NewlyCurated(parent, mode, input) ==
    IF mode = "REPLAY" THEN Accepted(parent, mode, input)
                       ELSE Accepted(parent, mode, input) \ Late(parent, mode, input)
ResolvedIds(parent, mode, input) ==
    IF mode = "REPLAY" THEN {Id(k) : k \in Accepted(parent, mode, input)} ELSE {}
Conflicts(input, kept) ==
    BatchConflicts(Batch(input)) \cup ParentConflicts(FirstArrivals(Batch(input)), kept)

LEMMA BundleParts ==
    ASSUME NEW g, NEW parent, NEW mode, NEW input, NEW kept
    PROVE  LET b == NewBundle(g, parent, mode, input, kept) IN
           /\ b.parent = parent /\ b.mode = mode /\ b.input = input
           /\ b.frontier = Frontier(mode, input, FrontierOf(parent))
           /\ b.curated = Curated(parent)
                 \cup {[key |-> k, by |-> g] : k \in NewlyCurated(parent, mode, input)}
           /\ b.corrections =
                 Resolve(Corrections(parent), ResolvedIds(parent, mode, input))
                    \cup NewLateRows(g, mode, Late(parent, mode, input), parent)
                    \cup ConflictRows(g, Conflicts(input, kept), parent)
  BY DEF NewBundle, Batch, Accepted, Carried, Late, NewlyCurated, ResolvedIds, Conflicts

(* What a completed run changes. *)
LEMMA BuildStep ==
    ASSUME TypeOK, NEW g \in Generation, NEW parent \in Built \cup {None},
           NEW mode \in Modes, NEW input \in SourceRanges, Build(g, parent, mode, input)
    PROVE  /\ log' = log
           /\ DOMAIN bundle' = Generation
           /\ g \notin Built /\ g # parent
           /\ Built' \subseteq Built \cup {g}
           /\ \A h \in Built : h \in Built' /\ bundle'[h] = bundle[h]
           /\ \E kept \in OnePerId(Known(parent, mode)) :
                 bundle'[g] = NewBundle(g, parent, mode, input, kept)
           /\ mode = "REPLAY" => parent # None
           /\ mode # "REPLAY" => Contiguous(input, FrontierOf(parent))
  <1>1. PICK kept \in OnePerId(Known(parent, mode)) :
           bundle' = [bundle EXCEPT ![g] = NewBundle(g, parent, mode, input, kept)]
    BY DEF Build
  <1>2. DOMAIN bundle = Generation /\ bundle[g] = None
    BY DEF Build, TypeOK
  <1>3. /\ bundle'[g] = NewBundle(g, parent, mode, input, kept)
        /\ \A h \in Generation : h # g => bundle'[h] = bundle[h]
        /\ DOMAIN bundle' = Generation
    BY <1>1, <1>2
  <1>4. g \notin Built /\ g # parent
    BY <1>2, NoneAssumption DEF Built
  <1>5. Built' \subseteq Built \cup {g}
    BY <1>3 DEF Built
  <1>6. \A h \in Built : h \in Built' /\ bundle'[h] = bundle[h]
    BY <1>3, <1>4 DEF Built
  <1>7. log' = log /\ (mode = "REPLAY" => parent # None)
        /\ (mode # "REPLAY" => Contiguous(input, FrontierOf(parent)))
    BY DEF Build, Modes
  <1> QED
    BY <1>3, <1>4, <1>5, <1>6, <1>7

(* The tables of a parent, and of no parent. *)
LEMMA ParentType ==
    ASSUME TypeOK, NEW parent \in Built \cup {None}
    PROVE  /\ Curated(parent) \subseteq CuratedRow
           /\ Corrections(parent) \subseteq CorrectionRow
           /\ RangesOK(FrontierOf(parent))
           /\ parent # None => DOMAIN FrontierOf(parent) # {}
  <1>1. CASE parent = None
    BY <1>1 DEF Curated, Corrections, FrontierOf, NoRanges, RangesOK
  <1>2. CASE parent # None
    <2>1. parent \in Built
      BY <1>2
    <2> QED
      BY <1>2, <2>1 DEF TypeOK, Curated, Corrections, FrontierOf
  <1> QED
    BY <1>1, <1>2

LEMMA BatchType ==
    ASSUME TypeOK, NEW input \in SourceRanges
    PROVE  Batch(input) \subseteq Arrivals
  BY InputType, CoveredArrivals DEF TypeOK, Batch, ContractValid

LEMMA AcceptedInBatch ==
    ASSUME NEW parent, NEW mode, NEW input
    PROVE  /\ Accepted(parent, mode, input) \subseteq FirstArrivals(Batch(input))
           /\ Accepted(parent, mode, input) \subseteq Batch(input)
           /\ Late(parent, mode, input) \subseteq Accepted(parent, mode, input)
           /\ NewlyCurated(parent, mode, input) \subseteq Accepted(parent, mode, input)
           /\ \A kept : Conflicts(input, kept) \subseteq Batch(input)
  BY DEF Accepted, Unknown, FirstArrivals, Late, NewlyCurated, Conflicts, BatchConflicts,
         ParentConflicts

(* An accepted arrival has an identity that the parent does not know. *)
LEMMA AcceptedIsNew ==
    ASSUME NEW parent, NEW mode, NEW input, NEW k \in Accepted(parent, mode, input)
    PROVE  /\ \A r \in Curated(parent) : Id(r.key) # Id(k)
           /\ \A r \in Corrections(parent) :
                 Id(r.key) = Id(k) => mode = "REPLAY" /\ r \in OpenLate(Corrections(parent))
  <1>1. \A j : Fingerprint(j)[1] = Id(j)
    BY DEF Fingerprint, Id
  <1>2. \A f \in Known(parent, mode) : f[1] # Id(k)
    BY DEF Accepted, Unknown
  <1>3. \A r \in Curated(parent) : Fingerprint(r.key) \in Known(parent, mode)
    BY DEF Known, Fingerprints
  <1>4. \A r \in Corrections(parent) :
           ~(mode = "REPLAY" /\ r \in OpenLate(Corrections(parent)))
              => Fingerprint(r.key) \in Known(parent, mode)
    BY DEF Known, Fingerprints
  <1> QED
    BY <1>1, <1>2, <1>3, <1>4

(* Resolving changes nothing but a status. *)
LEMMA ResolveType ==
    ASSUME NEW rows, rows \subseteq CorrectionRow, NEW ids
    PROVE  /\ Resolve(rows, ids) \subseteq CorrectionRow
           /\ \A r \in Resolve(rows, ids) : \E s \in rows :
                 /\ r.key = s.key /\ r.by = s.by /\ r.reason = s.reason
                 /\ r.status = IF s \in OpenLate(rows) /\ Id(s.key) \in ids
                               THEN "RESOLVED" ELSE s.status
           /\ \A s \in rows : \E r \in Resolve(rows, ids) :
                 /\ r.key = s.key /\ r.by = s.by /\ r.reason = s.reason
                 /\ r.status = IF s \in OpenLate(rows) /\ Id(s.key) \in ids
                               THEN "RESOLVED" ELSE s.status
  <1> DEFINE R(s) == IF s \in OpenLate(rows) /\ Id(s.key) \in ids
                     THEN [s EXCEPT !.status = "RESOLVED"] ELSE s
  <1>1. Resolve(rows, ids) = {R(s) : s \in rows}
    BY DEF Resolve
  <1>2. ASSUME NEW s \in rows
        PROVE  /\ R(s) \in CorrectionRow
               /\ R(s).key = s.key /\ R(s).by = s.by /\ R(s).reason = s.reason
               /\ R(s).status = IF s \in OpenLate(rows) /\ Id(s.key) \in ids
                                THEN "RESOLVED" ELSE s.status
    <2>1. s \in CorrectionRow
      OBVIOUS
    <2> QED
      BY <2>1 DEF CorrectionRow
  <1> HIDE DEF R
  <1> QED
    BY <1>1, <1>2

-----------------------------------------------------------------------------
(* Each part of the invariant survives a completed run. *)

LEMMA CorrectionsType ==
    ASSUME TypeOK, NEW g \in Generation, NEW parent \in Built \cup {None}, NEW mode \in Modes,
           NEW input \in SourceRanges, NEW kept
    PROVE  NewBundle(g, parent, mode, input, kept).corrections \subseteq CorrectionRow
  <1>1. Late(parent, mode, input) \subseteq Arrivals
    BY BatchType, AcceptedInBatch
  <1>2. Conflicts(input, kept) \subseteq Arrivals
    BY BatchType, AcceptedInBatch
  <1>3. NewLateRows(g, mode, Late(parent, mode, input), parent) \subseteq CorrectionRow
    BY <1>1 DEF NewLateRows, CorrectionRows, CorrectionRow
  <1>4. ConflictRows(g, Conflicts(input, kept), parent) \subseteq CorrectionRow
    BY <1>2 DEF ConflictRows, CorrectionRows, CorrectionRow
  <1>5. Resolve(Corrections(parent), ResolvedIds(parent, mode, input)) \subseteq CorrectionRow
    BY ParentType, ResolveType
  <1> QED
    BY <1>3, <1>4, <1>5, BundleParts

LEMMA TypeStep ==
    ASSUME TypeOK, NEW g \in Generation, NEW parent \in Built \cup {None},
           NEW mode \in Modes, NEW input \in SourceRanges, Build(g, parent, mode, input)
    PROVE  TypeOK'
  <1>1. /\ log' = log /\ DOMAIN bundle' = Generation
        /\ Built' \subseteq Built \cup {g}
        /\ \A h \in Built : h \in Built' /\ bundle'[h] = bundle[h]
        /\ mode = "REPLAY" => parent # None
        /\ mode # "REPLAY" => Contiguous(input, FrontierOf(parent))
    BY BuildStep
  <1>2. PICK kept : bundle'[g] = NewBundle(g, parent, mode, input, kept)
    BY BuildStep
  <1> DEFINE b == NewBundle(g, parent, mode, input, kept)
  <1>3. RangesOK(input) /\ DOMAIN input # {}
    BY InputType
  <1>4. RangesOK(b.frontier) /\ DOMAIN b.frontier # {}
    <2>1. b.frontier = Frontier(mode, input, FrontierOf(parent))
      BY BundleParts
    <2>2. RangesOK(b.frontier)
      BY <1>1, <1>3, <2>1, ParentType, FrontierType DEF TypeOK
    <2>3. ASSUME mode = "REPLAY" PROVE DOMAIN b.frontier # {}
      BY <1>1, <2>1, <2>3, ParentType DEF Frontier
    <2>4. ASSUME mode # "REPLAY" PROVE DOMAIN b.frontier # {}
      <3>1. DOMAIN b.frontier = DOMAIN input \cup DOMAIN FrontierOf(parent)
        BY <2>1, <2>4 DEF Frontier
      <3> QED
        BY <1>3, <3>1
    <2> QED
      BY <2>2, <2>3, <2>4
  <1>5. b.curated \subseteq CuratedRow
    <2>1. NewlyCurated(parent, mode, input) \subseteq Arrivals
      BY BatchType, AcceptedInBatch
    <2> QED
      BY <2>1, BundleParts, ParentType DEF CuratedRow
  <1>6. b.corrections \subseteq CorrectionRow
    BY CorrectionsType
  <1>7. b.parent = parent /\ b.mode = mode /\ b.input = input
    BY BundleParts
  <1>8. /\ CuratedRow' = CuratedRow /\ CorrectionRow' = CorrectionRow
        /\ \A p : Spans(p)' = Spans(p)
    BY <1>1 DEF CuratedRow, CorrectionRow, Arrivals, Spans
  <1> HIDE DEF b
  <1>9. ASSUME NEW h \in Built'
        PROVE  (/\ bundle[h].parent \in Built \cup {None}
                /\ bundle[h].mode \in Modes
                /\ bundle[h].mode = "REPLAY" => bundle[h].parent # None
                /\ RangesOK(bundle[h].input) /\ DOMAIN bundle[h].input # {}
                /\ RangesOK(bundle[h].frontier) /\ DOMAIN bundle[h].frontier # {}
                /\ bundle[h].curated \subseteq CuratedRow
                /\ bundle[h].corrections \subseteq CorrectionRow)'
    <2>1. CASE h = g
      <3>1. bundle'[h] = b
        BY <1>2, <2>1 DEF b
      <3> QED
        BY <3>1, <1>1, <1>3, <1>4, <1>5, <1>6, <1>7, <1>8 DEF RangesOK
    <2>2. CASE h # g
      <3>1. h \in Built /\ bundle'[h] = bundle[h]
        BY <1>1, <2>2
      <3> QED
        BY <3>1, <1>1, <1>8 DEF TypeOK, RangesOK
    <2> QED
      BY <2>1, <2>2
  <1> QED
    BY <1>1, <1>9 DEF TypeOK

LEMMA OneRowStep ==
    ASSUME TypeOK, OneRowPerIdentity,
           NEW g \in Generation, NEW parent \in Built \cup {None},
           NEW mode \in Modes, NEW input \in SourceRanges, Build(g, parent, mode, input)
    PROVE  OneRowPerIdentity'
  <1>1. /\ log' = log
        /\ Built' \subseteq Built \cup {g}
        /\ \A h \in Built : bundle'[h] = bundle[h]
    BY BuildStep
  <1>2. PICK kept : bundle'[g] = NewBundle(g, parent, mode, input, kept)
    BY BuildStep
  <1>3. bundle'[g].curated = Curated(parent)
           \cup {[key |-> k, by |-> g] : k \in NewlyCurated(parent, mode, input)}
    BY <1>2, BundleParts
  <1>4. \A r, s \in Curated(parent) : Id(r.key) = Id(s.key) => r = s
    BY DEF OneRowPerIdentity, Curated
  <1>5. \A r \in Curated(parent), k \in NewlyCurated(parent, mode, input) : Id(r.key) # Id(k)
    BY AcceptedInBatch, AcceptedIsNew
  <1>6. \A j, k \in NewlyCurated(parent, mode, input) : Id(j) = Id(k) => j = k
    BY AcceptedInBatch, BatchType, FirstIsUnique
  <1>7. \A r, s \in bundle'[g].curated : Id(r.key) = Id(s.key) => r = s
    BY <1>3, <1>4, <1>5, <1>6
  <1>8. \A k : Id(k)' = Id(k)
    BY <1>1 DEF Id, At
  <1>9. ASSUME NEW h \in Built' PROVE \A r, s \in bundle'[h].curated : Id(r.key) = Id(s.key) => r = s
    BY <1>1, <1>7 DEF OneRowPerIdentity
  <1> QED
    BY <1>8, <1>9 DEF OneRowPerIdentity

LEMMA TiledStep ==
    ASSUME TypeOK, FrontierIsTiled,
           NEW g \in Generation, NEW parent \in Built \cup {None},
           NEW mode \in Modes, NEW input \in SourceRanges, Build(g, parent, mode, input)
    PROVE  FrontierIsTiled'
  <1> DEFINE Tiled(m, before, after, i) ==
               IF m = "REPLAY" THEN after = before
                               ELSE after = before \cup i /\ before \cap i = {}
  <1>1. /\ g # parent
        /\ Built' \subseteq Built \cup {g}
        /\ \A h \in Built : bundle'[h] = bundle[h]
        /\ mode # "REPLAY" => Contiguous(input, FrontierOf(parent))
    BY BuildStep
  <1>2. PICK kept : bundle'[g] = NewBundle(g, parent, mode, input, kept)
    BY BuildStep
  <1>3. /\ bundle'[g].parent = parent /\ bundle'[g].mode = mode /\ bundle'[g].input = input
        /\ bundle'[g].frontier = Frontier(mode, input, FrontierOf(parent))
    BY <1>2, BundleParts
  <1>4. \A h \in Built \cup {None} : FrontierOf(h)' = FrontierOf(h)
    BY <1>1 DEF FrontierOf
  <1>5. Tiled(mode, Covered(FrontierOf(parent)), Covered(bundle'[g].frontier), Covered(input))
    <2>1. CASE mode = "REPLAY"
      BY <1>3, <2>1 DEF Frontier
    <2>2. CASE mode # "REPLAY"
      <3>1. /\ Covered(bundle'[g].frontier) = Covered(FrontierOf(parent)) \cup Covered(input)
            /\ \A j \in Covered(FrontierOf(parent)), k \in Covered(input) :
                  j[1] = k[1] => j[2] < k[2]
        BY <1>1, <1>3, <2>2, InputType, ParentType, FrontierTiles DEF TypeOK
      <3>2. Covered(input) \subseteq Arrivals
        BY InputType, CoveredArrivals DEF TypeOK
      <3>3. \A k \in Covered(input) : k[2] \in Nat
        BY <3>2 DEF Arrivals
      <3>4. Covered(FrontierOf(parent)) \cap Covered(input) = {}
        BY <3>1, <3>3
      <3> QED
        BY <2>2, <3>1, <3>4
    <2> QED
      BY <2>1, <2>2
  <1> HIDE DEF Tiled
  <1>6. ASSUME NEW h \in Built'
        PROVE  Tiled(bundle'[h].mode, Covered(FrontierOf(bundle[h].parent)'),
                     Covered(bundle'[h].frontier), Covered(bundle'[h].input))
    <2>1. CASE h = g
      <3>1. FrontierOf(bundle[h].parent)' = FrontierOf(parent)
        BY <2>1, <1>3, <1>4 DEF FrontierOf
      <3> QED
        BY <2>1, <3>1, <1>3, <1>5
    <2>2. CASE h # g
      <3>1. h \in Built /\ bundle'[h] = bundle[h] /\ bundle[h].parent \in Built \cup {None}
        BY <1>1, <2>2 DEF TypeOK
      <3>2. FrontierOf(bundle[h].parent)' = FrontierOf(bundle[h].parent)
        BY <3>1, <1>4 DEF FrontierOf
      <3> QED
        BY <3>1, <3>2 DEF FrontierIsTiled, Tiled
    <2> QED
      BY <2>1, <2>2
  <1> QED
    BY <1>6 DEF FrontierIsTiled, Tiled

(* The frontier of a new bundle covers the parent's and, for LIVE, the input. *)
LEMMA FrontierCovers ==
    ASSUME TypeOK, NEW parent \in Built \cup {None}, NEW mode, NEW input \in SourceRanges,
           mode # "REPLAY" => Contiguous(input, FrontierOf(parent))
    PROVE  Covered(Frontier(mode, input, FrontierOf(parent))) =
              Covered(FrontierOf(parent)) \cup (IF mode = "REPLAY" THEN {} ELSE Covered(input))
  <1>1. CASE mode = "REPLAY"
    BY <1>1 DEF Frontier
  <1>2. CASE mode # "REPLAY"
    <2>1. /\ log \in [Partition -> Seq(Payload)] /\ RangesOK(input)
          /\ RangesOK(FrontierOf(parent)) /\ Contiguous(input, FrontierOf(parent))
      BY <1>2, InputType, ParentType DEF TypeOK
    <2> QED
      BY <1>2, <2>1, FrontierTiles
  <1> QED
    BY <1>1, <1>2

(* If the replays are pinned after a run, they were before, and the run was.  *)
LEMMA PinnedStep ==
    ASSUME TypeOK, NEW g \in Generation, NEW parent \in Built \cup {None},
           NEW mode \in Modes, NEW input \in SourceRanges, Build(g, parent, mode, input),
           ReplaysArePinned'
    PROVE  /\ ReplaysArePinned
           /\ g \in Built' => Covered(input) \subseteq Covered(bundle'[g].frontier)
  <1>1. /\ \A h \in Built : h \in Built' /\ bundle'[h] = bundle[h]
        /\ mode # "REPLAY" => Contiguous(input, FrontierOf(parent))
    BY BuildStep
  <1>2. ReplaysArePinned
    BY <1>1 DEF ReplaysArePinned
  <1>3. PICK kept : bundle'[g] = NewBundle(g, parent, mode, input, kept)
    BY BuildStep
  <1>4. /\ bundle'[g].mode = mode /\ bundle'[g].input = input
        /\ bundle'[g].frontier = Frontier(mode, input, FrontierOf(parent))
    BY <1>3, BundleParts
  <1>5. CASE mode = "REPLAY"
    BY <1>2, <1>4, <1>5 DEF ReplaysArePinned
  <1>6. CASE mode # "REPLAY"
    BY <1>1, <1>2, <1>4, <1>6, FrontierCovers
  <1> QED
    BY <1>5, <1>6

(* What a bundle must know, and what it knows. *)
Arrived(ranges) == {Fingerprint(k) : k \in ContractValid(Covered(ranges))}
KnownBy(curated, corrections) == Fingerprints(curated) \cup Fingerprints(corrections)

LEMMA ParentConserved ==
    ASSUME Conserved, NEW parent \in Built \cup {None}
    PROVE  /\ Arrived(FrontierOf(parent)) \subseteq
                  KnownBy(Curated(parent), Corrections(parent))
           /\ ReplaysArePinned =>
                  KnownBy(Curated(parent), Corrections(parent)) \subseteq
                     Arrived(FrontierOf(parent))
  <1>1. CASE parent = None
    <2>1. Covered(FrontierOf(parent)) = {}
      BY <1>1 DEF FrontierOf, NoRanges, Covered
    <2> QED
      BY <1>1, <2>1 DEF Arrived, ContractValid, KnownBy, Fingerprints, Curated, Corrections
  <1>2. CASE parent # None
    BY <1>2 DEF Conserved, Arrived, KnownBy, FrontierOf, Curated, Corrections
  <1> QED
    BY <1>1, <1>2

(* A new bundle knows what its parent knew and every arrival of its input,    *)
(* and nothing from elsewhere.                                                *)
LEMMA BundleKnows ==
    ASSUME TypeOK, NEW g, NEW parent \in Built \cup {None}, NEW mode \in Modes,
           NEW input \in SourceRanges, NEW kept \in OnePerId(Known(parent, mode))
    PROVE  LET b == NewBundle(g, parent, mode, input, kept) IN
           KnownBy(b.curated, b.corrections) =
              KnownBy(Curated(parent), Corrections(parent)) \cup Arrived(input)
  <1> DEFINE b == NewBundle(g, parent, mode, input, kept)
             K == KnownBy(b.curated, b.corrections)
             old == KnownBy(Curated(parent), Corrections(parent))
             resolved == Resolve(Corrections(parent), ResolvedIds(parent, mode, input))
             lateRows == NewLateRows(g, mode, Late(parent, mode, input), parent)
             conflictRows == ConflictRows(g, Conflicts(input, kept), parent)
  <1>1. /\ b.curated = Curated(parent)
              \cup {[key |-> k, by |-> g] : k \in NewlyCurated(parent, mode, input)}
        /\ b.corrections = resolved \cup lateRows \cup conflictRows
    BY BundleParts
  <1> HIDE DEF b
  <1>2. Fingerprints(resolved) = Fingerprints(Corrections(parent))
    <2>1. /\ \A r \in resolved : \E s \in Corrections(parent) : r.key = s.key
          /\ \A s \in Corrections(parent) : \E r \in resolved : r.key = s.key
      BY ParentType, ResolveType
    <2> HIDE DEF resolved
    <2> QED
      BY <2>1 DEF Fingerprints
  <1>3. \A k \in Conflicts(input, kept) : Fingerprint(k) \in K
    <2>1. ASSUME NEW k \in Conflicts(input, kept)
          PROVE  \E r \in conflictRows : r.key = k
      <3>1. [key |-> k, by |-> g, reason |-> "identity_payload_conflict", status |-> "OPEN"]
               \in conflictRows
        BY DEF ConflictRows, CorrectionRows
      <3> QED
        BY <3>1
    <2> QED
      BY <1>1, <2>1 DEF KnownBy, Fingerprints
  <1>4. \A k \in Accepted(parent, mode, input) : Fingerprint(k) \in K
    <2> SUFFICES ASSUME NEW k \in Accepted(parent, mode, input) PROVE Fingerprint(k) \in K
      OBVIOUS
    <2>1. CASE k \in NewlyCurated(parent, mode, input)
      <3>1. [key |-> k, by |-> g] \in b.curated
        BY <1>1, <2>1
      <3> QED
        BY <3>1 DEF KnownBy, Fingerprints
    <2>2. CASE k \notin NewlyCurated(parent, mode, input)
      <3>1. mode # "REPLAY" /\ k \in Late(parent, mode, input)
        BY <2>2 DEF NewlyCurated
      <3>2. Id(k) \notin Ids(Corrections(parent))
        BY <3>1, AcceptedIsNew DEF Ids
      <3>3. [key |-> k, by |-> g, reason |-> "beyond_live_watermark", status |-> "OPEN"]
               \in lateRows
        BY <3>1, <3>2 DEF NewLateRows, CorrectionRows
      <3>4. \E r \in lateRows : r.key = k
        BY <3>3
      <3> QED
        BY <1>1, <3>4 DEF KnownBy, Fingerprints
    <2> QED
      BY <2>1, <2>2
  <1>5. old \subseteq K
    BY <1>1, <1>2 DEF KnownBy, Fingerprints
  <1>6. Known(parent, mode) \subseteq old
    BY DEF Known, KnownBy, Fingerprints
  <1>7. ASSUME NEW k \in Batch(input) PROVE Fingerprint(k) \in K
    <2>1. PICK f \in FirstArrivals(Batch(input)) : Id(f) = Id(k)
      BY BatchType, FirstExists
    <2>2. CASE Fingerprint(f) # Fingerprint(k)
      <3>1. k \in Conflicts(input, kept)
        BY <2>1, <2>2 DEF Conflicts, BatchConflicts
      <3> QED
        BY <3>1, <1>3
    <2>3. CASE Fingerprint(f) = Fingerprint(k) /\ f \in Accepted(parent, mode, input)
      BY <2>3, <1>4
    <2>4. CASE Fingerprint(f) = Fingerprint(k) /\ f \notin Accepted(parent, mode, input)
      <3>1. PICK h \in Known(parent, mode) : h[1] = Id(f)
        BY <2>4 DEF Accepted, Unknown
      <3>2. kept \subseteq Known(parent, mode) /\ \E i \in kept : i[1] = h[1]
        BY DEF OnePerId
      <3>3. PICK i \in kept : i[1] = Id(f) /\ i \in Known(parent, mode)
        BY <3>1, <3>2
      <3>4. CASE i = Fingerprint(f)
        BY <2>4, <3>3, <3>4, <1>5, <1>6
      <3>5. CASE i # Fingerprint(f)
        <4>1. f \in Conflicts(input, kept)
          BY <3>3, <3>5 DEF Conflicts, ParentConflicts
        <4> QED
          BY <2>4, <4>1, <1>3
      <3> QED
        BY <3>4, <3>5
    <2> QED
      BY <2>2, <2>3, <2>4
  <1>8. Arrived(input) \subseteq K
    BY <1>7 DEF Arrived, Batch
  <1>9. K \subseteq old \cup Arrived(input)
    <2>1. /\ NewlyCurated(parent, mode, input) \subseteq Batch(input)
          /\ Late(parent, mode, input) \subseteq Batch(input)
          /\ Conflicts(input, kept) \subseteq Batch(input)
      BY AcceptedInBatch
    <2>2. \A r \in lateRows \cup conflictRows : r.key \in Batch(input)
      BY <2>1 DEF NewLateRows, ConflictRows, CorrectionRows
    <2>3. \A k \in Batch(input) : Fingerprint(k) \in Arrived(input)
      BY DEF Arrived, Batch
    <2>4. Fingerprints(b.curated) \subseteq old \cup Arrived(input)
      BY <1>1, <2>1, <2>3 DEF KnownBy, Fingerprints
    <2>5. Fingerprints(b.corrections) \subseteq
             Fingerprints(resolved) \cup Fingerprints(lateRows \cup conflictRows)
      BY <1>1 DEF Fingerprints
    <2>6. Fingerprints(lateRows \cup conflictRows) \subseteq Arrived(input)
      BY <2>2, <2>3 DEF Fingerprints
    <2> QED
      BY <1>2, <2>4, <2>5, <2>6 DEF KnownBy
  <1> QED
    BY <1>5, <1>8, <1>9 DEF b

LEMMA ConservedStep ==
    ASSUME TypeOK, Conserved,
           NEW g \in Generation, NEW parent \in Built \cup {None},
           NEW mode \in Modes, NEW input \in SourceRanges, Build(g, parent, mode, input)
    PROVE  Conserved'
  <1>1. /\ log' = log
        /\ Built' \subseteq Built \cup {g}
        /\ \A h \in Built : bundle'[h] = bundle[h]
        /\ mode # "REPLAY" => Contiguous(input, FrontierOf(parent))
    BY BuildStep
  <1>2. PICK kept \in OnePerId(Known(parent, mode)) :
           bundle'[g] = NewBundle(g, parent, mode, input, kept)
    BY BuildStep
  <1> DEFINE K(h) == KnownBy(bundle'[h].curated, bundle'[h].corrections)
             A(h) == Arrived(bundle'[h].frontier)
  <1>3. K(g) = KnownBy(Curated(parent), Corrections(parent)) \cup Arrived(input)
    BY <1>2, BundleKnows
  <1>4. Covered(bundle'[g].frontier) =
           Covered(FrontierOf(parent)) \cup (IF mode = "REPLAY" THEN {} ELSE Covered(input))
    BY <1>1, <1>2, BundleParts, FrontierCovers
  <1>5. A(g) = Arrived(FrontierOf(parent)) \cup (IF mode = "REPLAY" THEN {} ELSE Arrived(input))
    BY <1>4 DEF Arrived, ContractValid
  <1>6. A(g) \subseteq K(g)
    BY <1>3, <1>5, ParentConserved
  <1>7. ASSUME g \in Built', ReplaysArePinned' PROVE K(g) \subseteq A(g)
    <2>1. ReplaysArePinned /\ Covered(input) \subseteq Covered(bundle'[g].frontier)
      BY <1>7, PinnedStep
    <2>2. Arrived(input) \subseteq A(g)
      BY <2>1 DEF Arrived, ContractValid
    <2> QED
      BY <1>3, <1>5, <2>1, <2>2, ParentConserved
  <1>8. ReplaysArePinned' => ReplaysArePinned
    BY PinnedStep
  <1>9. ASSUME NEW h \in Built'
        PROVE  A(h) \subseteq K(h) /\ (ReplaysArePinned' => A(h) = K(h))
    <2>1. CASE h = g
      BY <1>6, <1>7, <1>9, <2>1
    <2>2. CASE h # g
      <3>1. h \in Built /\ bundle'[h] = bundle[h]
        BY <1>1, <2>2
      <3> QED
        BY <3>1, <1>8 DEF Conserved, Arrived, KnownBy
    <2> QED
      BY <2>1, <2>2
  <1>10. (\A k : Fingerprint(k)' = Fingerprint(k)) /\ (\A k : At(k)' = At(k))
    BY <1>1 DEF Fingerprint, At
  <1>11. ASSUME NEW h
         PROVE  /\ {Fingerprint(k)' : k \in ContractValid(Covered(bundle[h].frontier))'} = A(h)
                /\ Fingerprints(bundle[h].curated)' = Fingerprints(bundle'[h].curated)
                /\ Fingerprints(bundle[h].corrections)' = Fingerprints(bundle'[h].corrections)
    BY <1>10 DEF Arrived, Fingerprints, ContractValid, Covered
  <1> HIDE DEF K, A
  <1> QED
    BY <1>9, <1>11 DEF Conserved, K, KnownBy

LEMMA ParentAgrees ==
    ASSUME CorrectionsAgree, NEW parent \in Built \cup {None}
    PROVE  LET late == LateRows(Corrections(parent)) IN
           /\ \A r \in late : (r.status = "OPEN") <=> Id(r.key) \notin Ids(Curated(parent))
           /\ \A r, s \in late : Id(r.key) = Id(s.key) => r = s
           /\ ReplaysArePinned => \A r \in late : r.status = "RESOLVED" =>
                  Fingerprint(r.key) \in Fingerprints(Curated(parent))
  <1>1. CASE parent = None
    BY <1>1 DEF Corrections, LateRows
  <1>2. CASE parent # None
    <2>1. parent \in Built /\ Corrections(parent) = bundle[parent].corrections
          /\ Curated(parent) = bundle[parent].curated
      BY <1>2 DEF Corrections, Curated
    <2> QED
      BY <2>1 DEF CorrectionsAgree
  <1> QED
    BY <1>1, <1>2

(* The late rows of a new bundle are the parent's, some of them resolved, and *)
(* those of its own late arrivals.                                            *)
LEMMA LateRowsOf ==
    ASSUME TypeOK, NEW g \in Generation, NEW parent \in Built \cup {None}, NEW mode \in Modes,
           NEW input \in SourceRanges, NEW kept,
           NEW r \in LateRows(NewBundle(g, parent, mode, input, kept).corrections)
    PROVE  \/ \E s \in LateRows(Corrections(parent)) :
                 /\ r.key = s.key /\ r.by = s.by /\ r.reason = s.reason
                 /\ r.status = IF s.status = "OPEN" /\ Id(s.key) \in ResolvedIds(parent, mode, input)
                               THEN "RESOLVED" ELSE s.status
           \/ \E k \in Late(parent, mode, input) :
                 /\ Id(k) \notin Ids(Corrections(parent))
                 /\ r.key = k /\ r.by = g /\ r.reason = "beyond_live_watermark"
                 /\ r.status = IF mode = "REPLAY" THEN "RESOLVED" ELSE "OPEN"
  <1>1. /\ r \in NewBundle(g, parent, mode, input, kept).corrections
        /\ r.reason = "beyond_live_watermark"
    BY DEF LateRows
  <1>2. r \in Resolve(Corrections(parent), ResolvedIds(parent, mode, input))
            \cup NewLateRows(g, mode, Late(parent, mode, input), parent)
            \cup ConflictRows(g, Conflicts(input, kept), parent)
    BY <1>1, BundleParts
  <1>3. r \notin ConflictRows(g, Conflicts(input, kept), parent)
    BY <1>1 DEF ConflictRows, CorrectionRows
  <1>4. CASE r \in Resolve(Corrections(parent), ResolvedIds(parent, mode, input))
    <2>1. PICK s \in Corrections(parent) :
             /\ r.key = s.key /\ r.by = s.by /\ r.reason = s.reason
             /\ r.status = IF s \in OpenLate(Corrections(parent))
                              /\ Id(s.key) \in ResolvedIds(parent, mode, input)
                           THEN "RESOLVED" ELSE s.status
      BY <1>4, ParentType, ResolveType
    <2>2. s \in LateRows(Corrections(parent))
      BY <1>1, <2>1 DEF LateRows
    <2>3. s \in OpenLate(Corrections(parent)) <=> s.status = "OPEN"
      BY <2>2 DEF OpenLate
    <2> QED
      BY <2>1, <2>2, <2>3
  <1>5. CASE r \in NewLateRows(g, mode, Late(parent, mode, input), parent)
    BY <1>5 DEF NewLateRows, CorrectionRows
  <1> QED
    BY <1>2, <1>3, <1>4, <1>5

(* What an accepted arrival of a pinned replay can be: the arrival of an OPEN *)
(* late row.                                                                  *)
LEMMA PinnedAccepted ==
    ASSUME TypeOK, Conserved, ReplaysArePinned,
           NEW parent \in Built \cup {None}, NEW input \in SourceRanges,
           Covered(input) \subseteq Covered(FrontierOf(parent)),
           NEW k \in Accepted(parent, "REPLAY", input)
    PROVE  \E t \in OpenLate(Corrections(parent)) : Fingerprint(t.key) = Fingerprint(k)
  <1>1. k \in ContractValid(Covered(FrontierOf(parent)))
    BY AcceptedInBatch DEF Batch, ContractValid
  <1>2. Fingerprint(k) \in KnownBy(Curated(parent), Corrections(parent))
    BY <1>1, ParentConserved DEF Arrived
  <1>3. \A j : Fingerprint(j)[1] = Id(j)
    BY DEF Fingerprint, Id
  <1>4. Fingerprint(k) \notin Fingerprints(Curated(parent))
    BY <1>3, AcceptedIsNew DEF Fingerprints
  <1>5. PICK t \in Corrections(parent) : Fingerprint(t.key) = Fingerprint(k)
    BY <1>2, <1>4 DEF KnownBy, Fingerprints
  <1>6. Id(t.key) = Id(k)
    BY <1>3, <1>5
  <1> QED
    BY <1>5, <1>6, AcceptedIsNew

LEMMA AgreeStep ==
    ASSUME TypeOK, Conserved, CorrectionsAgree,
           NEW g \in Generation, NEW parent \in Built \cup {None},
           NEW mode \in Modes, NEW input \in SourceRanges, Build(g, parent, mode, input)
    PROVE  CorrectionsAgree'
  <1>1. /\ log' = log
        /\ Built' \subseteq Built \cup {g}
        /\ \A h \in Built : bundle'[h] = bundle[h]
        /\ mode # "REPLAY" => Contiguous(input, FrontierOf(parent))
    BY BuildStep
  <1>2. PICK kept : bundle'[g] = NewBundle(g, parent, mode, input, kept)
    BY BuildStep
  <1> DEFINE late == LateRows(bundle'[g].corrections)
             new == NewlyCurated(parent, mode, input)
  <1>3. bundle'[g].curated = Curated(parent) \cup {[key |-> k, by |-> g] : k \in new}
    BY <1>2, BundleParts
  <1>4. Ids(bundle'[g].curated) = Ids(Curated(parent)) \cup {Id(k) : k \in new}
    <2> HIDE DEF new
    <2>1. \A r \in bundle'[g].curated : r \in Curated(parent) \/ \E k \in new : r.key = k
      BY <1>3
    <2>2. ASSUME NEW k \in new PROVE \E r \in bundle'[g].curated : r.key = k
      <3>1. [key |-> k, by |-> g] \in bundle'[g].curated
        BY <1>3
      <3> QED
        BY <3>1
    <2>3. Curated(parent) \subseteq bundle'[g].curated
      BY <1>3
    <2> QED
      BY <2>1, <2>2, <2>3 DEF Ids
  <1>5. \A r \in late :
           \/ \E s \in LateRows(Corrections(parent)) :
                 /\ r.key = s.key /\ r.by = s.by /\ r.reason = s.reason
                 /\ r.status = IF s.status = "OPEN" /\ Id(s.key) \in ResolvedIds(parent, mode, input)
                               THEN "RESOLVED" ELSE s.status
           \/ \E k \in Late(parent, mode, input) :
                 /\ Id(k) \notin Ids(Corrections(parent))
                 /\ r.key = k /\ r.by = g /\ r.reason = "beyond_live_watermark"
                 /\ r.status = IF mode = "REPLAY" THEN "RESOLVED" ELSE "OPEN"
    BY <1>2, LateRowsOf
  <1> HIDE DEF late, new
  <1>6. \A s \in LateRows(Corrections(parent)) : s \in Corrections(parent)
                                               /\ s.status \in {"OPEN", "RESOLVED"}
    BY ParentType DEF LateRows, CorrectionRow
  <1>7. ASSUME NEW r \in late
        PROVE  (r.status = "OPEN") <=> Id(r.key) \notin Ids(bundle'[g].curated)
    <2>1. ASSUME NEW s \in LateRows(Corrections(parent)), r.key = s.key,
                 r.status = IF s.status = "OPEN" /\ Id(s.key) \in ResolvedIds(parent, mode, input)
                            THEN "RESOLVED" ELSE s.status
          PROVE  (r.status = "OPEN") <=> Id(r.key) \notin Ids(bundle'[g].curated)
      <3>1. (s.status = "OPEN") <=> Id(s.key) \notin Ids(Curated(parent))
        BY ParentAgrees
      <3>2. CASE mode = "REPLAY"
        <4>1. ResolvedIds(parent, mode, input) = {Id(k) : k \in new}
          BY <3>2 DEF ResolvedIds, NewlyCurated, new
        <4> QED
          BY <1>4, <1>6, <2>1, <3>1, <4>1
      <3>3. CASE mode # "REPLAY"
        <4>1. ResolvedIds(parent, mode, input) = {}
          BY <3>3 DEF ResolvedIds
        <4>2. \A k \in new : Id(s.key) # Id(k)
          BY <1>6, <3>3, AcceptedInBatch, AcceptedIsNew DEF new
        <4>3. Id(s.key) \notin {Id(k) : k \in new}
          BY <4>2
        <4> QED
          BY <1>4, <1>6, <2>1, <3>1, <4>1, <4>3
      <3> QED
        BY <3>2, <3>3
    <2>2. ASSUME NEW k \in Late(parent, mode, input), r.key = k,
                 r.status = IF mode = "REPLAY" THEN "RESOLVED" ELSE "OPEN"
          PROVE  (r.status = "OPEN") <=> Id(r.key) \notin Ids(bundle'[g].curated)
      <3>1. k \in Accepted(parent, mode, input)
        BY AcceptedInBatch
      <3>2. CASE mode = "REPLAY"
        <4>1. k \in new
          BY <3>1, <3>2 DEF NewlyCurated, new
        <4> QED
          BY <1>4, <2>2, <3>2, <4>1
      <3>3. CASE mode # "REPLAY"
        <4>1. \A j \in new : j \in Accepted(parent, mode, input) /\ j # k
          BY <3>3 DEF NewlyCurated, new
        <4>2. \A j \in new : Id(j) # Id(k)
          BY <3>1, <4>1, AcceptedInBatch, BatchType, FirstIsUnique
        <4>3. Id(k) \notin Ids(Curated(parent))
          BY <3>1, AcceptedIsNew DEF Ids
        <4> QED
          BY <1>4, <2>2, <3>3, <4>2, <4>3
      <3> QED
        BY <3>2, <3>3
    <2> QED
      BY <1>5, <2>1, <2>2
  <1>8. ASSUME NEW r \in late, NEW q \in late, Id(r.key) = Id(q.key) PROVE r = q
    <2>1. r \in CorrectionRow /\ q \in CorrectionRow
      BY <1>2, CorrectionsType DEF LateRows, late
    <2>2. r.key = q.key /\ r.by = q.by /\ r.reason = q.reason /\ r.status = q.status
      <3>1. \A s, t \in LateRows(Corrections(parent)) : Id(s.key) = Id(t.key) => s = t
        BY ParentAgrees
      <3>2. \A s \in LateRows(Corrections(parent)) : Id(s.key) \in Ids(Corrections(parent))
        BY <1>6 DEF Ids
      <3>3. \A j, k \in Late(parent, mode, input) : Id(j) = Id(k) => j = k
        BY AcceptedInBatch, BatchType, FirstIsUnique
      <3> QED
        BY <1>5, <1>8, <3>1, <3>2, <3>3
    <2> QED
      BY <2>1, <2>2 DEF CorrectionRow
  <1>9. ASSUME g \in Built', ReplaysArePinned', NEW r \in late, r.status = "RESOLVED"
        PROVE  Fingerprint(r.key) \in Fingerprints(bundle'[g].curated)
    <2>1. ReplaysArePinned /\ Covered(input) \subseteq Covered(bundle'[g].frontier)
      BY <1>9, PinnedStep
    <2>2. ASSUME NEW k \in new PROVE Fingerprint(k) \in Fingerprints(bundle'[g].curated)
      <3>1. [key |-> k, by |-> g] \in bundle'[g].curated
        BY <1>3
      <3> QED
        BY <3>1 DEF Fingerprints
    <2>3. ASSUME NEW s \in LateRows(Corrections(parent)), r.key = s.key, s.status = "RESOLVED"
          PROVE  Fingerprint(r.key) \in Fingerprints(bundle'[g].curated)
      BY <1>3, <2>1, <2>3, ParentAgrees DEF Fingerprints
    <2>4. ASSUME NEW s \in LateRows(Corrections(parent)), r.key = s.key,
                 Id(s.key) \in ResolvedIds(parent, mode, input)
          PROVE  Fingerprint(r.key) \in Fingerprints(bundle'[g].curated)
      <3>1. mode = "REPLAY"
        BY <2>4 DEF ResolvedIds
      <3>2. PICK k \in Accepted(parent, "REPLAY", input) : Id(k) = Id(s.key)
        BY <2>4, <3>1 DEF ResolvedIds
      <3>3. Covered(input) \subseteq Covered(FrontierOf(parent))
        <4>1. bundle'[g].frontier = Frontier(mode, input, FrontierOf(parent))
          BY <1>2, BundleParts
        <4> QED
          BY <2>1, <3>1, <4>1 DEF Frontier
      <3>4. PICK t \in OpenLate(Corrections(parent)) : Fingerprint(t.key) = Fingerprint(k)
        BY <2>1, <3>3, PinnedAccepted
      <3>5. Id(t.key) = Id(s.key)
        BY <3>2, <3>4 DEF Fingerprint, Id
      <3>6. t = s
        BY <3>4, <3>5, ParentAgrees DEF OpenLate
      <3>7. k \in new
        BY <3>1, <3>2 DEF NewlyCurated, new
      <3> QED
        BY <2>2, <2>4, <3>4, <3>6, <3>7
    <2>5. ASSUME NEW k \in Late(parent, mode, input), r.key = k,
                 r.status = IF mode = "REPLAY" THEN "RESOLVED" ELSE "OPEN"
          PROVE  Fingerprint(r.key) \in Fingerprints(bundle'[g].curated)
      <3>1. k \in new
        BY <1>9, <2>5, AcceptedInBatch DEF NewlyCurated, new
      <3> QED
        BY <2>2, <2>5, <3>1
    <2> QED
      BY <1>5, <1>6, <1>9, <2>3, <2>4, <2>5
  <1>10. ReplaysArePinned' => ReplaysArePinned
    BY PinnedStep
  <1> DEFINE Agrees(l, c) ==
               /\ \A r \in l : (r.status = "OPEN") <=> Id(r.key) \notin Ids(c)
               /\ \A r, q \in l : Id(r.key) = Id(q.key) => r = q
               /\ ReplaysArePinned' => \A r \in l : r.status = "RESOLVED" =>
                      Fingerprint(r.key) \in Fingerprints(c)
  <1>11. ASSUME NEW h \in Built'
         PROVE  Agrees(LateRows(bundle'[h].corrections), bundle'[h].curated)
    <2>1. CASE h = g
      BY <1>7, <1>8, <1>9, <1>11, <2>1 DEF late
    <2>2. CASE h # g
      <3>1. h \in Built /\ bundle'[h] = bundle[h]
        BY <1>1, <2>2
      <3> QED
        BY <3>1, <1>10 DEF CorrectionsAgree
    <2> QED
      BY <2>1, <2>2
  <1>12. \A k : Fingerprint(k)' = Fingerprint(k) /\ Id(k)' = Id(k)
    BY <1>1 DEF Fingerprint, Id, At
  <1> QED
    BY <1>11, <1>12 DEF CorrectionsAgree, LateRows, Ids, Fingerprints

(* With pinned replays, curated rows come from arrivals inside the frontier. *)
RowsInFrontier ==
    ReplaysArePinned =>
        \A g \in Built : Keys(bundle[g].curated) \subseteq
                            ContractValid(Covered(bundle[g].frontier))

LEMMA RowsStep ==
    ASSUME TypeOK, RowsInFrontier,
           NEW g \in Generation, NEW parent \in Built \cup {None},
           NEW mode \in Modes, NEW input \in SourceRanges, Build(g, parent, mode, input)
    PROVE  RowsInFrontier'
  <1>1. /\ log' = log
        /\ Built' \subseteq Built \cup {g}
        /\ \A h \in Built : bundle'[h] = bundle[h]
        /\ mode # "REPLAY" => Contiguous(input, FrontierOf(parent))
    BY BuildStep
  <1>2. PICK kept : bundle'[g] = NewBundle(g, parent, mode, input, kept)
    BY BuildStep
  <1> SUFFICES ASSUME ReplaysArePinned', NEW h \in Built', NEW r \in bundle'[h].curated
               PROVE  r.key \in ContractValid(Covered(bundle'[h].frontier))
    <2>1. \A k : At(k)' = At(k)
      BY <1>1 DEF At
    <2> QED
      BY <2>1 DEF RowsInFrontier, Keys, ContractValid
  <1>3. ReplaysArePinned /\ (g \in Built' => Covered(input) \subseteq Covered(bundle'[g].frontier))
    BY PinnedStep
  <1>4. CASE h # g
    BY <1>1, <1>3, <1>4 DEF RowsInFrontier, Keys
  <1>5. CASE h = g
    <2>1. Covered(FrontierOf(parent)) \subseteq Covered(bundle'[g].frontier)
      BY <1>1, <1>2, BundleParts, FrontierCovers
    <2>2. \/ r \in Curated(parent)
          \/ r.key \in NewlyCurated(parent, mode, input)
      BY <1>2, <1>5, BundleParts
    <2>3. CASE r \in Curated(parent)
      <3>1. parent \in Built /\ r \in bundle[parent].curated
            /\ FrontierOf(parent) = bundle[parent].frontier
        BY <2>3 DEF Curated, FrontierOf
      <3>2. r.key \in ContractValid(Covered(FrontierOf(parent)))
        BY <1>3, <3>1 DEF RowsInFrontier, Keys
      <3> QED
        BY <1>5, <2>1, <3>2 DEF ContractValid
    <2>4. CASE r.key \in NewlyCurated(parent, mode, input)
      BY <1>3, <1>5, <2>4, AcceptedInBatch DEF Batch, ContractValid
    <2> QED
      BY <2>2, <2>3, <2>4
  <1> QED
    BY <1>4, <1>5

LEMMA JustifiedStep ==
    ASSUME TypeOK, Conserved, CorrectionsAgree, RowsInFrontier, LateIsJustified,
           NEW g \in Generation, NEW parent \in Built \cup {None},
           NEW mode \in Modes, NEW input \in SourceRanges, Build(g, parent, mode, input)
    PROVE  LateIsJustified'
  <1>1. /\ log' = log
        /\ Built' \subseteq Built \cup {g}
        /\ \A h \in Built : bundle'[h] = bundle[h]
        /\ mode # "REPLAY" => Contiguous(input, FrontierOf(parent))
    BY BuildStep
  <1>2. PICK kept : bundle'[g] = NewBundle(g, parent, mode, input, kept)
    BY BuildStep
  <1> DEFINE Read(h, k) == {j \in ContractValid(Covered(bundle'[h].frontier)) :
                               j[1] = k[1] /\ j[2] < k[2]}
  <1> SUFFICES ASSUME ReplaysArePinned', NEW h \in Built',
                      NEW r \in LateRows(bundle'[h].corrections)
               PROVE  \E j \in Read(h, r.key) : BeyondBoundary(r.key, j)
    <2>1. \A k : At(k)' = At(k)
      BY <1>1 DEF At
    <2>2. \A j, k : BeyondBoundary(k, j)' = BeyondBoundary(k, j)
      BY <2>1 DEF BeyondBoundary, Time
    <2> QED
      BY <2>1, <2>2 DEF LateIsJustified, ReadBefore, LateRows, ContractValid
  <1>3. ReplaysArePinned /\ (g \in Built' => Covered(input) \subseteq Covered(bundle'[g].frontier))
    BY PinnedStep
  <1>4. CASE h # g
    <2>1. h \in Built /\ bundle'[h] = bundle[h]
      BY <1>1, <1>4
    <2> QED
      BY <1>3, <2>1 DEF LateIsJustified, ReadBefore
  <1>5. CASE h = g
    <2>1. Covered(FrontierOf(parent)) \subseteq Covered(bundle'[g].frontier)
      BY <1>1, <1>2, BundleParts, FrontierCovers
    <2>2. ASSUME NEW s \in LateRows(Corrections(parent)), r.key = s.key
          PROVE  \E j \in Read(h, r.key) : BeyondBoundary(r.key, j)
      <3>1. parent \in Built /\ s \in LateRows(bundle[parent].corrections)
            /\ FrontierOf(parent) = bundle[parent].frontier
        BY <2>2 DEF Corrections, FrontierOf, LateRows
      <3>2. PICK j \in ReadBefore(parent, s.key) : BeyondBoundary(s.key, j)
        BY <1>3, <3>1 DEF LateIsJustified
      <3>3. j \in Read(h, r.key)
        BY <1>5, <2>1, <2>2, <3>1, <3>2 DEF ReadBefore, ContractValid
      <3> QED
        BY <2>2, <3>2, <3>3
    <2>3. ASSUME NEW k \in Late(parent, mode, input), r.key = k,
                 Id(k) \notin Ids(Corrections(parent))
          PROVE  \E j \in Read(h, r.key) : BeyondBoundary(r.key, j)
      <3>1. k \in Accepted(parent, mode, input) /\ k \in Batch(input)
            /\ BeyondWatermark(k, Batch(input), Carried(parent, mode))
        BY AcceptedInBatch DEF Late
      <3>2. mode # "REPLAY"
        <4> SUFFICES ASSUME mode = "REPLAY" PROVE FALSE
          OBVIOUS
        <4>1. Covered(input) \subseteq Covered(FrontierOf(parent))
          <5>1. bundle'[g].frontier = Frontier(mode, input, FrontierOf(parent))
            BY <1>2, BundleParts
          <5> QED
            BY <1>3, <1>5, <5>1 DEF Frontier
        <4>2. PICK t \in OpenLate(Corrections(parent)) : Fingerprint(t.key) = Fingerprint(k)
          BY <1>3, <3>1, <4>1, PinnedAccepted
        <4>3. Id(t.key) = Id(k) /\ t \in Corrections(parent)
          BY <4>2 DEF Fingerprint, Id, OpenLate, LateRows
        <4> QED
          BY <2>3, <4>3 DEF Ids
      <3>3. CASE \E j \in Batch(input) : j[1] = k[1] /\ j[2] < k[2] /\ BeyondBoundary(k, j)
        BY <1>3, <1>5, <2>3, <3>3 DEF Batch, ContractValid
      <3>4. CASE \E c \in Carried(parent, mode) : c[1] = k[1] /\ BeyondBoundary(k, c)
        <4>1. PICK c \in Carried(parent, mode) : c[1] = k[1] /\ BeyondBoundary(k, c)
          BY <3>4
        <4>2. PICK q \in Curated(parent) : c = q.key
          BY <4>1 DEF Carried, Keys
        <4>3. parent \in Built /\ q \in bundle[parent].curated
              /\ FrontierOf(parent) = bundle[parent].frontier
          BY <4>2 DEF Curated, FrontierOf
        <4>4. c \in ContractValid(Covered(FrontierOf(parent)))
          BY <1>3, <4>2, <4>3 DEF RowsInFrontier, Keys
        <4>5. c \in Covered(FrontierOf(parent)) /\ k \in Covered(input)
          BY <3>1, <4>4 DEF ContractValid, Batch
        <4>6. /\ log \in [Partition -> Seq(Payload)] /\ RangesOK(input)
              /\ RangesOK(FrontierOf(parent)) /\ Contiguous(input, FrontierOf(parent))
          BY <1>1, <3>2, InputType, ParentType DEF TypeOK
        <4>7. c[2] < k[2]
          BY <3>2, <4>1, <4>5, <4>6, FrontierTiles
        <4>8. c \in Read(h, k)
          BY <1>5, <2>1, <4>1, <4>4, <4>7 DEF ContractValid
        <4> QED
          BY <2>3, <4>1, <4>8
      <3> QED
        BY <3>1, <3>3, <3>4 DEF BeyondWatermark
    <2> HIDE DEF Read
    <2>4. r \in LateRows(NewBundle(g, parent, mode, input, kept).corrections)
      BY <1>2, <1>5
    <2> QED
      BY <2>2, <2>3, <2>4, LateRowsOf
  <1> QED
    BY <1>4, <1>5

-----------------------------------------------------------------------------
(* The inductive invariant: what the runs check, and RowsInFrontier, which    *)
(* ties the carried watermark to the log.                                     *)
IInv ==
    /\ TypeOK
    /\ OneRowPerIdentity
    /\ FrontierIsTiled
    /\ Conserved
    /\ CorrectionsAgree
    /\ RowsInFrontier
    /\ LateIsJustified

LEMMA InitInv == Init => IInv
  <1> SUFFICES ASSUME Init PROVE IInv
    OBVIOUS
  <1>1. log \in [Partition -> Seq(Payload)] /\ DOMAIN bundle = Generation
    BY LogsAssumption DEF Init
  <1>2. Built = {}
    BY DEF Init, Built
  <1> QED
    BY <1>1, <1>2 DEF IInv, TypeOK, OneRowPerIdentity, FrontierIsTiled, Conserved,
                      CorrectionsAgree, RowsInFrontier, LateIsJustified

LEMMA NextInv == IInv /\ [Next]_vars => IInv'
  <1> SUFFICES ASSUME IInv, [Next]_vars PROVE IInv'
    OBVIOUS
  <1>1. ASSUME NEW g \in Generation, NEW parent \in Built \cup {None}, NEW mode \in Modes,
               NEW input \in SourceRanges, Build(g, parent, mode, input)
        PROVE  IInv'
    <2>1. /\ TypeOK /\ OneRowPerIdentity /\ FrontierIsTiled /\ Conserved
          /\ CorrectionsAgree /\ RowsInFrontier /\ LateIsJustified
      BY DEF IInv
    <2>2. TypeOK'
      BY <1>1, <2>1, TypeStep
    <2>3. OneRowPerIdentity'
      BY <1>1, <2>1, OneRowStep
    <2>4. FrontierIsTiled'
      BY <1>1, <2>1, TiledStep
    <2>5. Conserved'
      BY <1>1, <2>1, ConservedStep
    <2>6. CorrectionsAgree'
      BY <1>1, <2>1, AgreeStep
    <2>7. RowsInFrontier'
      BY <1>1, <2>1, RowsStep
    <2>8. LateIsJustified'
      BY <1>1, <2>1, JustifiedStep
    <2> QED
      BY <2>2, <2>3, <2>4, <2>5, <2>6, <2>7, <2>8 DEF IInv
  <1>2. CASE UNCHANGED vars
    <2>1. log' = log /\ bundle' = bundle
      BY <1>2 DEF vars
    <2>2. TypeOK'
      BY <2>1 DEF IInv, TypeOK, Built, RangesOK, Spans, CuratedRow, CorrectionRow, Arrivals
    <2>3. OneRowPerIdentity'
      BY <2>1 DEF IInv, OneRowPerIdentity, Built, Id, At
    <2>4. FrontierIsTiled'
      BY <2>1 DEF IInv, FrontierIsTiled, Built, FrontierOf
    <2> DEFINE arrived(g) == {Fingerprint(k) : k \in ContractValid(Covered(bundle[g].frontier))}
               kept(g) == Fingerprints(bundle[g].curated) \cup Fingerprints(bundle[g].corrections)
    <2>5. /\ Built' = Built /\ ReplaysArePinned' = ReplaysArePinned
          /\ \A rows : Fingerprints(rows)' = Fingerprints(rows) /\ Ids(rows)' = Ids(rows)
          /\ \A k : Fingerprint(k)' = Fingerprint(k) /\ Id(k)' = Id(k)
          /\ \A keys : ContractValid(keys)' = ContractValid(keys)
      BY <2>1 DEF Built, ReplaysArePinned, Fingerprints, Fingerprint, Ids, Id, ContractValid, At
    <2>6. Conserved' /\ RowsInFrontier' /\ CorrectionsAgree'
      <3>1. \A g : arrived(g)' = arrived(g) /\ kept(g)' = kept(g)
        BY <2>1, <2>5
      <3>2. Conserved'
        BY <2>5, <3>1 DEF IInv, Conserved
      <3>3. RowsInFrontier'
        BY <2>1, <2>5 DEF IInv, RowsInFrontier, Keys
      <3>4. CorrectionsAgree'
        BY <2>1, <2>5 DEF IInv, CorrectionsAgree, LateRows
      <3> QED
        BY <3>2, <3>3, <3>4
    <2>7. LateIsJustified'
      BY <2>1 DEF IInv, LateIsJustified, ReplaysArePinned, Built, LateRows, ReadBefore,
                  ContractValid, BeyondBoundary, Time, At
    <2> QED
      BY <2>2, <2>3, <2>4, <2>5, <2>6, <2>7 DEF IInv
  <1> QED
    BY <1>1, <1>2 DEF Next

(* In every tree of generations, whatever ranges they were built from: an
   identity has one curated row, and the frontier is tiled by LIVE inputs.
   (generation_builder.py, identity gates; branching.py, advance_frontier) *)
THEOREM GatesAndFrontier == Spec => [](TypeOK /\ OneRowPerIdentity /\ FrontierIsTiled)
  <1>1. IInv => TypeOK /\ OneRowPerIdentity /\ FrontierIsTiled
    BY DEF IInv
  <1> QED
    BY InitInv, NextInv, <1>1, PTL DEF Spec

(* An event_id has at most one curated row in any bundle
   (identity_gate_batch, identity_gate_against_parent). *)
THEOREM IdentitiesStaySingle == Spec => []OneRowPerIdentity
  BY GatesAndFrontier, PTL

(* A frontier is tiled by the LIVE inputs of its chain of parents
   (validate_incremental_offsets, advance_frontier). *)
THEOREM FrontiersAreTiled == Spec => []FrontierIsTiled
  BY GatesAndFrontier, PTL

(* No contract-valid arrival inside a frontier is lost, however the log was
   cut into runs, and with pinned replays nothing else is known. *)
THEOREM NothingIsLost == Spec => []Conserved
  <1>1. IInv => Conserved
    BY DEF IInv
  <1> QED
    BY InitInv, NextInv, <1>1, PTL DEF Spec

(* Late events are OPEN until they are curated, have one late row, and, with
   pinned replays, are resolved with their own payload. *)
THEOREM CorrectionsAreCurated == Spec => []CorrectionsAgree
  <1>1. IInv => CorrectionsAgree
    BY DEF IInv
  <1> QED
    BY InitInv, NextInv, <1>1, PTL DEF Spec

(* With pinned replays no event is called late without an earlier event of
   its partition that is more than the watermark ahead of it. *)
THEOREM NoFalseAlarm == Spec => []LateIsJustified
  <1>1. IInv => LateIsJustified
    BY DEF IInv
  <1> QED
    BY InitInv, NextInv, <1>1, PTL DEF Spec
=============================================================================
