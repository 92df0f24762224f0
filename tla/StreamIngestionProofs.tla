------------------------- MODULE StreamIngestionProofs -------------------------
(***************************************************************************)
(* Proofs about StreamIngestion, for any topic, any documents and any      *)
(* number of crashes: the gate decides every document, the tables are what *)
(* the checkpoint says, and the stream implements BronzeCapture.           *)
(***************************************************************************)
EXTENDS StreamIngestion, TLAPS

(* What makes the two appends safe to repeat: quarantine holds refused records
   only, and a batch that has passed an append is in that append's table. *)
AppendsHold ==
    /\ KeysOf(quarantine) = ToQuarantine(KeysOf(quarantine))
    /\ query \in {"quarantine", "commit"} => ToBronze(Batch) \subseteq KeysOf(bronze)
    /\ query = "commit" => ToQuarantine(Batch) \subseteq KeysOf(quarantine)

IInv == TypeOK /\ RoutedOnce /\ AppendsHold

-----------------------------------------------------------------------------
(* The gate. *)

LEMMA ColumnVerdicts ==
    ASSUME NEW r \in Record, NEW f \in Field
    PROVE  /\ IsNull(r, f) = Holds(Column(r, f) = "null")
           /\ Violates(r, f) = IF Column(r, f) = "null" THEN "null"
                               ELSE Holds(Column(r, f) # "conforming")
           /\ zoned \in BOOLEAN => (WellFormed(r, f) <=> Column(r, f) = "conforming")
  <1>1. r.field[f] \in IF f \in TimeField THEN TimeContents ELSE Contents
    BY DEF Record
  <1>2. CASE f \in TimeField
    BY <1>1, <1>2 DEF IsNull, Violates, WellFormed, Column, TimeContents
  <1>3. CASE f \notin TimeField
    BY <1>1, <1>3 DEF IsNull, Violates, WellFormed, Column, Contents
  <1> QED
    BY <1>2, <1>3

LEMMA GateMeaning ==
    ASSUME zoned \in BOOLEAN
    PROVE  GateDecides
  <1> SUFFICES ASSUME NEW r \in Record
               PROVE  ContractInvalid(r) =
                        Holds(~(r.map = "known" /\ \A f \in Field : WellFormed(r, f)))
    BY DEF GateDecides
  <1> DEFINE V == {IsNull(r, f) : f \in Field}
                    \cup {Holds(r.map = "null"), Holds(r.map = "unknown")}
                    \cup {Violates(r, f) : f \in Field}
  <1>1. ContractInvalid(r) = AnyOf(V)
    BY DEF ContractInvalid
  <1>2. r.map \in {"null", "known", "unknown"}
    BY DEF Record
  <1>3. CASE r.map = "known" /\ \A f \in Field : WellFormed(r, f)
    <2>1. \A f \in Field : IsNull(r, f) = "false" /\ Violates(r, f) = "false"
      BY <1>3, ColumnVerdicts DEF Holds
    <2>2. "true" \notin V /\ "null" \notin V
      BY <1>3, <2>1 DEF Holds
    <2> QED
      BY <1>1, <1>3, <2>2 DEF AnyOf, Holds
  <1>4. CASE ~(r.map = "known" /\ \A f \in Field : WellFormed(r, f))
    <2>1. "true" \in V
      <3>1. CASE r.map # "known"
        BY <1>2, <3>1 DEF Holds
      <3>2. CASE \E f \in Field : ~WellFormed(r, f)
        <4>1. PICK f \in Field : ~WellFormed(r, f)
          BY <3>2
        <4>2. IsNull(r, f) = "true" \/ Violates(r, f) = "true"
          BY <4>1, ColumnVerdicts DEF Holds
        <4> QED
          BY <4>2
      <3> QED
        BY <1>4, <3>1, <3>2
    <2> QED
      BY <1>1, <1>4, <2>1 DEF AnyOf, Holds
  <1> QED
    BY <1>3, <1>4

(* No document falls between the two WHERE clauses of write_microbatch. *)
LEMMA TwoVerdicts ==
    ASSUME zoned \in BOOLEAN, NEW r \in Record
    PROVE  ContractInvalid(r) \in {"true", "false"}
  BY GateMeaning DEF GateDecides, Holds

-----------------------------------------------------------------------------
(* Types and the shape of the checkpoint. *)

LEMMA EndsAreOffsets ==
    ASSUME topic \in [Partition -> Seq(Records)]
    PROVE  Ends \in Offsets /\ \A p \in Partition : Ends[p] = Len(topic[p])
  BY DEF Ends, Offsets

(* A topic only grows. *)
LEMMA TopicGrows ==
    ASSUME topic \in [Partition -> Seq(Records)], [Next]_vars
    PROVE  /\ topic' \in [Partition -> Seq(Records)]
           /\ \A p \in Partition :
                 /\ Len(topic[p]) \in Nat /\ Len(topic'[p]) \in Nat
                 /\ Len(topic[p]) =< Len(topic'[p])
                 /\ \A i \in 1 .. Len(topic[p]) : topic'[p][i] = topic[p][i]
  <1>1. CASE \E q \in Partition : \E r \in Records : Produce(q, r)
    <2>1. PICK q \in Partition, r \in Records :
             topic' = [topic EXCEPT ![q] = Append(topic[q], r)]
      BY <1>1 DEF Produce
    <2>2. /\ topic[q] \in Seq(Records)
          /\ Append(topic[q], r) \in Seq(Records)
          /\ Len(Append(topic[q], r)) = Len(topic[q]) + 1
          /\ \A i \in 1 .. Len(topic[q]) : Append(topic[q], r)[i] = topic[q][i]
      OBVIOUS
    <2>3. \A p \in Partition : topic'[p] = IF p = q THEN Append(topic[q], r) ELSE topic[p]
      BY <2>1
    <2> QED
      BY <2>1, <2>2, <2>3
  <1>2. CASE topic' = topic
    BY <1>2
  <1> QED
    BY <1>1, <1>2 DEF Next, vars, Expire, Start, Crash, Trigger, PlanBatch, AppendBronze,
                      AppendQuarantine, CommitBatch, DataLoss

(* The offsets of a started stream, and what they bound. *)
Ordered(l) ==
    /\ {start, planned, committed} \subseteq Offsets
    /\ \A p \in Partition :
          /\ start[p] =< committed[p]
          /\ committed[p] =< planned[p]
          /\ planned[p] =< Len(l[p])

LEMMA KeysMember ==
    ASSUME NEW first, NEW next, NEW k
    PROVE  k \in Keys(first, next) <=>
              \E p \in Partition : \E o \in first[p] .. (next[p] - 1) : k = <<p, o>>
  BY DEF Keys

LEMMA KeysType ==
    ASSUME NEW first \in Offsets, NEW next \in Offsets
    PROVE  Keys(first, next) \subseteq Partition \X Nat
  <1> SUFFICES ASSUME NEW p \in Partition, NEW o \in first[p] .. (next[p] - 1)
               PROVE  <<p, o>> \in Partition \X Nat
    BY KeysMember
  <1>1. first[p] \in Nat /\ next[p] \in Nat
    BY DEF Offsets
  <1> QED
    BY <1>1

(* Consecutive ranges. *)
LEMMA KeysSplit ==
    ASSUME NEW a \in Offsets, NEW b \in Offsets, NEW c \in Offsets,
           \A p \in Partition : a[p] =< b[p] /\ b[p] =< c[p]
    PROVE  /\ Keys(a, c) = Keys(a, b) \cup Keys(b, c)
           /\ Keys(a, b) \cap Keys(b, c) = {}
  <1>1. \A p \in Partition : a[p] \in Nat /\ b[p] \in Nat /\ c[p] \in Nat
    BY DEF Offsets
  <1>2. \A p \in Partition :
           /\ a[p] .. (c[p] - 1) = (a[p] .. (b[p] - 1)) \cup (b[p] .. (c[p] - 1))
           /\ (a[p] .. (b[p] - 1)) \cap (b[p] .. (c[p] - 1)) = {}
    BY <1>1
  <1>3. Keys(a, c) \subseteq Keys(a, b) \cup Keys(b, c)
    BY <1>2, KeysMember
  <1>4. Keys(a, b) \cup Keys(b, c) \subseteq Keys(a, c)
    BY <1>2, KeysMember
  <1>5. ASSUME NEW k \in Keys(a, b), k \in Keys(b, c) PROVE FALSE
    <2>1. PICK p \in Partition : \E o \in a[p] .. (b[p] - 1) : k = <<p, o>>
      BY KeysMember
    <2>2. PICK q \in Partition : \E o \in b[q] .. (c[q] - 1) : k = <<q, o>>
      BY <1>5, KeysMember
    <2> QED
      BY <1>2, <2>1, <2>2
  <1> QED
    BY <1>3, <1>4, <1>5

LEMMA TypeStep ==
    ASSUME TypeOK, [Next]_vars
    PROVE  TypeOK'
  <1> DEFINE Started == start # None => Ordered(topic)
  <1>1. /\ topic' \in [Partition -> Seq(Records)]
        /\ \A p \in Partition : Len(topic[p]) \in Nat /\ Len(topic'[p]) \in Nat
                                /\ Len(topic[p]) =< Len(topic'[p])
    BY TopicGrows DEF TypeOK
  <1>2. Ends \in Offsets /\ \A p \in Partition : Ends[p] = Len(topic[p])
    BY EndsAreOffsets DEF TypeOK
  <1>3. Started /\ retained \in Offsets /\ zoned \in BOOLEAN /\ attempt \in 0 .. MaxAttempts
    BY DEF TypeOK, Ordered
  <1>4. CASE UNCHANGED vars
    BY <1>4 DEF vars, checkpoint, TypeOK
  <1>5. CASE \E p \in Partition : \E r \in Records : Produce(p, r)
    <2>1. UNCHANGED <<retained, zoned, start, planned, committed, bronze, quarantine, query, attempt>>
      BY <1>5 DEF Produce, checkpoint
    <2>2. start # None => Ordered(topic')
      <3> SUFFICES ASSUME start # None PROVE Ordered(topic')
        OBVIOUS
      <3>1. Ordered(topic)
        BY <1>3
      <3>2. \A p \in Partition : planned[p] \in Nat
        BY <3>1 DEF Ordered, Offsets
      <3> QED
        BY <1>1, <3>1, <3>2 DEF Ordered
    <2> QED
      BY <1>1, <2>1, <2>2 DEF TypeOK, Ordered
  <1>6. CASE \E p \in Partition : Expire(p)
    <2>1. PICK p \in Partition : Expire(p)
      BY <1>6
    <2>2. retained' \in Offsets
      BY <1>3, <2>1 DEF Expire, Offsets
    <2> QED
      BY <2>1, <2>2 DEF Expire, checkpoint, TypeOK
  <1>7. CASE Start
    <2>1. attempt' \in 0 .. MaxAttempts
      BY <1>3, <1>7, BoundAssumption DEF Start
    <2>2. CASE start = None
      <3>1. start' = Ends /\ planned' = Ends /\ committed' = Ends /\ query' = "idle"
        BY <1>7, <2>2 DEF Start
      <3>2. Ends # None
        BY <1>2, StreamNoneAssumption
      <3>3. \A p \in Partition : Ends[p] =< Ends[p] /\ Ends[p] =< Len(topic[p])
        BY <1>1, <1>2
      <3> QED
        BY <1>2, <1>7, <2>1, <3>1, <3>2, <3>3 DEF Start, TypeOK
    <2>3. CASE start # None
      <3>1. UNCHANGED <<start, planned, committed>> /\ query' = Resumed
        BY <1>7, <2>3 DEF Start, checkpoint
      <3> QED
        BY <1>7, <2>1, <2>3, <3>1 DEF Start, Resumed, TypeOK
    <2> QED
      BY <2>2, <2>3
  <1>8. CASE Crash \/ DataLoss
    BY <1>8 DEF Crash, DataLoss, checkpoint, TypeOK
  <1>9. CASE PlanBatch
    <2>1. \A p \in Partition : committed[p] =< Ends[p] /\ Ends[p] =< Len(topic[p])
      <3>1. Ordered(topic)
        BY <1>3, <1>9 DEF PlanBatch, TypeOK
      <3> QED
        BY <1>1, <1>2, <3>1 DEF Ordered, Offsets
    <2> QED
      BY <1>2, <1>9, <2>1 DEF PlanBatch, TypeOK
  <1>10. CASE AppendBronze \/ AppendQuarantine
    <2>1. Batch \subseteq Partition \X Nat
      <3>1. start # None
        BY <1>10 DEF AppendBronze, AppendQuarantine, TypeOK
      <3>2. committed \in Offsets /\ planned \in Offsets
        BY <1>3, <3>1 DEF Ordered
      <3> QED
        BY <3>2, KeysType DEF Batch
    <2>2. Rows(ToBronze(StillThere)) \subseteq TableRows
          /\ Rows(ToQuarantine(StillThere)) \subseteq TableRows
      BY <1>3, <2>1, BoundAssumption DEF Rows, ToBronze, ToQuarantine, StillThere, TableRows
    <2>3. CASE AppendBronze
      BY <2>2, <2>3 DEF AppendBronze, checkpoint, TypeOK
    <2>4. CASE AppendQuarantine
      BY <2>2, <2>4 DEF AppendQuarantine, checkpoint, TypeOK
    <2> QED
      BY <1>10, <2>3, <2>4
  <1>11. CASE CommitBatch
    <2>1. Ordered(topic)
      BY <1>3, <1>11 DEF CommitBatch, TypeOK
    <2>2. \A p \in Partition : start[p] =< planned[p] /\ planned[p] =< planned[p]
      BY <2>1 DEF Ordered, Offsets
    <2> QED
      BY <1>11, <2>1, <2>2 DEF CommitBatch, Ordered, TypeOK
  <1> QED
    BY <1>4, <1>5, <1>6, <1>7, <1>8, <1>9, <1>10, <1>11 DEF Next, Trigger

LEMMA TypeInit ==
    ASSUME Init
    PROVE  TypeOK
  <1>1. topic \in [Partition -> Seq(Records)] /\ retained \in Offsets
    BY DEF Init, Offsets
  <1>2. zoned \in BOOLEAN
    BY TextsAssumption DEF Init
  <1> QED
    BY <1>1, <1>2, BoundAssumption DEF Init, TypeOK

(* The checkpoint keeps its shape: offsets stay ordered, and a batch is only
   open while it is planned and not committed. *)
THEOREM CheckpointTyped == Spec => []TypeOK
  <1>1. Init => TypeOK
    BY TypeInit
  <1>2. TypeOK /\ [Next]_vars => TypeOK'
    BY TypeStep
  <1> QED
    BY <1>1, <1>2, PTL DEF Spec

(* The gate answers true or false for every document, and as the contract
   reads (transforms.py, gateway_contract_invalid). *)
THEOREM GateDecidesEveryDocument == Spec => []GateDecides
  <1>1. TypeOK => GateDecides
    BY GateMeaning DEF TypeOK
  <1> QED
    BY <1>1, CheckpointTyped, PTL
-----------------------------------------------------------------------------
(* Where records are routed. *)

Verdict(k) == ContractInvalid(At(k))

(* A planned record is there, and its verdict is one of two and stays. *)
LEMMA VerdictStays ==
    ASSUME TypeOK, start # None, NEW k \in Keys(start, planned)
    PROVE  /\ k \in Partition \X Nat /\ At(k) \in Records
           /\ Verdict(k) \in {"true", "false"}
           /\ [Next]_vars => At(k)' = At(k) /\ Verdict(k)' = Verdict(k)
  <1>1. Ordered(topic)
    BY DEF TypeOK, Ordered
  <1>2. PICK p \in Partition, o \in Int :
           k = <<p, o>> /\ o \in start[p] .. (planned[p] - 1)
    BY <1>1, KeysMember DEF Ordered, Offsets
  <1>3. /\ topic[p] \in Seq(Records) /\ Len(topic[p]) \in Nat
        /\ start[p] \in Nat /\ planned[p] \in Nat /\ planned[p] =< Len(topic[p])
    BY <1>1 DEF Ordered, Offsets, TypeOK
  <1>4. o \in Nat /\ o + 1 \in 1 .. Len(topic[p])
    BY <1>2, <1>3
  <1>5. At(k) = topic[p][o + 1] /\ At(k)' = topic'[p][o + 1]
    BY <1>2 DEF At
  <1>6. At(k) \in Records
    BY <1>3, <1>4, <1>5
  <1>7. Verdict(k) \in {"true", "false"}
    BY <1>6, TwoVerdicts, RecordsAssumption DEF Verdict, TypeOK
  <1>8. ASSUME [Next]_vars PROVE At(k)' = At(k) /\ Verdict(k)' = Verdict(k)
    <2>1. topic'[p][o + 1] = topic[p][o + 1]
      BY <1>4, <1>8, TopicGrows DEF TypeOK
    <2>2. zoned' = zoned
      BY <1>8 DEF Next, vars, Produce, Expire, Start, Crash, Trigger, PlanBatch,
                  AppendBronze, AppendQuarantine, CommitBatch, DataLoss
    <2>3. At(k)' = At(k)
      BY <1>5, <2>1
    <2> QED
      BY <2>2, <2>3 DEF Verdict, ContractInvalid, AnyOf, IsNull, Violates, Column
  <1> QED
    BY <1>2, <1>4, <1>6, <1>7, <1>8

(* The ranges of a started stream. *)
LEMMA StartedRanges ==
    ASSUME TypeOK, start # None
    PROVE  /\ Keys(start, planned) = Keys(start, committed) \cup Batch
           /\ Keys(start, committed) \cap Batch = {}
           /\ start \in Offsets /\ planned \in Offsets /\ committed \in Offsets
  <1>1. Ordered(topic)
    BY DEF TypeOK, Ordered
  <1> QED
    BY <1>1, KeysSplit DEF Ordered, Batch

(* What the invariant says of a started stream, record by record. *)
Routing ==
    /\ Keys(start, committed) \subseteq KeysOf(bronze) \cup KeysOf(quarantine)
    /\ KeysOf(bronze) \cup KeysOf(quarantine) \subseteq Keys(start, planned)
    /\ \A k \in KeysOf(bronze) : Verdict(k) = "false"
    /\ \A k \in KeysOf(quarantine) : Verdict(k) = "true"
    /\ query \in {"quarantine", "commit"} =>
          \A k \in Batch : Verdict(k) = "false" => k \in KeysOf(bronze)
    /\ query = "commit" =>
          \A k \in Batch : Verdict(k) = "true" => k \in KeysOf(quarantine)

RoutedWell ==
    IF start = None THEN bronze = {} /\ quarantine = {} /\ AppendsHold ELSE Routing

LEMMA RoutingMeaning == (RoutedOnce /\ AppendsHold) <=> RoutedWell
  <1>1. /\ ToBronze(KeysOf(bronze)) = {k \in KeysOf(bronze) : Verdict(k) = "false"}
        /\ ToQuarantine(KeysOf(quarantine)) =
              {k \in KeysOf(quarantine) : Verdict(k) = "true"}
        /\ ToBronze(Batch) = {k \in Batch : Verdict(k) = "false"}
        /\ ToQuarantine(Batch) = {k \in Batch : Verdict(k) = "true"}
    BY DEF ToBronze, ToQuarantine, Verdict
  <1>2. CASE start = None
    <2>1. bronze = {} /\ quarantine = {} => KeysOf(bronze) = {} /\ KeysOf(quarantine) = {}
      BY DEF KeysOf
    <2> QED
      BY <1>2, <2>1 DEF RoutedOnce, RoutedWell
  <1>3. CASE start # None
    <2>1. RoutedOnce /\ AppendsHold => Routing
      BY <1>1, <1>3 DEF RoutedOnce, AppendsHold, Routing
    <2>2. Routing => RoutedOnce /\ AppendsHold
      BY <1>1, <1>3 DEF RoutedOnce, AppendsHold, Routing
    <2> QED
      BY <1>3, <2>1, <2>2 DEF RoutedWell
  <1> QED
    BY <1>2, <1>3
(* A batch that can be read is read whole. *)
LEMMA AppendedKeys ==
    ASSUME Readable, NEW K \in SUBSET Batch
    PROVE  /\ StillThere = Batch
           /\ KeysOf(Rows(K)) = K
           /\ \A rows : KeysOf(rows \cup Rows(K)) = KeysOf(rows) \cup K
  <1>1. StillThere = Batch
    BY DEF Readable, StillThere
  <1>2. ASSUME NEW k PROVE (\E r \in Rows(K) : r.key = k) <=> k \in K
    <2>1. ASSUME k \in K PROVE \E r \in Rows(K) : r.key = k
      <3>1. [key |-> k, by |-> attempt] \in Rows(K)
        BY <2>1 DEF Rows
      <3> QED
        BY <3>1
    <2>2. ASSUME NEW r \in Rows(K), r.key = k PROVE k \in K
      BY <2>2 DEF Rows
    <2> QED
      BY <2>1, <2>2
  <1> QED
    BY <1>1, <1>2 DEF KeysOf

LEMMA RoutingStep ==
    ASSUME TypeOK, start # None, Routing, [Next]_vars
    PROVE  start' = start /\ Routing'
  <1>1. start' = start
    BY DEF Next, vars, checkpoint, Produce, Expire, Start, Crash, Trigger, PlanBatch,
           AppendBronze, AppendQuarantine, CommitBatch, DataLoss
  <1> DEFINE NewRouting ==
        /\ Keys(start, committed') \subseteq KeysOf(bronze') \cup KeysOf(quarantine')
        /\ KeysOf(bronze') \cup KeysOf(quarantine') \subseteq Keys(start, planned')
        /\ \A k \in KeysOf(bronze') : Verdict(k)' = "false"
        /\ \A k \in KeysOf(quarantine') : Verdict(k)' = "true"
        /\ query' \in {"quarantine", "commit"} =>
              \A k \in Keys(committed', planned') : Verdict(k)' = "false" => k \in KeysOf(bronze')
        /\ query' = "commit" =>
              \A k \in Keys(committed', planned') : Verdict(k)' = "true" => k \in KeysOf(quarantine')
  <1>2. SUFFICES NewRouting
    BY <1>1 DEF Routing, Keys, KeysOf, Batch
  <1>3. \A k \in Keys(start, planned) :
           Verdict(k)' = Verdict(k) /\ Verdict(k) \in {"true", "false"}
    BY VerdictStays
  <1>4. /\ Keys(start, planned) = Keys(start, committed) \cup Batch
        /\ Keys(start, committed) \cap Batch = {}
    BY StartedRanges
  <1>5. Batch = Keys(committed, planned)
    BY DEF Batch
  <1>6. CASE /\ UNCHANGED <<bronze, quarantine, committed, planned>>
             /\ query' \in {"quarantine", "commit"} => query' = query
    BY <1>3, <1>4, <1>5, <1>6 DEF Routing
  <1>7. CASE PlanBatch
    <2>1. /\ UNCHANGED <<bronze, quarantine, committed>>
          /\ planned' = Ends /\ query' = "bronze"
      BY <1>7 DEF PlanBatch
    <2>2. Keys(start, planned) \subseteq Keys(start, Ends)
      <3>1. Ordered(topic) /\ topic \in [Partition -> Seq(Records)]
        BY DEF TypeOK, Ordered
      <3>2. /\ Ends \in Offsets /\ start \in Offsets /\ planned \in Offsets
            /\ \A p \in Partition : start[p] =< planned[p] /\ planned[p] =< Ends[p]
        BY <3>1, EndsAreOffsets DEF Ordered, Offsets
      <3> QED
        BY <3>2, KeysSplit
    <2> QED
      BY <1>3, <2>1, <2>2 DEF Routing
  <1>8. CASE AppendBronze
    <2>1. /\ UNCHANGED <<quarantine, committed, planned>> /\ query' = "quarantine"
          /\ bronze' = bronze \cup Rows(ToBronze(StillThere)) /\ Readable
      BY <1>8 DEF AppendBronze, checkpoint
    <2>2. ToBronze(Batch) \in SUBSET Batch
          /\ \A k : k \in ToBronze(Batch) <=> k \in Batch /\ Verdict(k) = "false"
      BY DEF ToBronze, Verdict
    <2>3. KeysOf(bronze') = KeysOf(bronze) \cup ToBronze(Batch)
      BY <2>1, <2>2, AppendedKeys
    <2>4. \A k \in KeysOf(bronze') : k \in Keys(start, planned) /\ Verdict(k) = "false"
      BY <1>4, <2>2, <2>3 DEF Routing
    <2> QED
      BY <1>3, <1>4, <1>5, <2>1, <2>2, <2>3, <2>4 DEF Routing
  <1>9. CASE AppendQuarantine
    <2>1. /\ UNCHANGED <<bronze, committed, planned>> /\ query' = "commit"
          /\ query = "quarantine"
          /\ quarantine' = quarantine \cup Rows(ToQuarantine(StillThere)) /\ Readable
      BY <1>9 DEF AppendQuarantine, checkpoint
    <2>2. ToQuarantine(Batch) \in SUBSET Batch
          /\ \A k : k \in ToQuarantine(Batch) <=> k \in Batch /\ Verdict(k) = "true"
      BY DEF ToQuarantine, Verdict
    <2>3. KeysOf(quarantine') = KeysOf(quarantine) \cup ToQuarantine(Batch)
      BY <2>1, <2>2, AppendedKeys
    <2>4. \A k \in KeysOf(quarantine') : k \in Keys(start, planned) /\ Verdict(k) = "true"
      BY <1>4, <2>2, <2>3 DEF Routing
    <2> QED
      BY <1>3, <1>4, <1>5, <2>1, <2>2, <2>3, <2>4 DEF Routing
  <1>10. CASE CommitBatch
    <2>1. /\ UNCHANGED <<bronze, quarantine, planned>> /\ query' = "idle"
          /\ committed' = planned /\ query = "commit"
      BY <1>10 DEF CommitBatch
    <2>2. Keys(start, planned) \subseteq KeysOf(bronze) \cup KeysOf(quarantine)
      BY <1>3, <1>4, <2>1 DEF Routing
    <2> QED
      BY <1>3, <2>1, <2>2 DEF Routing
  <1>11. (\E p \in Partition : Expire(p) \/ \E r \in Records : Produce(p, r)) \/ Start
            \/ Crash \/ DataLoss \/ UNCHANGED vars =>
            /\ UNCHANGED <<bronze, quarantine, committed, planned>>
            /\ query' \in {"quarantine", "commit"} => query' = query
    BY DEF Expire, Produce, Start, Resumed, Crash, DataLoss, vars, checkpoint
  <1> QED
    BY <1>1, <1>6, <1>7, <1>8, <1>9, <1>10, <1>11 DEF Next, Trigger
LEMMA RoutedInit ==
    ASSUME Init
    PROVE  RoutedWell
  BY DEF Init, RoutedWell, AppendsHold, KeysOf, ToQuarantine

LEMMA RoutedStep ==
    ASSUME TypeOK, RoutedWell, [Next]_vars
    PROVE  RoutedWell'
  <1>1. CASE start # None
    BY <1>1, RoutingStep DEF RoutedWell
  <1>2. CASE start = None
    <2>1. query = "down" /\ bronze = {} /\ quarantine = {}
      BY <1>2 DEF TypeOK, RoutedWell
    <2>2. /\ bronze' = {} /\ quarantine' = {}
          /\ \/ start' = None /\ query' = "down"
             \/ start' # None /\ query' = "idle" /\ committed' = start'
      <3>1. CASE Start
        <4>1. Ends # None
          BY EndsAreOffsets, StreamNoneAssumption DEF TypeOK
        <4> QED
          BY <1>2, <2>1, <3>1, <4>1 DEF Start
      <3> QED
        BY <1>2, <2>1, <3>1 DEF Next, vars, checkpoint, Produce, Expire, Crash, Trigger,
           PlanBatch, AppendBronze, AppendQuarantine, CommitBatch, DataLoss
    <2>3. (KeysOf(bronze) = {} /\ KeysOf(quarantine) = {})'
      BY <2>2 DEF KeysOf
    <2>4. CASE start' = None
      BY <2>2, <2>3, <2>4 DEF RoutedWell, AppendsHold, ToQuarantine
    <2>5. CASE start' # None
      <3>1. start' \in Offsets
        BY <2>5, TypeStep DEF TypeOK
      <3>2. \A p \in Partition : start'[p] .. (start'[p] - 1) = {}
        BY <3>1 DEF Offsets
      <3>3. Keys(start, committed)' = {}
        BY <2>2, <2>5, <3>2 DEF Keys
      <3> QED
        BY <2>2, <2>3, <2>5, <3>3 DEF RoutedWell, Routing
    <2> QED
      BY <2>4, <2>5
  <1> QED
    BY <1>1, <1>2

(* Below the committed offsets every record is in the one table its verdict
   names, whatever crashed between the two appends of write_microbatch. *)
THEOREM RecordsRoutedOnce == Spec => []RoutedOnce
  <1>1. Init => RoutedWell
    BY RoutedInit
  <1>2. TypeOK /\ RoutedWell /\ [Next]_vars => RoutedWell'
    BY RoutedStep
  <1>3. RoutedWell => RoutedOnce
    BY RoutingMeaning
  <1> QED
    BY <1>1, <1>2, <1>3, CheckpointTyped, PTL DEF Spec
-----------------------------------------------------------------------------
(* Committed rows are final. *)

LEMMA FinalStep ==
    ASSUME TypeOK, start # None, [Next]_vars
    PROVE  /\ RowsBelow(bronze', start, committed) = RowsBelow(bronze, start, committed)
           /\ RowsBelow(quarantine', start, committed)
                 = RowsBelow(quarantine, start, committed)
  <1>1. ASSUME NEW K \in SUBSET Batch, NEW rows
        PROVE  RowsBelow(rows \cup Rows(K), start, committed)
                  = RowsBelow(rows, start, committed)
    <2>1. \A r \in Rows(K) : r.key \notin Keys(start, committed)
      BY StartedRanges DEF Rows
    <2> QED
      BY <2>1 DEF RowsBelow
  <1>2. ToBronze(StillThere) \in SUBSET Batch /\ ToQuarantine(StillThere) \in SUBSET Batch
    BY DEF ToBronze, ToQuarantine, StillThere
  <1>3. CASE AppendBronze
    BY <1>1, <1>2, <1>3 DEF AppendBronze
  <1>4. CASE AppendQuarantine
    BY <1>1, <1>2, <1>4 DEF AppendQuarantine
  <1>5. CASE bronze' = bronze /\ quarantine' = quarantine
    BY <1>5
  <1> QED
    BY <1>3, <1>4, <1>5 DEF Next, vars, Produce, Expire, Start, Crash, Trigger,
       PlanBatch, CommitBatch, DataLoss

(* No restart ever changes what a reader saw below the committed offsets. *)
THEOREM CommittedRowsStay == Spec => CommittedIsFinal
  <1>1. TypeOK /\ [Next]_vars =>
           [start # None =>
              /\ RowsBelow(bronze', start, committed) = RowsBelow(bronze, start, committed)
              /\ RowsBelow(quarantine', start, committed)
                    = RowsBelow(quarantine, start, committed)]_vars
    BY FinalStep
  <1> QED
    BY <1>1, CheckpointTyped, PTL DEF Spec, CommittedIsFinal

-----------------------------------------------------------------------------
(* The stream implements BronzeCapture. *)

Admitted == {r \in Records : ContractInvalid(r) = "false"}
Frontier == IF start = None THEN None ELSE [first |-> start, next |-> committed]

LEMMA CutKeys ==
    ASSUME TypeOK, start # None
    PROVE  \A rows : Cut(rows) = KeysOf(rows) \cap Keys(start, committed)
  BY DEF Cut, KeysOf, RowsBelow

LEMMA CaptureInit ==
    ASSUME Init
    PROVE  Captured!Init
  BY DEF Init, Captured!Init, Cut

(* The commit of a batch shows it, whole. *)
LEMMA CommitCaptures ==
    ASSUME TypeOK, RoutedWell, CommitBatch
    PROVE  Captured!Capture
  <1>1. start # None /\ query = "commit"
    BY DEF CommitBatch, TypeOK
  <1>2. /\ committed' = planned
        /\ UNCHANGED <<topic, zoned, start, planned, bronze, quarantine>>
    BY DEF CommitBatch
  <1>3. Ordered(topic) /\ topic \in [Partition -> Seq(Records)]
    BY <1>1 DEF TypeOK, Ordered
  <1>4. /\ planned \in [Partition -> UNION {0 .. Len(topic[p]) : p \in Partition}]
        /\ \A p \in Partition : planned[p] \in committed[p] .. Len(topic[p])
    <2>1. \A p \in Partition :
             /\ planned[p] \in Nat /\ committed[p] \in Nat /\ Len(topic[p]) \in Nat
             /\ committed[p] =< planned[p] /\ planned[p] =< Len(topic[p])
      BY <1>3 DEF Ordered, Offsets
    <2>2. \A p \in Partition : planned[p] \in 0 .. Len(topic[p])
      BY <2>1
    <2>3. planned \in [Partition -> Nat]
      BY <1>3 DEF Ordered, Offsets
    <2> QED
      BY <2>1, <2>2, <2>3
  <1>5. /\ Keys(start, planned) = Keys(start, committed) \cup Batch
        /\ Keys(start, committed) \cap Batch = {}
    BY <1>1, StartedRanges
  <1>6. \A k \in Batch : Verdict(k) \in {"true", "false"} /\ At(k) \in Records
    BY <1>1, <1>5, VerdictStays
  <1>7. \A k \in Batch : topic[k[1]][k[2] + 1] \in Admitted <=> Verdict(k) = "false"
    BY <1>6 DEF Admitted, Verdict, At
  <1>8. /\ KeysOf(bronze) \cap Batch = Captured!Passing(Batch)
        /\ KeysOf(quarantine) \cap Batch = Batch \ Captured!Passing(Batch)
    BY <1>1, <1>6, <1>7 DEF RoutedWell, Routing, Captured!Passing, Admitted
  <1>9. Captured!Keys(committed, planned) = Batch
    BY DEF Captured!Keys, Keys, Batch
  <1>10. /\ Cut(bronze)' = KeysOf(bronze) \cap Keys(start, planned)
         /\ Cut(quarantine)' = KeysOf(quarantine) \cap Keys(start, planned)
    BY <1>1, <1>2 DEF Cut, KeysOf, RowsBelow, Keys
  <1>11. /\ Cut(bronze)' = Cut(bronze) \cup Captured!Passing(Batch)
         /\ Cut(quarantine)' = Cut(quarantine) \cup (Batch \ Captured!Passing(Batch))
    BY <1>1, <1>5, <1>8, <1>10, CutKeys
  <1>12. /\ Frontier = [first |-> start, next |-> committed]
         /\ Frontier' = [Frontier EXCEPT !.next = planned]
         /\ Frontier # None
    BY <1>1, <1>2, <1>3, StreamNoneAssumption DEF Frontier, Ordered
  <1>13. Admitted' = Admitted
    BY <1>2 DEF Admitted, ContractInvalid, AnyOf, IsNull, Violates, Column
  <1>14. /\ Frontier.next = committed
         /\ \A p \in Partition : planned[p] \in Frontier.next[p] .. Len(topic[p])
    BY <1>4, <1>12
  <1> QED
    BY <1>2, <1>4, <1>9, <1>11, <1>12, <1>13, <1>14 DEF Captured!Capture, Frontier, Admitted
(* Nothing else changes what readers see of a started stream. *)
LEMMA CutStays ==
    ASSUME TypeOK, [Next]_vars, UNCHANGED <<start, committed>>
    PROVE  /\ Cut(bronze)' = Cut(bronze)
           /\ Cut(quarantine)' = Cut(quarantine)
           /\ Frontier' = Frontier
  <1>1. CASE start = None
    BY <1>1 DEF Cut, Frontier
  <1>2. CASE start # None
    <2>1. /\ RowsBelow(bronze', start, committed) = RowsBelow(bronze, start, committed)
          /\ RowsBelow(quarantine', start, committed)
                = RowsBelow(quarantine, start, committed)
      BY <1>2, FinalStep
    <2>2. /\ Cut(bronze)' = KeysOf(RowsBelow(bronze', start, committed))
          /\ Cut(quarantine)' = KeysOf(RowsBelow(quarantine', start, committed))
      BY <1>2 DEF Cut, KeysOf, RowsBelow, Keys
    <2> QED
      BY <1>2, <2>1, <2>2 DEF Cut, Frontier
  <1> QED
    BY <1>1, <1>2

LEMMA CaptureStep ==
    ASSUME TypeOK, RoutedWell, [Next]_vars
    PROVE  [Captured!Next]_(Captured!vars)
  <1>1. zoned' = zoned
    BY DEF Next, vars, Produce, Expire, Start, Crash, Trigger, PlanBatch,
           AppendBronze, AppendQuarantine, CommitBatch, DataLoss
  <1>2. Admitted' = Admitted
    BY <1>1 DEF Admitted, ContractInvalid, AnyOf, IsNull, Violates, Column
  <1>3. CASE UNCHANGED <<start, committed>>
    <2>1. /\ Cut(bronze)' = Cut(bronze) /\ Cut(quarantine)' = Cut(quarantine)
          /\ Frontier' = Frontier
      BY <1>3, CutStays
    <2>2. CASE topic' = topic
      BY <1>2, <2>1, <2>2 DEF Captured!vars, Admitted, Frontier
    <2>3. CASE \E p \in Partition : \E r \in Records : Produce(p, r)
      <3>1. \E p \in Partition, r \in Records :
               topic' = [topic EXCEPT ![p] = Append(topic[p], r)]
        BY <2>3 DEF Produce
      <3> QED
        BY <1>2, <2>1, <3>1 DEF Captured!Next, Captured!Produce, Admitted, Frontier
    <2> QED
      BY <2>2, <2>3 DEF Next, vars, Expire, Start, Crash, Trigger, PlanBatch,
         AppendBronze, AppendQuarantine, CommitBatch, DataLoss
  <1>4. CASE Start /\ start = None
    <2>1. /\ start' = Ends /\ committed' = Ends /\ topic' = topic
          /\ bronze = {} /\ quarantine = {} /\ bronze' = {} /\ quarantine' = {}
      BY <1>4 DEF Start, RoutedWell
    <2>2. Ends # None
      BY EndsAreOffsets, StreamNoneAssumption DEF TypeOK
    <2>3. Frontier = None /\ Frontier' = [first |-> Ends, next |-> Ends]
      BY <1>4, <2>1, <2>2 DEF Frontier
    <2>4. /\ Cut(bronze) = {} /\ Cut(bronze)' = {}
          /\ Cut(quarantine) = {} /\ Cut(quarantine)' = {}
      BY <2>1 DEF Cut, KeysOf, RowsBelow
    <2>5. Captured!Ends = Ends
      BY DEF Captured!Ends, Ends
    <2> QED
      BY <1>2, <2>1, <2>3, <2>4, <2>5 DEF Captured!Next, Captured!Open, Admitted, Frontier
  <1>5. CASE CommitBatch
    BY <1>5, CommitCaptures DEF Captured!Next
  <1> QED
    BY <1>3, <1>4, <1>5 DEF Next, vars, checkpoint, Produce, Expire, Start, Crash, Trigger,
       PlanBatch, AppendBronze, AppendQuarantine, DataLoss

(* Whoever stops reading at the committed offsets sees whole batches appear in
   both tables at once: the two appends, their repetition after a crash and the
   death in between are a stutter of BronzeCapture, and the commit is its step. *)
THEOREM StreamRefinesCapture == Spec => CapturesWholeBatches
  <1>1. Init => RoutedWell /\ Captured!Init
    BY RoutedInit, CaptureInit
  <1>2. TypeOK /\ RoutedWell /\ [Next]_vars => RoutedWell'
    BY RoutedStep
  <1>3. TypeOK /\ RoutedWell /\ [Next]_vars => [Captured!Next]_(Captured!vars)
    BY CaptureStep
  <1> QED
    BY <1>1, <1>2, <1>3, CheckpointTyped, PTL DEF Spec, CapturesWholeBatches, Captured!Spec
=============================================================================
