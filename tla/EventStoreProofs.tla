--------------------------- MODULE EventStoreProofs ---------------------------
(***************************************************************************)
(* Proofs that the atomic store keeps its promises for every set of        *)
(* partitions, identities, payloads and histories and every watermark.     *)
(***************************************************************************)
EXTENDS EventStore, TLAPS

(* The inductive invariant: the promises, and MaxIsPrefixMax, without which  *)
(* nothing ties the stored maximum that decides lateness to the log, and     *)
(* UnbindableOutcomes, the verdict behind UnbindableStopsPartition.          *)
UnbindableOutcomes ==
    \A r \in ingestion_outcome :
        RowArrival(r) \in Unbindable =>
            RowArrival(r).valid /\ r.verdict \in {"DUPLICATE", "CONFLICT"}

StoreInv ==
    /\ StoreTypeOK
    /\ CorrectionTypeOK({})
    /\ Conservation
    /\ OneEffectPerIdentity
    /\ MaxIsPrefixMax
    /\ LatenessIsReplayable
    /\ CorrectionsMatchLate
    /\ UnbindableOutcomes

-----------------------------------------------------------------------------
(* What a verdict says, with its nested cases flattened. *)
LEMMA VerdictMeaning ==
    ASSUME NEW e \in Payload, NEW found, NEW max
    PROVE  LET v == Verdict(e, found, max)
           IN  /\ v \in Verdicts
               /\ v = "INVALID" <=> ~e.valid
               /\ v = "DUPLICATE" <=> e.valid /\ found # None /\ found = Fingerprint(e)
               /\ v = "CONFLICT" <=> e.valid /\ found # None /\ found # Fingerprint(e)
               /\ v = "ACCEPTED_LATE" <=> e.valid /\ found = None /\ IsLate(e.time, max)
               /\ v = "ACCEPTED_LIVE" <=> e.valid /\ found = None /\ ~IsLate(e.time, max)
  <1> e.valid \in BOOLEAN
    BY DEF Payload
  <1>1. CASE ~e.valid
    BY <1>1 DEF Verdict, Verdicts
  <1>2. CASE e.valid /\ found # None
    BY <1>2 DEF Verdict, Verdicts
  <1>3. CASE e.valid /\ found = None
    BY <1>3 DEF Verdict, Verdicts
  <1> QED
    BY <1>1, <1>2, <1>3

(* The arrivals of a typed log are payloads. *)
LEMMA ArrivalType ==
    ASSUME StoreTypeOK, NEW p \in Partition, NEW o \in Nat, o < Len(log[p])
    PROVE  /\ Arrival(p, o) \in Payload
           /\ Fingerprint(Arrival(p, o)) \in EventId \X Nat \X Body
           /\ Fingerprint(Arrival(p, o)) # None
  <1>1. log[p] \in Seq(Payload) /\ o + 1 \in 1 .. Len(log[p])
    BY DEF StoreTypeOK
  <1>2. Arrival(p, o) \in Payload
    BY <1>1 DEF Arrival
  <1> QED
    BY <1>2, NoneAssumption DEF Payload, Fingerprint

(* The effect of consuming one arrival, with its names bound. *)
LEMMA ConsumeEffect ==
    ASSUME StoreTypeOK, Conservation, NEW p \in Partition, Consume(p)
    PROVE  \E o \in Nat, e \in Payload, v \in Verdicts :
             /\ o = checkpoint[p].last + 1
             /\ o < Len(log[p])
             /\ e = Arrival(p, o)
             /\ v = Verdict(e, seen_event[e.id], checkpoint[p].max)
             /\ KeysFree(p, o, e, v)
             /\ RecordOutcome(p, o, seen_event[e.id], checkpoint[p].max)
             /\ log' = log
  <1> DEFINE o == Expected(p)
             e == Arrival(p, o)
             v == Verdict(e, seen_event[e.id], checkpoint[p].max)
  <1>1. checkpoint[p].last \in Nat \cup {-1}
    BY DEF StoreTypeOK
  <1>2. o \in Nat /\ o < Len(log[p])
    <2>1. Len(log[p]) \in Nat
      BY DEF StoreTypeOK
    <2> QED
      BY <1>1, <2>1 DEF Consume, HasArrival, Expected
  <1>3. e \in Payload
    BY <1>2, ArrivalType
  <1>4. v \in Verdicts
    BY <1>3, VerdictMeaning
  <1> QED
    BY <1>2, <1>3, <1>4 DEF Consume, RecordOutcome, Expected
-----------------------------------------------------------------------------
(* Each part of the invariant survives a step. *)

LEMMA ConsumeType ==
    ASSUME StoreTypeOK, Conservation, NEW p \in Partition, Consume(p)
    PROVE  StoreTypeOK'
  <1>1. PICK o \in Nat, e \in Payload, v \in Verdicts :
             /\ o = checkpoint[p].last + 1
             /\ o < Len(log[p])
             /\ e = Arrival(p, o)
             /\ v = Verdict(e, seen_event[e.id], checkpoint[p].max)
             /\ KeysFree(p, o, e, v)
             /\ RecordOutcome(p, o, seen_event[e.id], checkpoint[p].max)
             /\ log' = log
    BY ConsumeEffect
  <1>a. /\ ingestion_outcome' = ingestion_outcome \cup {OutcomeRow(p, o, v)}
        /\ quarantine' = IF v \in Quarantining THEN quarantine \cup {<<p, o>>} ELSE quarantine
    BY <1>1 DEF RecordOutcome
  <1>b. OutcomeRow(p, o, v) \in OutcomeRows
    BY DEF OutcomeRow, OutcomeRows
  <1> USE DEF StoreTypeOK
  <1>2. e.id \in EventId /\ e.time \in Nat /\ Fingerprint(e) \in EventId \X Nat \X Body
    BY <1>1, ArrivalType DEF Payload
  <1>3. (checkpoint \in [Partition -> [last : Nat \cup {-1}, max : Nat \cup {None}]])'
    <2>1. checkpoint[p].max \in Nat \cup {None}
      OBVIOUS
    <2>2. NextMax(e, checkpoint[p].max) \in Nat \cup {None}
      BY <1>2, <2>1 DEF NextMax
    <2>3. checkpoint' = [checkpoint EXCEPT ![p] =
                            [last |-> o, max |-> NextMax(e, checkpoint[p].max)]]
      BY <1>1 DEF RecordOutcome
    <2> QED
      BY <1>1, <2>2, <2>3
  <1>4. (ingestion_outcome \subseteq OutcomeRows)'
    BY <1>a, <1>b
  <1>5. (quarantine \subseteq Partition \X Nat)'
    BY <1>a
  <1>6. (seen_event \in [EventId -> (EventId \X Nat \X Body) \cup {None}])'
    BY <1>1, <1>2 DEF RecordOutcome
  <1>7. (accepted_event \in [EventId -> AcceptedRows \cup {None}])'
    <2>1. [time |-> e.time, late |-> v = "ACCEPTED_LATE", partition |-> p, offset |-> o]
             \in AcceptedRows
      BY <1>1, <1>2 DEF AcceptedRows
    <2> QED
      BY <1>1, <1>2, <2>1 DEF RecordOutcome
  <1> QED
    BY <1>1, <1>3, <1>4, <1>5, <1>6, <1>7

LEMMA ConsumeConservation ==
    ASSUME StoreTypeOK, Conservation, NEW p \in Partition, Consume(p)
    PROVE  Conservation'
  <1>1. PICK o \in Nat, e \in Payload, v \in Verdicts :
             /\ o = checkpoint[p].last + 1
             /\ o < Len(log[p])
             /\ e = Arrival(p, o)
             /\ v = Verdict(e, seen_event[e.id], checkpoint[p].max)
             /\ KeysFree(p, o, e, v)
             /\ RecordOutcome(p, o, seen_event[e.id], checkpoint[p].max)
             /\ log' = log
    BY ConsumeEffect
  <1>2. /\ ingestion_outcome' = ingestion_outcome \cup {OutcomeRow(p, o, v)}
        /\ quarantine' = IF v \in Quarantining THEN quarantine \cup {<<p, o>>} ELSE quarantine
        /\ \A q \in Partition : checkpoint'[q].last = IF q = p THEN o ELSE checkpoint[q].last
    BY <1>1 DEF RecordOutcome, StoreTypeOK
  <1>3. \A r \in ingestion_outcome : ~(r.partition = p /\ r.offset = o)
    BY <1>1 DEF KeysFree, HasOutcome
  <1>4. \A q \in Partition : checkpoint[q].last \in Nat \cup {-1}
    BY DEF StoreTypeOK
  <1>5. OutcomeRow(p, o, v).partition = p /\ OutcomeRow(p, o, v).offset = o
           /\ OutcomeRow(p, o, v).verdict = v
    BY DEF OutcomeRow
  <1>6. \A q, k : HasOutcome(q, k)' <=> HasOutcome(q, k) \/ (q = p /\ k = o)
    BY <1>2, <1>5 DEF HasOutcome
  <1>7. \A q \in Partition : checkpoint'[q].last < Len(log'[q])
    BY <1>1, <1>2 DEF Conservation
  <1>8. \A q \in Partition : \A k \in 0 .. checkpoint'[q].last : HasOutcome(q, k)'
    <2> SUFFICES ASSUME NEW q \in Partition, NEW k \in 0 .. checkpoint'[q].last
                 PROVE  HasOutcome(q, k) \/ (q = p /\ k = o)
      BY <1>6
    <2>1. CASE q = p
      <3>1. k \in 0 .. checkpoint[p].last \/ k = o
        BY <1>1, <1>2, <1>4, <2>1
      <3> QED
        BY <2>1, <3>1 DEF Conservation
    <2>2. CASE q # p
      BY <1>2, <2>2 DEF Conservation
    <2> QED
      BY <2>1, <2>2
  <1>9. \A r \in ingestion_outcome' : r.offset =< checkpoint'[r.partition].last
    <2> SUFFICES ASSUME NEW r \in ingestion_outcome'
                 PROVE  r.offset =< checkpoint'[r.partition].last
      OBVIOUS
    <2>1. CASE r \in ingestion_outcome
      <3>1. r.partition \in Partition /\ r.offset \in Nat
        BY <2>1 DEF StoreTypeOK, OutcomeRows
      <3>2. r.offset =< checkpoint[r.partition].last
        BY <2>1 DEF Conservation
      <3>3. checkpoint[p].last < o /\ checkpoint[r.partition].last \in Nat \cup {-1}
        BY <1>1, <1>4, <3>1
      <3>4. checkpoint'[r.partition].last =
               IF r.partition = p THEN o ELSE checkpoint[r.partition].last
        BY <1>2, <3>1
      <3> QED
        BY <3>1, <3>2, <3>3, <3>4
    <2>2. CASE r = OutcomeRow(p, o, v)
      BY <1>2, <1>5, <2>2
    <2> QED
      BY <1>2, <2>1, <2>2
  <1>10. \A r, s \in ingestion_outcome' : SameKey(r, s) => r = s
    BY <1>2, <1>3, <1>5 DEF Conservation, SameKey
  <1>11. \A r \in ingestion_outcome' :
            r.verdict \in Quarantining <=> RowKey(r) \in quarantine'
    <2> SUFFICES ASSUME NEW r \in ingestion_outcome'
                 PROVE  r.verdict \in Quarantining <=> RowKey(r) \in quarantine'
      OBVIOUS
    <2>1. CASE r \in ingestion_outcome
      <3>1. RowKey(r) # <<p, o>>
        BY <1>3, <2>1 DEF RowKey
      <3>2. r.verdict \in Quarantining <=> RowKey(r) \in quarantine
        BY <2>1 DEF Conservation
      <3> QED
        BY <1>2, <3>1, <3>2
    <2>2. CASE r = OutcomeRow(p, o, v)
      <3>1. RowKey(r) = <<p, o>> /\ r.verdict = v
        BY <1>5, <2>2 DEF RowKey
      <3>2. <<p, o>> \notin quarantine
        BY <1>3 DEF Conservation, HasOutcome
      <3> QED
        BY <1>2, <3>1, <3>2
    <2> QED
      BY <1>2, <2>1, <2>2
  <1>12. \A k \in quarantine' : HasOutcome(k[1], k[2])'
    BY <1>2, <1>6 DEF Conservation
  <1> QED
    BY <1>7, <1>8, <1>9, <1>10, <1>11, <1>12 DEF Conservation
(* The arrival behind a recorded outcome exists, so its payload is typed. *)
LEMMA RowArrivalType ==
    ASSUME StoreTypeOK, Conservation, NEW r \in ingestion_outcome
    PROVE  /\ r.partition \in Partition /\ r.offset \in Nat
           /\ r.offset < Len(log[r.partition])
           /\ r.verdict \in Verdicts
           /\ RowArrival(r) \in Payload
           /\ Fingerprint(RowArrival(r)) # None
  <1>1. r.partition \in Partition /\ r.offset \in Nat /\ r.verdict \in Verdicts
    BY DEF StoreTypeOK, OutcomeRows
  <1>2. r.offset =< checkpoint[r.partition].last
           /\ checkpoint[r.partition].last < Len(log[r.partition])
    BY <1>1 DEF Conservation
  <1>3. checkpoint[r.partition].last \in Nat \cup {-1} /\ Len(log[r.partition]) \in Nat
    BY <1>1 DEF StoreTypeOK
  <1>4. r.offset < Len(log[r.partition])
    BY <1>1, <1>2, <1>3
  <1> QED
    BY <1>1, <1>4, ArrivalType DEF RowArrival

LEMMA ConsumeOneEffect ==
    ASSUME StoreTypeOK, Conservation, OneEffectPerIdentity,
           NEW p \in Partition, Consume(p)
    PROVE  OneEffectPerIdentity'
  <1>1. PICK o \in Nat, e \in Payload, v \in Verdicts :
             /\ o = checkpoint[p].last + 1
             /\ o < Len(log[p])
             /\ e = Arrival(p, o)
             /\ v = Verdict(e, seen_event[e.id], checkpoint[p].max)
             /\ KeysFree(p, o, e, v)
             /\ RecordOutcome(p, o, seen_event[e.id], checkpoint[p].max)
             /\ log' = log
    BY ConsumeEffect
  <1> DEFINE row == OutcomeRow(p, o, v)
             effect == [time |-> e.time, late |-> v = "ACCEPTED_LATE",
                        partition |-> p, offset |-> o]
  <1>2. /\ ingestion_outcome' = ingestion_outcome \cup {row}
        /\ seen_event' = IF v \in Accepting
                         THEN [seen_event EXCEPT ![e.id] = Fingerprint(e)] ELSE seen_event
        /\ accepted_event' = IF v \in Accepting
                             THEN [accepted_event EXCEPT ![e.id] = effect]
                             ELSE accepted_event
    BY <1>1 DEF RecordOutcome
  <1>3. /\ row.partition = p /\ row.offset = o /\ row.verdict = v /\ RowArrival(row) = e
        /\ effect.partition = p /\ effect.offset = o
        /\ effect.late <=> v = "ACCEPTED_LATE"
    BY <1>1 DEF OutcomeRow, RowArrival
  <1>4. e.id \in EventId /\ Fingerprint(e) # None /\ effect # None
    <2>1. effect \in AcceptedRows
      BY <1>1 DEF AcceptedRows, Payload
    <2> QED
      BY <1>1, <2>1, ArrivalType, NoneAssumption DEF Payload
  <1>5. v \in Accepting => seen_event[e.id] = None /\ accepted_event[e.id] = None
    BY <1>1, <1>4 DEF KeysFree, OneEffectPerIdentity
  <1>6. \A r : RowArrival(r)' = RowArrival(r)
    BY <1>1 DEF RowArrival, Arrival
  <1>7. /\ DOMAIN seen_event = EventId /\ DOMAIN accepted_event = EventId
        /\ seen_event = [i \in EventId |-> seen_event[i]]
        /\ accepted_event = [i \in EventId |-> accepted_event[i]]
    BY DEF StoreTypeOK
  <1>8. \A i \in EventId :
           /\ seen_event'[i] = IF v \in Accepting /\ i = e.id THEN Fingerprint(e)
                                                              ELSE seen_event[i]
           /\ accepted_event'[i] = IF v \in Accepting /\ i = e.id THEN effect
                                                                  ELSE accepted_event[i]
    BY <1>2, <1>7
  <1> HIDE DEF row, effect
  <1>9. ASSUME NEW i \in EventId
        PROVE  /\ seen_event'[i] = None <=> accepted_event'[i] = None
               /\ accepted_event'[i] # None =>
                     \E r \in ingestion_outcome' :
                        /\ SameKey(r, accepted_event'[i])
                        /\ r.verdict \in Accepting
                        /\ (RowArrival(r).id)' = i
    <2>1. CASE v \in Accepting /\ i = e.id
      <3>1. SameKey(row, effect) /\ row \in ingestion_outcome'
        BY <1>2, <1>3 DEF SameKey
      <3> QED
        BY <1>3, <1>4, <1>6, <1>8, <2>1, <3>1
    <2>2. CASE ~(v \in Accepting /\ i = e.id)
      <3>1. seen_event'[i] = seen_event[i] /\ accepted_event'[i] = accepted_event[i]
        BY <1>8, <2>2
      <3> QED
        BY <1>2, <1>6, <3>1 DEF OneEffectPerIdentity
    <2> QED
      BY <2>1, <2>2
  <1>10. ASSUME NEW r \in ingestion_outcome'
         PROVE  LET d == RowArrival(r)
                IN  CASE r.verdict \in Accepting ->
                            /\ accepted_event'[d.id] # None
                            /\ SameKey(r, accepted_event'[d.id])
                            /\ accepted_event'[d.id].late <=> r.verdict = "ACCEPTED_LATE"
                            /\ seen_event'[d.id] = Fingerprint(d)
                      [] r.verdict = "DUPLICATE" -> seen_event'[d.id] = Fingerprint(d)
                      [] r.verdict = "CONFLICT" -> seen_event'[d.id] \notin {None, Fingerprint(d)}
                      [] r.verdict = "INVALID" -> ~d.valid
    <2>1. CASE r \in ingestion_outcome
      <3> DEFINE d == RowArrival(r)
      <3>1. d.id \in EventId /\ Fingerprint(d) # None /\ r.verdict \in Verdicts
        BY <2>1, RowArrivalType DEF Payload
      <3>2. r.verdict \in Verdicts \ {"INVALID"} => seen_event[d.id] # None
        BY <2>1, <3>1 DEF OneEffectPerIdentity, Verdicts, Accepting
      <3>3. r.verdict \in Verdicts \ {"INVALID"} =>
               seen_event'[d.id] = seen_event[d.id] /\ accepted_event'[d.id] = accepted_event[d.id]
        BY <1>5, <1>8, <3>1, <3>2
      <3>4. CASE r.verdict \in Accepting
        <4>1. /\ accepted_event[d.id] # None
              /\ SameKey(r, accepted_event[d.id])
              /\ accepted_event[d.id].late <=> r.verdict = "ACCEPTED_LATE"
              /\ seen_event[d.id] = Fingerprint(d)
          BY <2>1, <3>4 DEF OneEffectPerIdentity, Accepting
        <4>2. r.verdict \in Verdicts \ {"INVALID"}
          BY <3>4 DEF Accepting, Verdicts
        <4> QED
          BY <3>3, <3>4, <4>1, <4>2 DEF Accepting
      <3>5. CASE r.verdict = "DUPLICATE"
        BY <2>1, <3>1, <3>3, <3>5 DEF OneEffectPerIdentity, Accepting, Verdicts
      <3>6. CASE r.verdict = "CONFLICT"
        BY <2>1, <3>1, <3>3, <3>6 DEF OneEffectPerIdentity, Accepting, Verdicts
      <3>7. CASE r.verdict = "INVALID"
        BY <2>1, <3>7 DEF OneEffectPerIdentity, Accepting
      <3> QED
        BY <3>1, <3>4, <3>5, <3>6, <3>7 DEF Verdicts, Accepting
    <2>2. CASE r = row
      <3>1. /\ v = "DUPLICATE" => seen_event[e.id] = Fingerprint(e)
            /\ v = "CONFLICT" => seen_event[e.id] \notin {None, Fingerprint(e)}
            /\ v = "INVALID" => ~e.valid
        BY <1>1, VerdictMeaning
      <3>2. v \in Accepting => seen_event'[e.id] = Fingerprint(e)
                                  /\ accepted_event'[e.id] = effect
        BY <1>4, <1>8
      <3>3. v \notin Accepting => seen_event'[e.id] = seen_event[e.id]
        BY <1>4, <1>8
      <3>4. v \in Accepting => SameKey(row, effect)
        BY <1>3 DEF SameKey
      <3>5. CASE v \in Accepting
        BY <1>3, <1>4, <2>2, <3>2, <3>4, <3>5 DEF Accepting
      <3>6. CASE v = "DUPLICATE"
        BY <1>3, <2>2, <3>1, <3>3, <3>6 DEF Accepting
      <3>7. CASE v = "CONFLICT"
        BY <1>3, <2>2, <3>1, <3>3, <3>7 DEF Accepting
      <3>8. CASE v = "INVALID"
        BY <1>3, <2>2, <3>1, <3>8 DEF Accepting
      <3> QED
        BY <1>1, <3>5, <3>6, <3>7, <3>8 DEF Verdicts, Accepting
    <2> QED
      BY <1>2, <2>1, <2>2
  <1> QED
    BY <1>6, <1>9, <1>10 DEF OneEffectPerIdentity
LEMMA ConsumeMax ==
    ASSUME StoreTypeOK, Conservation, MaxIsPrefixMax, NEW p \in Partition, Consume(p)
    PROVE  MaxIsPrefixMax'
  <1>1. PICK o \in Nat, e \in Payload, v \in Verdicts :
             /\ o = checkpoint[p].last + 1
             /\ o < Len(log[p])
             /\ e = Arrival(p, o)
             /\ v = Verdict(e, seen_event[e.id], checkpoint[p].max)
             /\ KeysFree(p, o, e, v)
             /\ RecordOutcome(p, o, seen_event[e.id], checkpoint[p].max)
             /\ log' = log
    BY ConsumeEffect
  <1> DEFINE Seen(q) == {k \in 0 .. checkpoint[q].last : Arrival(q, k).valid}
             max == checkpoint[p].max
  <1>2. /\ checkpoint' = [checkpoint EXCEPT ![p] = [last |-> o, max |-> NextMax(e, max)]]
        /\ \A q, k : Arrival(q, k)' = Arrival(q, k)
    BY <1>1 DEF RecordOutcome, Arrival
  <1>3. ASSUME NEW q \in Partition, q # p
        PROVE  checkpoint'[q] = checkpoint[q] /\ Seen(q)' = Seen(q)
    BY <1>2, <1>3 DEF StoreTypeOK
  <1>4. /\ checkpoint'[p].last = o /\ checkpoint'[p].max = NextMax(e, max)
        /\ checkpoint[p].last \in Nat \cup {-1} /\ max \in Nat \cup {None}
        /\ e.time \in Nat /\ e.valid \in BOOLEAN
    BY <1>1, <1>2 DEF StoreTypeOK, Payload
  <1>5. Seen(p)' = IF e.valid THEN Seen(p) \cup {o} ELSE Seen(p)
    <2>1. 0 .. o = (0 .. checkpoint[p].last) \cup {o}
      BY <1>1, <1>4
    <2>2. Seen(p)' = {k \in 0 .. o : Arrival(p, k).valid}
      BY <1>2, <1>4
    <2>3. Arrival(p, o).valid <=> e.valid
      BY <1>1
    <2> QED
      BY <2>1, <2>2, <2>3
  <1>6. \A k \in Seen(p) : Arrival(p, k).time \in Nat
    <2> SUFFICES ASSUME NEW k \in Seen(p) PROVE Arrival(p, k).time \in Nat
      OBVIOUS
    <2>1. k \in Nat /\ k < Len(log[p])
      BY <1>1, <1>4 DEF StoreTypeOK
    <2> QED
      BY <2>1, ArrivalType DEF Payload
  <1>7. /\ max = None <=> Seen(p) = {}
        /\ max # None => /\ \A k \in Seen(p) : Arrival(p, k).time =< max
                         /\ \E k \in Seen(p) : Arrival(p, k).time = max
    BY DEF MaxIsPrefixMax
  <1>8. \A k \in Seen(p)' : (Arrival(p, k).time)' = Arrival(p, k).time
    BY <1>2
  <1> DEFINE MaxOf(q) ==
        /\ checkpoint[q].max = None <=> Seen(q) = {}
        /\ checkpoint[q].max # None =>
              /\ \A k \in Seen(q) : Arrival(q, k).time =< checkpoint[q].max
              /\ \E k \in Seen(q) : Arrival(q, k).time = checkpoint[q].max
  <1>9. MaxOf(p)'
    <2> HIDE DEF Seen
    <2>1. CASE ~e.valid
      <3>1. checkpoint'[p].max = max /\ Seen(p)' = Seen(p)
        BY <1>4, <1>5, <2>1 DEF NextMax
      <3> QED
        BY <1>2, <1>7, <3>1
    <2>2. CASE e.valid /\ (max = None \/ e.time > max)
      <3>1. checkpoint'[p].max = e.time /\ Seen(p)' = Seen(p) \cup {o}
        BY <1>4, <1>5, <2>2 DEF NextMax
      <3>2. \A k \in Seen(p) : Arrival(p, k).time =< e.time
        BY <1>4, <1>6, <1>7, <2>2
      <3>3. e.time # None /\ Arrival(p, o).time = e.time
        BY <1>1, <1>4, NoneAssumption
      <3> QED
        BY <1>2, <1>4, <3>1, <3>2, <3>3
    <2>3. CASE e.valid /\ ~(max = None \/ e.time > max)
      <3>1. checkpoint'[p].max = max /\ Seen(p)' = Seen(p) \cup {o}
        BY <1>4, <1>5, <2>3 DEF NextMax
      <3>2. max \in Nat /\ e.time =< max /\ Arrival(p, o).time = e.time
        BY <1>1, <1>4, <2>3
      <3> QED
        BY <1>2, <1>7, <2>3, <3>1, <3>2
    <2> QED
      BY <2>1, <2>2, <2>3
  <1>10. ASSUME NEW q \in Partition, q # p PROVE MaxOf(q)'
    <2>1. MaxOf(q)
      BY DEF MaxIsPrefixMax
    <2> HIDE DEF Seen
    <2> QED
      BY <1>2, <1>3, <1>10, <2>1
  <1> QED
    BY <1>9, <1>10 DEF MaxIsPrefixMax

LEMMA ConsumeLateness ==
    ASSUME StoreTypeOK, Conservation, MaxIsPrefixMax, LatenessIsReplayable,
           NEW p \in Partition, Consume(p)
    PROVE  LatenessIsReplayable'
  <1>1. PICK o \in Nat, e \in Payload, v \in Verdicts :
             /\ o = checkpoint[p].last + 1
             /\ o < Len(log[p])
             /\ e = Arrival(p, o)
             /\ v = Verdict(e, seen_event[e.id], checkpoint[p].max)
             /\ KeysFree(p, o, e, v)
             /\ RecordOutcome(p, o, seen_event[e.id], checkpoint[p].max)
             /\ log' = log
    BY ConsumeEffect
  <1> DEFINE max == checkpoint[p].max
             row == OutcomeRow(p, o, v)
  <1>2. /\ ingestion_outcome' = ingestion_outcome \cup {row}
        /\ \A q, k : Overtaken(q, k)' <=> Overtaken(q, k)
    BY <1>1 DEF RecordOutcome, Overtaken, Arrival
  <1>3. row.partition = p /\ row.offset = o /\ row.verdict = v
    BY DEF OutcomeRow
  <1>4. v \in Accepting => (v = "ACCEPTED_LATE" <=> IsLate(e.time, max))
    BY <1>1, VerdictMeaning DEF Accepting
  <1>5. IsLate(e.time, max) <=> Overtaken(p, o)
    <2>1. /\ max \in Nat \cup {None} /\ e.time \in Nat /\ Watermark \in Nat
          /\ checkpoint[p].last = o - 1 /\ Arrival(p, o).time = e.time
      <3>1. checkpoint[p] \in [last : Nat \cup {-1}, max : Nat \cup {None}]
        BY DEF StoreTypeOK
      <3>2. e.time \in Nat
        BY DEF Payload
      <3>3. checkpoint[p].last = o - 1
        BY <1>1, <3>1
      <3>4. Arrival(p, o).time = e.time
        BY <1>1
      <3> QED
        BY <3>1, <3>2, <3>3, <3>4, WatermarkAssumption
    <2>2. \A k \in 0 .. (o - 1) : Arrival(p, k).time \in Nat
      <3> SUFFICES ASSUME NEW k \in 0 .. (o - 1) PROVE Arrival(p, k).time \in Nat
        OBVIOUS
      <3>1. k \in Nat /\ k < Len(log[p])
        BY <1>1 DEF StoreTypeOK
      <3> QED
        BY <3>1, ArrivalType DEF Payload
    <2>3. /\ max = None => \A k \in 0 .. (o - 1) : ~Arrival(p, k).valid
          /\ max # None =>
               /\ \A k \in 0 .. (o - 1) : Arrival(p, k).valid => Arrival(p, k).time =< max
               /\ \E k \in 0 .. (o - 1) : Arrival(p, k).valid /\ Arrival(p, k).time = max
      BY <2>1 DEF MaxIsPrefixMax
    <2>4. CASE max = None
      BY <2>3, <2>4 DEF IsLate, Overtaken
    <2>5. CASE max # None
      <3>1. max \in Nat
        BY <2>1, <2>5
      <3>2. ASSUME IsLate(e.time, max) PROVE Overtaken(p, o)
        <4>1. PICK k \in 0 .. (o - 1) : Arrival(p, k).valid /\ Arrival(p, k).time = max
          BY <2>3, <2>5
        <4>2. max > e.time + Watermark
          BY <2>1, <3>1, <3>2 DEF IsLate
        <4> QED
          BY <2>1, <4>1, <4>2 DEF Overtaken
      <3>3. ASSUME Overtaken(p, o) PROVE IsLate(e.time, max)
        <4>1. PICK k \in 0 .. (o - 1) :
                 Arrival(p, k).valid /\ Arrival(p, k).time > e.time + Watermark
          BY <2>1, <3>3 DEF Overtaken
        <4>2. Arrival(p, k).time =< max /\ Arrival(p, k).time \in Nat
          BY <2>2, <2>3, <2>5, <4>1
        <4> QED
          BY <2>1, <2>5, <3>1, <4>1, <4>2 DEF IsLate
      <3> QED
        BY <3>2, <3>3
    <2> QED
      BY <2>4, <2>5
  <1> HIDE DEF row
  <1> QED
    BY <1>2, <1>3, <1>4, <1>5 DEF LatenessIsReplayable

(* gens: the generations that may have resolved a correction. *)
LEMMA ConsumeCorrections ==
    ASSUME StoreTypeOK, Conservation, OneEffectPerIdentity,
           NEW gens, None \notin CorrectionRows(gens),
           CorrectionTypeOK(gens), CorrectionsMatchLate,
           NEW p \in Partition, Consume(p)
    PROVE  CorrectionsMatchLate' /\ CorrectionTypeOK(gens)'
  <1>1. PICK o \in Nat, e \in Payload, v \in Verdicts :
             /\ o = checkpoint[p].last + 1
             /\ o < Len(log[p])
             /\ e = Arrival(p, o)
             /\ v = Verdict(e, seen_event[e.id], checkpoint[p].max)
             /\ KeysFree(p, o, e, v)
             /\ RecordOutcome(p, o, seen_event[e.id], checkpoint[p].max)
             /\ log' = log
    BY ConsumeEffect
  <1> DEFINE effect == [time |-> e.time, late |-> v = "ACCEPTED_LATE",
                        partition |-> p, offset |-> o]
             correction == [status |-> "OPEN", partition |-> p, offset |-> o,
                            resolved |-> None]
  <1>2. /\ accepted_event' = IF v \in Accepting
                             THEN [accepted_event EXCEPT ![e.id] = effect]
                             ELSE accepted_event
        /\ correction_exception' = IF v = "ACCEPTED_LATE"
                                   THEN [correction_exception EXCEPT ![e.id] = correction]
                                   ELSE correction_exception
    BY <1>1 DEF RecordOutcome
  <1>3. e.id \in EventId /\ (v \in Accepting => accepted_event[e.id] = None)
    BY <1>1 DEF KeysFree, OneEffectPerIdentity, Payload
  <1>4. /\ effect \in AcceptedRows /\ effect # None
        /\ correction \in CorrectionRows(gens) /\ correction # None
    <2>1. effect \in AcceptedRows
      BY <1>1 DEF AcceptedRows, Payload
    <2>2. correction \in CorrectionRows(gens)
      BY DEF CorrectionRows
    <2> QED
      BY <2>1, <2>2, NoneAssumption
  <1>5. /\ effect.late <=> v = "ACCEPTED_LATE"
        /\ SameKey(correction, effect)
    BY DEF SameKey
  <1>6. v = "ACCEPTED_LATE" => v \in Accepting
    BY DEF Accepting
  <1>7. \A i \in EventId :
           /\ accepted_event'[i] = IF v \in Accepting /\ i = e.id THEN effect
                                                                  ELSE accepted_event[i]
           /\ correction_exception'[i] =
                 IF v = "ACCEPTED_LATE" /\ i = e.id THEN correction
                                                    ELSE correction_exception[i]
    BY <1>2 DEF StoreTypeOK, CorrectionTypeOK
  <1>8. CorrectionTypeOK(gens)'
    BY <1>2, <1>3, <1>4 DEF CorrectionTypeOK, CorrectionRows
  <1> HIDE DEF effect, correction
  <1>9. ASSUME NEW i \in EventId
        PROVE  /\ correction_exception'[i] # None <=>
                     accepted_event'[i] # None /\ accepted_event'[i].late
               /\ correction_exception'[i] # None =>
                     SameKey(correction_exception'[i], accepted_event'[i])
    <2>1. CASE v \in Accepting /\ i = e.id
      <3>1. correction_exception[i] = None
        BY <1>3, <2>1 DEF CorrectionsMatchLate
      <3> QED
        BY <1>4, <1>5, <1>6, <1>7, <2>1, <3>1
    <2>2. CASE ~(v \in Accepting /\ i = e.id)
      <3>1. accepted_event'[i] = accepted_event[i]
               /\ correction_exception'[i] = correction_exception[i]
        BY <1>6, <1>7, <2>2
      <3> QED
        BY <3>1 DEF CorrectionsMatchLate
    <2> QED
      BY <2>1, <2>2
  <1> QED
    BY <1>8, <1>9 DEF CorrectionsMatchLate

(* KeysFree lets no other verdict of an unbindable payload be recorded. *)
LEMMA ConsumeUnbindable ==
    ASSUME StoreTypeOK, Conservation, UnbindableOutcomes,
           NEW p \in Partition, Consume(p)
    PROVE  UnbindableOutcomes'
  <1>1. PICK o \in Nat, e \in Payload, v \in Verdicts :
             /\ o = checkpoint[p].last + 1
             /\ o < Len(log[p])
             /\ e = Arrival(p, o)
             /\ v = Verdict(e, seen_event[e.id], checkpoint[p].max)
             /\ KeysFree(p, o, e, v)
             /\ RecordOutcome(p, o, seen_event[e.id], checkpoint[p].max)
             /\ log' = log
    BY ConsumeEffect
  <1>2. ingestion_outcome' = ingestion_outcome \cup {OutcomeRow(p, o, v)}
    BY <1>1 DEF RecordOutcome
  <1>3. \A r : RowArrival(r)' = RowArrival(r)
    BY <1>1 DEF RowArrival, Arrival
  <1>4. /\ RowArrival(OutcomeRow(p, o, v)) = e
        /\ OutcomeRow(p, o, v).verdict = v
    BY <1>1 DEF RowArrival, OutcomeRow
  <1>5. e \in Unbindable => v \in {"DUPLICATE", "CONFLICT"}
    BY <1>1 DEF KeysFree, Binds
  <1>6. v \in {"DUPLICATE", "CONFLICT"} => e.valid
    BY <1>1, VerdictMeaning
  <1> QED
    BY <1>2, <1>3, <1>4, <1>5, <1>6 DEF UnbindableOutcomes

(* The arrival that took the identity is another one, for its own verdict is *)
(* that of an accepted arrival.                                              *)
LEMMA UnbindableStops ==
    ASSUME StoreTypeOK, Conservation, OneEffectPerIdentity, UnbindableOutcomes
    PROVE  UnbindableStopsPartition
  <1> SUFFICES ASSUME NEW p \in Partition, NEW o \in 0 .. checkpoint[p].last,
                      Arrival(p, o) \in Unbindable
               PROVE  LET taken == accepted_event[Arrival(p, o).id]
                      IN  /\ Arrival(p, o).valid
                          /\ taken # None
                          /\ <<taken.partition, taken.offset>> # <<p, o>>
    BY DEF UnbindableStopsPartition
  <1> DEFINE e == Arrival(p, o)
  <1>1. PICK r \in ingestion_outcome : r.partition = p /\ r.offset = o
    BY DEF Conservation, HasOutcome
  <1>2. RowArrival(r) = e /\ e.valid /\ r.verdict \in {"DUPLICATE", "CONFLICT"}
    BY <1>1 DEF RowArrival, UnbindableOutcomes
  <1>3. e \in Payload /\ Fingerprint(e) # None
    BY <1>2, RowArrivalType
  <1>4. seen_event[e.id] # None /\ e.id \in EventId
    BY <1>2, <1>3 DEF OneEffectPerIdentity, Payload, Accepting
  <1>5. accepted_event[e.id] # None
    BY <1>4 DEF OneEffectPerIdentity
  <1>6. PICK a \in ingestion_outcome :
           SameKey(a, accepted_event[e.id]) /\ a.verdict \in Accepting
    BY <1>4, <1>5 DEF OneEffectPerIdentity
  <1>7. a # r
    BY <1>2, <1>6 DEF Accepting
  <1>8. ~SameKey(r, a)
    BY <1>7 DEF Conservation
  <1> QED
    BY <1>1, <1>2, <1>5, <1>6, <1>8 DEF SameKey

-----------------------------------------------------------------------------
(* The invariant. *)

LEMMA StoreInitInv == StoreInit => StoreInv
  <1> SUFFICES ASSUME StoreInit PROVE StoreInv
    OBVIOUS
  <1> USE DEF StoreInit, EmptyTables
  <1>1. StoreTypeOK /\ CorrectionTypeOK({})
    BY LogsAssumption DEF StoreTypeOK, CorrectionTypeOK
  <1>2. Conservation
    BY <1>1 DEF Conservation, StoreTypeOK
  <1>3. OneEffectPerIdentity
    BY DEF OneEffectPerIdentity
  <1>4. MaxIsPrefixMax
    BY DEF MaxIsPrefixMax
  <1>5. LatenessIsReplayable
    BY DEF LatenessIsReplayable
  <1>6. CorrectionsMatchLate
    BY DEF CorrectionsMatchLate
  <1>7. UnbindableOutcomes
    BY DEF UnbindableOutcomes
  <1> QED
    BY <1>1, <1>2, <1>3, <1>4, <1>5, <1>6, <1>7 DEF StoreInv

LEMMA ConsumeInv ==
    ASSUME StoreInv, NEW p \in Partition, Consume(p)
    PROVE  StoreInv'
  <1> USE DEF StoreInv
  <1> QED
    BY ConsumeType, ConsumeConservation, ConsumeOneEffect, ConsumeMax,
       ConsumeLateness, ConsumeCorrections, ConsumeUnbindable, NoneAssumption

LEMMA StoreStutterInv ==
    ASSUME StoreInv, UNCHANGED storeVars
    PROVE  StoreInv'
  <1> USE DEF storeVars, tables
  <1>1. /\ \A q, k : Arrival(q, k)' = Arrival(q, k) /\ HasOutcome(q, k)' = HasOutcome(q, k)
        /\ \A r : RowArrival(r)' = RowArrival(r)
    BY DEF Arrival, HasOutcome, RowArrival
  <1>2. (StoreTypeOK /\ CorrectionTypeOK({}))'
    BY DEF StoreInv, StoreTypeOK, CorrectionTypeOK
  <1>3. Conservation'
    BY <1>1 DEF StoreInv, Conservation
  <1>4. OneEffectPerIdentity'
    BY <1>1 DEF StoreInv, OneEffectPerIdentity
  <1>5. MaxIsPrefixMax'
    BY <1>1 DEF StoreInv, MaxIsPrefixMax
  <1>6. LatenessIsReplayable'
    BY <1>1 DEF StoreInv, LatenessIsReplayable, Overtaken
  <1>7. CorrectionsMatchLate'
    BY DEF StoreInv, CorrectionsMatchLate
  <1>8. UnbindableOutcomes'
    BY <1>1 DEF StoreInv, UnbindableOutcomes
  <1> QED
    BY <1>2, <1>3, <1>4, <1>5, <1>6, <1>7, <1>8 DEF StoreInv

(* Every state of the atomic store satisfies the invariant, whatever the     *)
(* arrivals, and so each promise of process_envelopes that it contains.      *)
THEOREM StoreCorrect == StoreSpec => []StoreInv
  <1>1. StoreInv /\ [StoreNext]_storeVars => StoreInv'
    BY ConsumeInv, StoreStutterInv DEF StoreNext
  <1> QED
    BY <1>1, StoreInitInv, PTL DEF StoreSpec
=============================================================================
