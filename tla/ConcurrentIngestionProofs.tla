----------------------- MODULE ConcurrentIngestionProofs -----------------------
(***************************************************************************)
(* Proof that concurrent, crashing and repeated calls of process_envelopes *)
(* implement the atomic store, for every set of workers, every feed and    *)
(* every number of crashes.                                                *)
(***************************************************************************)
EXTENDS ConcurrentIngestion, EventStoreProofs

(* A call has settled every envelope before the one it is at.               *)
CallProgress ==
    \A w \in Worker : \A i \in DOMAIN feed[w] :
        i < worker[w].pos => HasOutcome(feed[w][i][1], feed[w][i][2])

(* ReadsHold makes a successful Commit equal to Consume; CallProgress shows  *)
(* that a gap in an in-order feed is somebody else's progress.               *)
IInv ==
    /\ TypeOK
    /\ StoreInv
    /\ ReadsHold
    /\ CallProgress
    /\ FailureHasAWinner

-----------------------------------------------------------------------------
(* An envelope in hand is an arrival of the log. *)
LEMMA EnvelopeType ==
    ASSUME TypeOK, NEW w \in Worker, worker[w].pos \in DOMAIN feed[w]
    PROVE  /\ EnvPartition(w) \in Partition
           /\ EnvOffset(w) \in Nat
           /\ EnvOffset(w) < Len(log[EnvPartition(w)])
           /\ Payloads(w) \in Payload
  <1>1. feed[w] \in Seq(Partition \X Nat)
    BY DEF TypeOK
  <1>2. Envelope(w) \in Partition \X Nat
    BY <1>1 DEF Envelope
  <1>3. EnvPartition(w) \in Partition /\ EnvOffset(w) \in Nat
    BY <1>2 DEF EnvPartition, EnvOffset
  <1>4. EnvOffset(w) \in 0 .. (Len(log[EnvPartition(w)]) - 1)
    <2>1. FeedOf(log, feed)
      BY DEF TypeOK
    <2> QED
      BY <2>1 DEF FeedOf, EnvPartition, EnvOffset, Envelope
  <1>5. StoreTypeOK /\ Len(log[EnvPartition(w)]) \in Nat
    BY <1>3 DEF TypeOK, StoreTypeOK
  <1>6. EnvOffset(w) < Len(log[EnvPartition(w)])
    BY <1>4, <1>5
  <1>7. Arrival(EnvPartition(w), EnvOffset(w)) \in Payload
    BY <1>3, <1>5, <1>6, ArrivalType
  <1> QED
    BY <1>3, <1>6, <1>7 DEF Payloads

(* A successful commit is the atomic step of its partition. *)
LEMMA CommitConsumes ==
    ASSUME TypeOK, StoreInv, ReadsHold, NEW w \in Worker, Commit(w)
    PROVE  Consume(EnvPartition(w))
  <1> DEFINE p == EnvPartition(w)
             o == EnvOffset(w)
             e == Arrival(p, o)
             old == worker[w]
  <1>1. worker[w].pc = "write" /\ worker[w].pos \in DOMAIN feed[w]
    BY DEF Commit, TypeOK, Running, AtEnvelope
  <1>2. /\ p \in Partition /\ o \in Nat /\ o < Len(log[p])
        /\ e \in Payload
    BY <1>1, EnvelopeType DEF Payloads
  <1>3. /\ RecordOutcome(p, o, old.found, old.max)
        /\ KeysFree(p, o, e, Verdict(e, old.found, old.max))
        /\ log' = log
    BY DEF Commit, RecordOutcome
  <1>4. o = Expected(p) /\ old.max = checkpoint[p].max
    BY <1>1, <1>3 DEF KeysFree, ReadsHold, Contiguous
  <1>5. e.valid => old.found = seen_event[e.id]
    <2>1. CASE old.found # None
      BY <1>1, <2>1 DEF ReadsHold, Payloads
    <2>2. CASE e.valid /\ old.found = None
      <3>1. Verdict(e, old.found, old.max) \in Accepting
        BY <1>2, <2>2, VerdictMeaning DEF Accepting
      <3> QED
        BY <1>3, <2>2, <3>1 DEF KeysFree
    <2> QED
      BY <2>1, <2>2
  <1>6. Verdict(e, old.found, old.max) = Verdict(e, seen_event[e.id], old.max)
    BY <1>2, <1>5 DEF Verdict, Payload
  <1>7. RecordOutcome(p, o, seen_event[e.id], checkpoint[p].max)
    BY <1>3, <1>4, <1>6 DEF RecordOutcome
  <1>8. HasArrival(p, o)
    BY <1>2 DEF HasArrival, StoreInv, StoreTypeOK
  <1> QED
    BY <1>3, <1>4, <1>7, <1>8 DEF Consume

(* Every step of the workers is a step of the atomic store or leaves it be. *)
LEMMA StepRefines ==
    ASSUME TypeOK, StoreInv, ReadsHold, [Next]_vars
    PROVE  [StoreNext]_storeVars
  <1>1. ASSUME NEW w \in Worker, Commit(w) PROVE StoreNext
    <2>1. worker[w].pos \in DOMAIN feed[w]
      BY <1>1 DEF Commit, TypeOK, Running, AtEnvelope
    <2> QED
      BY <1>1, <2>1, CommitConsumes, EnvelopeType DEF StoreNext
  <1>2. ASSUME NEW w \in Worker, ~Commit(w), Step(w) \/ Crash(w) \/ CallAgain(w)
        PROVE  UNCHANGED storeVars
    BY <1>2 DEF Step, SelectExisting, Return, SelectCheckpoint, SelectIdentity,
                RollBack, Crash, CallAgain
  <1>3. CASE UNCHANGED vars
    BY <1>3 DEF vars
  <1> QED
    BY <1>1, <1>2, <1>3 DEF Next
-----------------------------------------------------------------------------
(* How the tables may move under a call that has read them. *)
LEMMA StoreMonotone ==
    ASSUME StoreInv, [StoreNext]_storeVars
    PROVE  /\ log' = log
           /\ \A p, o : HasOutcome(p, o) => HasOutcome(p, o)'
           /\ \A i \in EventId : seen_event[i] # None => seen_event'[i] = seen_event[i]
           /\ \A p \in Partition :
                 \/ checkpoint'[p] = checkpoint[p]
                 \/ \E o : o = Expected(p) /\ HasOutcome(p, o)'
           /\ \A p \in Partition : checkpoint[p].last \in Nat \cup {-1}
  <1>1. ASSUME NEW q \in Partition, Consume(q)
        PROVE  /\ log' = log
               /\ \A p, o : HasOutcome(p, o) => HasOutcome(p, o)'
               /\ \A i \in EventId : seen_event[i] # None => seen_event'[i] = seen_event[i]
               /\ \A p \in Partition :
                     \/ checkpoint'[p] = checkpoint[p]
                     \/ \E o : o = Expected(p) /\ HasOutcome(p, o)'
    <2>1. PICK o \in Nat, e \in Payload, v \in Verdicts :
             /\ o = checkpoint[q].last + 1
             /\ o < Len(log[q])
             /\ e = Arrival(q, o)
             /\ v = Verdict(e, seen_event[e.id], checkpoint[q].max)
             /\ KeysFree(q, o, e, v)
             /\ RecordOutcome(q, o, seen_event[e.id], checkpoint[q].max)
             /\ log' = log
      BY <1>1, ConsumeEffect DEF StoreInv
    <2>2. OutcomeRow(q, o, v).partition = q /\ OutcomeRow(q, o, v).offset = o
      BY DEF OutcomeRow
    <2>3. ingestion_outcome' = ingestion_outcome \cup {OutcomeRow(q, o, v)}
      BY <2>1 DEF RecordOutcome
    <2>4. \A p, k : HasOutcome(p, k) => HasOutcome(p, k)'
      BY <2>3 DEF HasOutcome
    <2>5. HasOutcome(q, o)'
      BY <2>2, <2>3 DEF HasOutcome
    <2>6. \A i \in EventId : seen_event[i] # None => seen_event'[i] = seen_event[i]
      BY <2>1 DEF RecordOutcome, KeysFree, StoreInv, StoreTypeOK
    <2>7. \A p \in Partition : p # q => checkpoint'[p] = checkpoint[p]
      BY <2>1 DEF RecordOutcome, StoreInv, StoreTypeOK
    <2> QED
      BY <2>1, <2>4, <2>5, <2>6, <2>7 DEF Expected
  <1>2. \A p \in Partition : checkpoint[p].last \in Nat \cup {-1}
    BY DEF StoreInv, StoreTypeOK
  <1>3. CASE UNCHANGED storeVars
    BY <1>2, <1>3 DEF storeVars, tables, HasOutcome
  <1> QED
    BY <1>1, <1>2, <1>3 DEF StoreNext

LEMMA StepStoreInv ==
    ASSUME TypeOK, StoreInv, ReadsHold, [Next]_vars
    PROVE  StoreInv'
  BY StepRefines, ConsumeInv, StoreStutterInv DEF StoreNext

LEMMA StepType ==
    ASSUME TypeOK, StoreInv, ReadsHold, [Next]_vars
    PROVE  TypeOK'
  <1>1. (StoreTypeOK /\ CorrectionTypeOK({}))'
    BY StepStoreInv DEF StoreInv
  <1>2. feed' = feed /\ log' = log
    BY StepRefines, StoreMonotone DEF vars, Next, Step, SelectExisting, Return,
       SelectCheckpoint, SelectIdentity, Commit, RollBack, Crash, CallAgain
  <1>3. (feed \in [Worker -> Seq(Partition \X Nat)] /\ FeedOf(log, feed))'
    BY <1>2 DEF TypeOK, FeedOf
  <1> DEFINE Placed(w) == AtEnvelope(worker[w]) => worker[w].pos \in DOMAIN feed[w]
  <1>4. ASSUME NEW w \in Worker, Step(w) \/ Crash(w) \/ CallAgain(w)
        PROVE  /\ worker' \in [Worker -> WorkerStates]
               /\ \A x \in Worker : Placed(x)'
               /\ crashes' \in 0 .. MaxCrashes
    <2>1. /\ worker \in [Worker -> WorkerStates] /\ worker[w] \in WorkerStates
          /\ \A x \in Worker : Placed(x)
          /\ crashes \in 0 .. MaxCrashes
      BY DEF TypeOK
    <2>2. ASSUME NEW c \in WorkerStates, Becomes(w, c),
                 AtEnvelope(c) => c.pos \in DOMAIN feed[w]
          PROVE  /\ worker' \in [Worker -> WorkerStates]
                 /\ \A x \in Worker : Placed(x)'
      BY <1>2, <2>1, <2>2 DEF Becomes
    <2>3. /\ Call \in WorkerStates /\ Call.pc = "existing"
          /\ [Call EXCEPT !.pos = worker[w].pos + 1] \in WorkerStates
          /\ [Call EXCEPT !.pos = worker[w].pos + 1].pc = "existing"
      BY <2>1 DEF Call, WorkerStates, Running, Errors
    <2>4. ASSUME NEW pc \in Running \cup {"down", "returned"}
          PROVE  /\ [worker[w] EXCEPT !.pc = pc] \in WorkerStates
                 /\ [worker[w] EXCEPT !.pc = pc].pc = pc
                 /\ [worker[w] EXCEPT !.pc = pc].pos = worker[w].pos
      BY <2>1 DEF WorkerStates
    <2>5. ASSUME NEW error \in Errors
          PROVE  /\ [worker[w] EXCEPT !.pc = "down", !.error = error] \in WorkerStates
                 /\ [worker[w] EXCEPT !.pc = "down", !.error = error].error = error
                 /\ [worker[w] EXCEPT !.pc = "down", !.error = error].pc = "down"
                 /\ [worker[w] EXCEPT !.pc = "down", !.error = error].pos = worker[w].pos
      BY <2>1 DEF WorkerStates, Running
    <2>6. CASE SelectExisting(w)
      BY <2>1, <2>2, <2>3, <2>4, <2>6 DEF SelectExisting, NextEnvelope, Goto, Running, AtEnvelope
    <2>7. CASE Return(w)
      <3> DEFINE c == [worker[w] EXCEPT !.pc = "returned"]
      <3>1. c \in WorkerStates /\ c.pc = "returned"
        BY <2>4
      <3>2. ~AtEnvelope(c)
        BY <3>1 DEF AtEnvelope, Running
      <3> QED
        BY <2>1, <2>2, <2>7, <3>1, <3>2 DEF Return, Goto
    <2>8. CASE SelectCheckpoint(w)
      <3> DEFINE c == [worker[w] EXCEPT !.pc = "identity",
                                        !.max = checkpoint[EnvPartition(w)].max]
      <3>1. worker[w].pos \in DOMAIN feed[w]
        BY <2>1, <2>8 DEF SelectCheckpoint, Running, AtEnvelope
      <3>2. checkpoint[EnvPartition(w)].max \in Nat \cup {None}
        BY <3>1, EnvelopeType DEF TypeOK, StoreTypeOK
      <3>3. c \in WorkerStates /\ c.pos = worker[w].pos
        BY <2>1, <3>2 DEF WorkerStates, Running
      <3> QED
        BY <2>1, <2>2, <2>5, <2>8, <3>1, <3>3 DEF SelectCheckpoint, Fail, Running, Errors, AtEnvelope
    <2>9. CASE SelectIdentity(w)
      <3> DEFINE c == [worker[w] EXCEPT
                          !.pc = "write",
                          !.found = IF Payloads(w).valid THEN seen_event[Payloads(w).id]
                                                         ELSE None]
      <3>1. worker[w].pos \in DOMAIN feed[w]
        BY <2>1, <2>9 DEF SelectIdentity, Running, AtEnvelope
      <3>2. seen_event[Payloads(w).id] \in (EventId \X Nat \X Body) \cup {None}
        BY <3>1, EnvelopeType DEF TypeOK, StoreTypeOK, Payload
      <3>3. c \in WorkerStates /\ c.pos = worker[w].pos
        BY <2>1, <3>2 DEF WorkerStates, Running
      <3> QED
        BY <2>1, <2>2, <2>9, <3>1, <3>3 DEF SelectIdentity
    <2>10. CASE Commit(w)
      BY <2>1, <2>2, <2>3, <2>10 DEF Commit, NextEnvelope, Running, AtEnvelope
    <2>11. CASE RollBack(w)
      BY <2>1, <2>2, <2>5, <2>11 DEF RollBack, Fail, Running, Errors, AtEnvelope
    <2>12. CASE Crash(w)
      <3>1. crashes' \in 0 .. MaxCrashes
        BY <2>1, <2>12, MaxCrashesAssumption DEF Crash
      <3> QED
        BY <2>2, <2>5, <2>12, <3>1 DEF Crash, Fail, Running, Errors, AtEnvelope
    <2>13. CASE CallAgain(w)
      BY <2>1, <2>2, <2>3, <2>13 DEF CallAgain, Running, AtEnvelope
    <2> QED
      BY <1>4, <2>6, <2>7, <2>8, <2>9, <2>10, <2>11, <2>12, <2>13 DEF Step
  <1>5. CASE UNCHANGED vars
    BY <1>1, <1>3, <1>5 DEF vars, TypeOK
  <1> QED
    BY <1>1, <1>3, <1>4, <1>5 DEF Next, TypeOK
-----------------------------------------------------------------------------
(* The parts of the invariant that speak of calls. *)

LEMMA CallFrame ==
    ASSUME TypeOK, StoreInv, ReadsHold, [Next]_vars, NEW x \in Worker,
           worker'[x].pos = worker[x].pos
    PROVE  /\ Envelope(x)' = Envelope(x)
           /\ EnvPartition(x)' = EnvPartition(x) /\ EnvOffset(x)' = EnvOffset(x)
           /\ Payloads(x)' = Payloads(x)
  <1>1. feed' = feed /\ log' = log
    BY StepRefines, StoreMonotone DEF vars, Next, Step, SelectExisting, Return,
       SelectCheckpoint, SelectIdentity, Commit, RollBack, Crash, CallAgain
  <1> QED
    BY <1>1 DEF Envelope, EnvPartition, EnvOffset, Payloads, Arrival

LEMMA StepReadsHold ==
    ASSUME TypeOK, StoreInv, ReadsHold, [Next]_vars
    PROVE  ReadsHold'
  <1> DEFINE ReadsOf(x) ==
        /\ worker[x].pc \in {"identity", "write"} =>
              \/ HasOutcome(EnvPartition(x), EnvOffset(x))
              \/ /\ Contiguous(EnvPartition(x), EnvOffset(x))
                 /\ worker[x].max = checkpoint[EnvPartition(x)].max
        /\ worker[x].pc = "write" /\ Payloads(x).valid /\ worker[x].found # None =>
              seen_event[Payloads(x).id] = worker[x].found
  <1>1. \A x \in Worker : ReadsOf(x)
    BY DEF ReadsHold
  <1>2. worker \in [Worker -> WorkerStates]
           /\ \A x \in Worker : worker[x].pc \in Running \ {"existing"} =>
                                   worker[x].pos \in DOMAIN feed[x]
    BY DEF TypeOK, AtEnvelope
  <1>3. ASSUME NEW x \in Worker, worker'[x] = worker[x]
        PROVE  ReadsOf(x)'
    <2>1. CASE worker[x].pc \in {"identity", "write"}
      <3> DEFINE p == EnvPartition(x)
                 o == EnvOffset(x)
      <3>1. /\ p \in Partition /\ Payloads(x).id \in EventId
        BY <1>2, <2>1, EnvelopeType DEF Running, Payload
      <3>2. p' = p /\ o' = o /\ Payloads(x)' = Payloads(x)
        BY <1>3, CallFrame
      <3>3. \/ HasOutcome(p, o)
            \/ o = Expected(p) /\ worker[x].max = checkpoint[p].max
        BY <1>1, <2>1 DEF Contiguous
      <3>4. \/ HasOutcome(p, o)'
            \/ o = Expected(p)' /\ worker[x].max = checkpoint'[p].max
        BY <3>1, <3>2, <3>3, StepRefines, StoreMonotone DEF Expected
      <3>5. worker[x].pc = "write" /\ Payloads(x).valid /\ worker[x].found # None =>
               seen_event'[Payloads(x).id] = worker[x].found
        BY <1>1, <3>1, StepRefines, StoreMonotone
      <3> QED
        BY <1>3, <3>2, <3>4, <3>5 DEF Contiguous
    <2>2. CASE worker[x].pc \notin {"identity", "write"}
      BY <1>3, <2>2
    <2> QED
      BY <2>1, <2>2
  <1>4. ASSUME NEW w \in Worker, Step(w) \/ Crash(w) \/ CallAgain(w)
        PROVE  ReadsOf(w)' /\ \A x \in Worker : x # w => worker'[x] = worker[x]
    <2> DEFINE Others == \A x \in Worker : x # w => worker'[x] = worker[x]
    <2>1. ASSUME NEW c, Becomes(w, c) PROVE worker'[w] = c /\ Others
      BY <1>2, <2>1 DEF Becomes
    <2>2. ASSUME worker'[w].pc \notin {"identity", "write"}, NEW c, Becomes(w, c)
          PROVE  ReadsOf(w)' /\ Others
      BY <2>1, <2>2
    <2>3. ASSUME NEW pc \in {"existing", "checkpoint", "returned"}, Goto(w, pc)
          PROVE  ReadsOf(w)' /\ Others
      <3>1. worker'[w].pc = pc
        BY <1>2, <2>3 DEF Goto, Becomes, WorkerStates
      <3> QED
        BY <2>2, <2>3, <3>1 DEF Goto
    <2>4. ASSUME NEW error, Fail(w, error)
          PROVE  ReadsOf(w)' /\ Others
      <3>1. worker'[w].pc = "down"
        BY <1>2, <2>4 DEF Fail, Becomes, WorkerStates
      <3> QED
        BY <2>2, <2>4, <3>1 DEF Fail
    <2>5. ASSUME NextEnvelope(w) \/ Becomes(w, Call)
          PROVE  ReadsOf(w)' /\ Others
      <3>1. worker'[w].pc = "existing"
        BY <1>2, <2>5 DEF NextEnvelope, Becomes, Call
      <3> QED
        BY <2>2, <2>5, <3>1 DEF NextEnvelope
    <2>6. CASE SelectExisting(w) \/ Return(w) \/ Commit(w) \/ RollBack(w)
                  \/ Crash(w) \/ CallAgain(w)
      BY <2>3, <2>4, <2>5, <2>6
         DEF SelectExisting, Return, Commit, RollBack, Crash, CallAgain
    <2>7. CASE SelectCheckpoint(w)
      <3> DEFINE p == EnvPartition(w)
                 o == EnvOffset(w)
                 c == [worker[w] EXCEPT !.pc = "identity", !.max = checkpoint[p].max]
      <3>1. CASE ~Contiguous(p, o)
        BY <2>4, <2>7, <3>1 DEF SelectCheckpoint
      <3>2. CASE Contiguous(p, o)
        <4>1. c.pc = "identity" /\ c.max = checkpoint[p].max /\ c.pos = worker[w].pos
          BY <1>2 DEF WorkerStates
        <4>2. worker'[w] = c /\ Others
          BY <2>1, <2>7, <3>2 DEF SelectCheckpoint
        <4>3. checkpoint' = checkpoint
          BY <2>7 DEF SelectCheckpoint, storeVars, tables
        <4>4. p' = p /\ o' = o
          BY <4>1, <4>2, CallFrame
        <4>5. Contiguous(p, o)'
          BY <3>2, <4>3, <4>4 DEF Contiguous, Expected
        <4> QED
          BY <4>1, <4>2, <4>3, <4>4, <4>5
      <3> QED
        BY <3>1, <3>2
    <2>8. CASE SelectIdentity(w)
      <3> DEFINE p == EnvPartition(w)
                 o == EnvOffset(w)
                 found == IF Payloads(w).valid THEN seen_event[Payloads(w).id] ELSE None
                 c == [worker[w] EXCEPT !.pc = "write", !.found = found]
      <3>1. /\ c.pc = "write" /\ c.found = found
            /\ c.pos = worker[w].pos /\ c.max = worker[w].max
        BY <1>2 DEF WorkerStates
      <3>2. worker'[w] = c /\ Others
        BY <2>1, <2>8 DEF SelectIdentity
      <3>3. checkpoint' = checkpoint /\ seen_event' = seen_event
               /\ ingestion_outcome' = ingestion_outcome
        BY <2>8 DEF SelectIdentity, storeVars, tables
      <3>4. p' = p /\ o' = o /\ Payloads(w)' = Payloads(w)
        BY <3>1, <3>2, CallFrame
      <3>5. \/ HasOutcome(p, o)
            \/ Contiguous(p, o) /\ worker[w].max = checkpoint[p].max
        BY <1>1, <2>8 DEF SelectIdentity
      <3>6. \/ HasOutcome(p, o)'
            \/ Contiguous(p, o)' /\ worker[w].max = checkpoint'[p].max
        BY <3>3, <3>4, <3>5 DEF HasOutcome, Contiguous, Expected
      <3> QED
        BY <3>1, <3>2, <3>3, <3>4, <3>6
    <2> QED
      BY <1>4, <2>6, <2>7, <2>8 DEF Step
  <1>5. CASE UNCHANGED vars
    BY <1>3, <1>5 DEF vars, ReadsHold
  <1>6. CASE Next
    BY <1>3, <1>4, <1>6 DEF Next, ReadsHold
  <1> QED
    BY <1>5, <1>6
LEMMA StepCallProgress ==
    ASSUME TypeOK, StoreInv, ReadsHold, CallProgress, [Next]_vars
    PROVE  CallProgress'
  <1> DEFINE Settled(x, i) == HasOutcome(feed[x][i][1], feed[x][i][2])
  <1>1. /\ feed' = feed
        /\ \A x \in Worker : \A i : Settled(x, i) => Settled(x, i)'
    <2>1. feed' = feed
      BY DEF vars, Next, Step, SelectExisting, Return, SelectCheckpoint,
             SelectIdentity, Commit, RollBack, Crash, CallAgain
    <2> QED
      BY <2>1, StepRefines, StoreMonotone
  <1>2. \A x \in Worker : \A i \in DOMAIN feed[x] : i < worker[x].pos => Settled(x, i)
    BY DEF CallProgress
  <1>3. /\ worker \in [Worker -> WorkerStates]
        /\ \A x \in Worker : worker[x].pos \in Nat \ {0}
        /\ \A x \in Worker : DOMAIN feed[x] \subseteq Nat \ {0}
    BY DEF TypeOK, WorkerStates
  <1> HIDE DEF Settled
  <1>4. ASSUME NEW x \in Worker,
               \/ worker'[x].pos = worker[x].pos
               \/ worker'[x].pos = 1
               \/ \E j \in Nat : /\ j = worker[x].pos /\ worker'[x].pos = j + 1
                                 /\ Settled(x, j)'
        PROVE  \A i \in DOMAIN feed'[x] : i < worker'[x].pos => Settled(x, i)'
    <2> SUFFICES ASSUME NEW i \in DOMAIN feed[x], i < worker'[x].pos
                 PROVE  Settled(x, i)'
      BY <1>1
    <2>1. i \in Nat \ {0} /\ worker[x].pos \in Nat \ {0}
      BY <1>3
    <2>2. i < worker[x].pos \/ Settled(x, i)'
      BY <1>4, <2>1
    <2> QED
      BY <1>1, <1>2, <2>2
  <1>5. ASSUME NEW w \in Worker, Step(w) \/ Crash(w) \/ CallAgain(w)
        PROVE  /\ \A x \in Worker : x # w => worker'[x] = worker[x]
               /\ \/ worker'[w].pos = worker[w].pos
                  \/ worker'[w].pos = 1
                  \/ \E j \in Nat : /\ j = worker[w].pos /\ worker'[w].pos = j + 1
                                    /\ Settled(w, j)'
    <2> DEFINE n == worker[w].pos
    <2>1. CASE SelectExisting(w) /\ HasOutcome(EnvPartition(w), EnvOffset(w))
      <3>1. \E j \in Nat : j = n /\ Settled(w, j)'
        <4>1. Settled(w, n)
          BY <2>1 DEF Settled, EnvPartition, EnvOffset, Envelope
        <4> QED
          BY <1>1, <1>3, <4>1
      <3>2. CASE NextEnvelope(w)
        BY <1>3, <3>1, <3>2 DEF NextEnvelope, Becomes, Call
      <3> QED
        BY <2>1, <3>2 DEF SelectExisting
    <2>2. CASE SelectExisting(w) /\ ~HasOutcome(EnvPartition(w), EnvOffset(w))
      BY <1>3, <2>2 DEF SelectExisting, Goto, Becomes, WorkerStates
    <2>3. CASE Return(w)
      BY <1>3, <2>3 DEF Return, Goto, Becomes, WorkerStates
    <2>4. CASE SelectCheckpoint(w)
      <3>1. CASE Contiguous(EnvPartition(w), EnvOffset(w))
        <4>1. Becomes(w, [worker[w] EXCEPT !.pc = "identity",
                                           !.max = checkpoint[EnvPartition(w)].max])
          BY <2>4, <3>1 DEF SelectCheckpoint
        <4> QED
          BY <1>3, <4>1 DEF Becomes, WorkerStates
      <3>2. CASE ~Contiguous(EnvPartition(w), EnvOffset(w))
        <4>1. Fail(w, "partition_gap")
          BY <2>4, <3>2 DEF SelectCheckpoint
        <4> QED
          BY <1>3, <4>1 DEF Fail, Becomes, WorkerStates
      <3> QED
        BY <3>1, <3>2
    <2>5. CASE SelectIdentity(w)
      BY <1>3, <2>5 DEF SelectIdentity, Becomes, WorkerStates
    <2>6. CASE Commit(w)
      <3> DEFINE v == Verdict(Arrival(EnvPartition(w), EnvOffset(w)),
                              worker[w].found, worker[w].max)
                 row == OutcomeRow(EnvPartition(w), EnvOffset(w), v)
      <3>1. row.partition = EnvPartition(w) /\ row.offset = EnvOffset(w)
        BY DEF OutcomeRow
      <3>2. row \in ingestion_outcome'
        BY <2>6 DEF Commit, RecordOutcome
      <3>3. \E j \in Nat : j = n /\ Settled(w, j)'
        <4>1. /\ row.partition = feed'[w][n][1]
              /\ row.offset = feed'[w][n][2]
          BY <1>1, <3>1 DEF EnvPartition, EnvOffset, Envelope
        <4> HIDE DEF row
        <4>2. PICK j \in Nat : j = n
          BY <1>3
        <4>3. Settled(w, j)'
          BY <3>2, <4>1, <4>2 DEF HasOutcome, Settled
        <4> QED
          BY <4>2, <4>3
      <3> QED
        BY <1>3, <2>6, <3>3 DEF Commit, NextEnvelope, Becomes, Call
    <2>7. CASE RollBack(w) \/ Crash(w)
      <3>1. PICK error : Fail(w, error)
        BY <2>7 DEF RollBack, Crash
      <3> QED
        BY <1>3, <3>1 DEF Fail, Becomes, WorkerStates
    <2>8. CASE CallAgain(w)
      BY <1>3, <2>8 DEF CallAgain, Becomes, Call
    <2> QED
      BY <1>5, <2>1, <2>2, <2>3, <2>4, <2>5, <2>6, <2>7, <2>8 DEF Step
  <1>6. \A x \in Worker : \A i \in DOMAIN feed'[x] : i < worker'[x].pos => Settled(x, i)'
    <2>1. CASE UNCHANGED vars
      BY <1>4, <2>1 DEF vars
    <2>2. CASE Next
      BY <1>4, <1>5, <2>2 DEF Next
    <2> QED
      BY <2>1, <2>2
  <1> QED
    BY <1>6 DEF CallProgress, Settled
(* A gap seen over an in-order feed: the offset was passed, not skipped. *)
LEMMA GapMeansPassed ==
    ASSUME TypeOK, StoreInv, CallProgress, NEW w \in Worker,
           worker[w].pos \in DOMAIN feed[w], InOrder(feed[w]),
           ~Contiguous(EnvPartition(w), EnvOffset(w))
    PROVE  HasOutcome(EnvPartition(w), EnvOffset(w))
  <1> DEFINE p == EnvPartition(w)
             o == EnvOffset(w)
             last == checkpoint[p].last
  <1>1. p \in Partition /\ o \in Nat /\ last \in Nat \cup {-1}
    BY EnvelopeType DEF TypeOK, StoreTypeOK
  <1>2. o # last + 1
    BY DEF Contiguous, Expected
  <1>3. CASE o = 0
    BY <1>1, <1>2, <1>3 DEF StoreInv, Conservation
  <1>4. CASE o > 0
    <2>1. PICK j \in 1 .. (worker[w].pos - 1) : feed[w][j] = <<p, o - 1>>
      BY <1>4 DEF InOrder, EnvPartition, EnvOffset, Envelope
    <2>2. j \in DOMAIN feed[w] /\ j < worker[w].pos
      BY <2>1 DEF TypeOK
    <2>3. HasOutcome(p, o - 1)
      BY <2>1, <2>2 DEF CallProgress
    <2>4. o - 1 =< last
      BY <2>3 DEF HasOutcome, StoreInv, Conservation
    <2>5. o \in 0 .. last
      BY <1>1, <1>2, <2>4
    <2> QED
      BY <1>1, <2>5 DEF StoreInv, Conservation
  <1> QED
    BY <1>1, <1>3, <1>4

LEMMA StepFailureHasAWinner ==
    ASSUME IInv, [Next]_vars
    PROVE  FailureHasAWinner'
  <1> USE DEF IInv
  <1> DEFINE Taken(x) == \/ HasOutcome(EnvPartition(x), EnvOffset(x))
                         \/ /\ worker[x].error = "integrity"
                            /\ \/ seen_event[Payloads(x).id] # None
                               \/ Payloads(x) \in Unbindable
             Failed(x) == worker[x].pc = "down" /\ worker[x].error # "crash"
                             /\ InOrder(feed[x])
  <1>1. /\ feed' = feed
        /\ \A x \in Worker : Failed(x) => Taken(x) /\ worker[x].pos \in DOMAIN feed[x]
        /\ worker \in [Worker -> WorkerStates]
    <2>1. feed' = feed
      BY DEF vars, Next, Step, SelectExisting, Return, SelectCheckpoint,
             SelectIdentity, Commit, RollBack, Crash, CallAgain
    <2> QED
      BY <2>1 DEF FailureHasAWinner, TypeOK, AtEnvelope
  <1>2. ASSUME NEW x \in Worker, worker'[x] = worker[x], Failed(x)'
        PROVE  Taken(x)'
    <2>1. Failed(x)
      BY <1>1, <1>2
    <2>2. worker[x].pos \in DOMAIN feed[x] /\ Taken(x)
      BY <1>1, <2>1
    <2>3. Payloads(x).id \in EventId
      BY <2>2, EnvelopeType DEF Payload
    <2>4. /\ EnvPartition(x)' = EnvPartition(x) /\ EnvOffset(x)' = EnvOffset(x)
          /\ Payloads(x)' = Payloads(x)
      BY <1>2, CallFrame
    <2> QED
      BY <1>2, <2>2, <2>3, <2>4, StepRefines, StoreMonotone
  <1>3. ASSUME NEW w \in Worker, Step(w) \/ Crash(w) \/ CallAgain(w)
        PROVE  (Failed(w) => Taken(w))' /\ \A x \in Worker : x # w => worker'[x] = worker[x]
    <2> DEFINE Others == \A x \in Worker : x # w => worker'[x] = worker[x]
    <2>1. ASSUME NEW c, Becomes(w, c) PROVE worker'[w] = c /\ Others
      BY <1>1, <2>1 DEF Becomes
    <2>2. ASSUME NEW error \in Errors, Fail(w, error), worker[w].pos \in DOMAIN feed[w],
                 UNCHANGED storeVars,
                 InOrder(feed[w]) =>
                    \/ HasOutcome(EnvPartition(w), EnvOffset(w))
                    \/ /\ error = "integrity"
                       /\ \/ seen_event[Payloads(w).id] # None
                          \/ Payloads(w) \in Unbindable
          PROVE  (Failed(w) => Taken(w))' /\ Others
      <3>1. worker'[w].pos = worker[w].pos /\ worker'[w].error = error
        BY <1>1, <2>2 DEF Fail, Becomes, WorkerStates
      <3>2. /\ EnvPartition(w)' = EnvPartition(w) /\ EnvOffset(w)' = EnvOffset(w)
            /\ Payloads(w)' = Payloads(w)
        BY <3>1, CallFrame
      <3>3. HasOutcome(EnvPartition(w), EnvOffset(w))' = HasOutcome(EnvPartition(w), EnvOffset(w))
               /\ seen_event' = seen_event
        BY <2>2, <3>2 DEF HasOutcome, storeVars, tables
      <3> QED
        BY <1>1, <2>1, <2>2, <3>1, <3>2, <3>3 DEF Fail
    <2>3. ASSUME NEW c, Becomes(w, c), worker'[w].pc # "down"
          PROVE  (Failed(w) => Taken(w))' /\ Others
      BY <2>1, <2>3
    <2>4. CASE SelectExisting(w) \/ Return(w)
      <3>1. \E c : Becomes(w, c)
        BY <2>4 DEF SelectExisting, Return, NextEnvelope, Goto
      <3>2. worker'[w].pc # "down"
        BY <1>1, <2>4
           DEF SelectExisting, Return, NextEnvelope, Goto, Becomes, Call, WorkerStates
      <3> QED
        BY <2>3, <3>1, <3>2
    <2>5. CASE SelectCheckpoint(w)
      <3>1. worker[w].pos \in DOMAIN feed[w]
        BY <2>5 DEF SelectCheckpoint, TypeOK, AtEnvelope, Running
      <3>2. CASE Contiguous(EnvPartition(w), EnvOffset(w))
        <4>1. worker'[w].pc # "down"
          BY <1>1, <2>5, <3>2 DEF SelectCheckpoint, Becomes, WorkerStates
        <4> QED
          BY <2>3, <2>5, <3>2, <4>1 DEF SelectCheckpoint
      <3>3. CASE ~Contiguous(EnvPartition(w), EnvOffset(w))
        <4>1. InOrder(feed[w]) => HasOutcome(EnvPartition(w), EnvOffset(w))
          BY <3>1, <3>3, GapMeansPassed
        <4> QED
          <5>1. Fail(w, "partition_gap") /\ UNCHANGED storeVars
            BY <2>5, <3>3 DEF SelectCheckpoint
          <5> QED
            BY <2>2, <3>1, <4>1, <5>1 DEF Errors
      <3> QED
        BY <3>2, <3>3
    <2>6. CASE SelectIdentity(w)
      <3>1. worker'[w].pc # "down"
        BY <1>1, <2>6 DEF SelectIdentity, Becomes, WorkerStates
      <3> QED
        BY <2>3, <2>6, <3>1 DEF SelectIdentity
    <2>7. CASE Commit(w)
      <3>1. worker'[w].pc # "down"
        BY <1>1, <2>7 DEF Commit, NextEnvelope, Becomes, Call
      <3> QED
        BY <2>3, <2>7, <3>1 DEF Commit, NextEnvelope
    <2>8. CASE RollBack(w)
      <3>1. worker[w].pos \in DOMAIN feed[w]
        BY <2>8 DEF RollBack, TypeOK, AtEnvelope, Running
      <3>2. \/ HasOutcome(EnvPartition(w), EnvOffset(w))
            \/ seen_event[Payloads(w).id] # None
            \/ Payloads(w) \in Unbindable
        BY <2>8 DEF RollBack, WriteKeysFree, KeysFree, Binds, Payloads
      <3> QED
        <4>1. Fail(w, "integrity") /\ UNCHANGED storeVars
          BY <2>8 DEF RollBack
        <4> QED
          BY <2>2, <3>1, <3>2, <4>1 DEF Errors
    <2>9. CASE Crash(w)
      <3>1. worker'[w].error = "crash"
        BY <1>1, <2>9 DEF Crash, Fail, Becomes, WorkerStates
      <3> QED
        BY <2>1, <2>9, <3>1 DEF Crash, Fail
    <2>10. CASE CallAgain(w)
      <3>1. worker'[w].pc # "down"
        BY <1>1, <2>10 DEF CallAgain, Becomes, Call
      <3> QED
        BY <2>3, <2>10, <3>1 DEF CallAgain
    <2> QED
      BY <1>3, <2>4, <2>5, <2>6, <2>7, <2>8, <2>9, <2>10 DEF Step
  <1>4. \A x \in Worker : Failed(x)' => Taken(x)'
    <2>1. CASE UNCHANGED vars
      BY <1>2, <2>1 DEF vars
    <2>2. CASE Next
      BY <1>2, <1>3, <2>2 DEF Next
    <2> QED
      BY <2>1, <2>2
  <1> QED
    BY <1>4 DEF FailureHasAWinner

-----------------------------------------------------------------------------
LEMMA InitIInv == Init => IInv
  <1> SUFFICES ASSUME Init PROVE IInv
    OBVIOUS
  <1> USE DEF Init
  <1>1. StoreInv
    BY StoreInitInv
  <1>2. Call \in WorkerStates /\ Call.pc = "existing" /\ Call.pos = 1
    BY DEF Call, WorkerStates, Running, Errors
  <1>3. TypeOK
    BY <1>1, <1>2, FeedsAssumption, MaxCrashesAssumption
       DEF StoreInv, TypeOK, AtEnvelope, Running
  <1>4. ReadsHold /\ FailureHasAWinner
    BY <1>2 DEF ReadsHold, FailureHasAWinner
  <1>5. CallProgress
    BY <1>2, <1>3 DEF CallProgress, TypeOK
  <1> QED
    BY <1>1, <1>3, <1>4, <1>5 DEF IInv

LEMMA StepIInv == IInv /\ [Next]_vars => IInv'
  BY StepType, StepStoreInv, StepReadsHold, StepCallProgress, StepFailureHasAWinner
     DEF IInv

(* Types, table promises and call promises hold in every reachable state,    *)
(* however many workers race, crash and repeat process_envelopes.            *)
THEOREM IngestionCorrect ==
    Spec => [](TypeOK /\ Conservation /\ OneEffectPerIdentity /\ LatenessIsReplayable
               /\ CorrectionsMatchLate /\ UnbindableStopsPartition
               /\ ReadsHold)
  <1>1. Spec => []IInv
    BY InitIInv, StepIInv, PTL DEF Spec
  <1>2. IInv => TypeOK /\ Conservation /\ OneEffectPerIdentity /\ LatenessIsReplayable
                  /\ CorrectionsMatchLate /\ UnbindableStopsPartition
                  /\ ReadsHold
    BY UnbindableStops DEF IInv, StoreInv
  <1> QED
    BY <1>1, <1>2, PTL

(* Tables, feeds and the local variables of every call keep their types      *)
(* (SCHEMA, process_envelopes).                                              *)
THEOREM IngestionTyped == Spec => []TypeOK
  BY IngestionCorrect, PTL

(* The arrivals with an outcome are those up to the checkpoints, one outcome *)
(* each (README.md:34), although two statements of several processes decide  *)
(* what a third one writes.                                                  *)
THEOREM IngestionConserves == Spec => []Conservation
  BY IngestionCorrect, PTL

(* An event_id has at most one accepted effect, and duplicates and conflicts *)
(* are judged against it (ARCHITECTURE.md:60-61), whichever process wins.    *)
THEOREM IngestionHasOneEffect == Spec => []OneEffectPerIdentity
  BY IngestionCorrect, PTL

(* Lateness is a function of the log (process_envelopes, _process_one): no   *)
(* race or crash over max_event_time changes it.                             *)
THEOREM LatenessDependsOnTheLog == Spec => []LatenessIsReplayable
  BY IngestionCorrect, PTL

(* No call, however often repeated, gets past an arrival that SQLite cannot  *)
(* store unless another arrival has taken its event_id (_process_one).       *)
THEOREM UnbindableBlocks == Spec => []UnbindableStopsPartition
  BY IngestionCorrect, PTL

(* A call over an in-order feed fails on its own accord only after losing    *)
(* the arrival, or its identity, to another worker, or at an arrival that    *)
(* cannot be stored.                                                         *)
THEOREM FailuresAreLostRaces == Spec => []FailureHasAWinner
  <1>1. Spec => []IInv
    BY InitIInv, StepIInv, PTL DEF Spec
  <1>2. IInv => FailureHasAWinner
    BY DEF IInv
  <1> QED
    BY <1>1, <1>2, PTL

(* process_envelopes, with its reads outside the transaction, implements the *)
(* store that consumes every arrival in one atomic step.                     *)
THEOREM IngestionRefinesStore == Spec => ConsumesAtomically
  <1>1. Init => StoreInit
    BY DEF Init
  <1>2. IInv /\ [Next]_vars => [StoreNext]_storeVars
    BY StepRefines DEF IInv
  <1>3. Spec => []IInv
    BY InitIInv, StepIInv, PTL DEF Spec
  <1> QED
    BY <1>1, <1>2, <1>3, PTL DEF Spec, ConsumesAtomically, StoreSpec
=============================================================================
