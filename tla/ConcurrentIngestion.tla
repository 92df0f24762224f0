------------------------- MODULE ConcurrentIngestion -------------------------
(***************************************************************************)
(* PulseStore.process_envelopes as it runs: each call opens a connection   *)
(* per envelope, reads the outcome and checkpoint rows, classifies the     *)
(* payload against the identity row it reads, and only then writes.        *)
(* sqlite3 opens a transaction at the first INSERT, so the three SELECTs   *)
(* are outside it and everything written from the first INSERT to          *)
(* connection.commit() appears at once or not at all.                      *)
(*                                                                         *)
(* Workers are processes running the call on the same database file, over  *)
(* overlapping feeds if the configuration says so.  A worker may die       *)
(* between any two statements; a call that ended, however it ended, may be *)
(* made again with the same envelopes, which is what evidence.run_evidence *)
(* does after its injected crash.                                          *)
(***************************************************************************)
EXTENDS EventStore

CONSTANTS
    Worker,     \* processes running process_envelopes
    Feeds,      \* the envelope sequences considered, one per worker
    MaxCrashes  \* bound on process deaths (model bound, not in the code)

ASSUME FeedsAssumption == Feeds \subseteq [Worker -> Seq(Partition \X Nat)]
ASSUME MaxCrashesAssumption == MaxCrashes \in Nat

VARIABLES
    feed,    \* feed[w] is the envelopes argument of w's calls
    worker,  \* worker[w]: where w is in the loop and the rows it has read
    crashes  \* process deaths so far

vars == <<storeVars, feed, worker, crashes>>

\* pc of a running call: the statement w executes next; "down" after an
\* exception or a crash, "returned" after the loop.
Running == {"existing", "checkpoint", "identity", "write"}
Errors == {"partition_gap", "integrity", "crash"}

Call == [pc |-> "existing", pos |-> 1, max |-> None, found |-> None, error |-> None]

Envelope(w) == feed[w][worker[w].pos]
EnvPartition(w) == Envelope(w)[1]
EnvOffset(w) == Envelope(w)[2]
Payloads(w) == Arrival(EnvPartition(w), EnvOffset(w))

(* Every envelope carries the payload its partition has at that offset. *)
FeedOf(l, f) ==
    \A w \in Worker : \A i \in DOMAIN f[w] :
        f[w][i][2] \in 0 .. (Len(l[f[w][i][1]]) - 1)

Init ==
    /\ StoreInit
    /\ feed \in {f \in Feeds : FeedOf(log, f)}
    /\ worker = [w \in Worker |-> Call]
    /\ crashes = 0

-----------------------------------------------------------------------------
(* One loop iteration, statement by statement. *)

Becomes(w, call) == worker' = [worker EXCEPT ![w] = call]
Goto(w, pc) == Becomes(w, [worker[w] EXCEPT !.pc = pc])
KeepReads(w) == Becomes(w, [worker[w] EXCEPT !.pos = worker[w].pos + 1])
NextEnvelope(w) == Becomes(w, [Call EXCEPT !.pos = worker[w].pos + 1])
Fail(w, error) == Becomes(w, [worker[w] EXCEPT !.pc = "down", !.error = error])

(* SELECT 1 FROM ingestion_outcome: an arrival that has an outcome is skipped. *)
SelectExisting(w) ==
    /\ worker[w].pc = "existing"
    /\ worker[w].pos \in DOMAIN feed[w]
    /\ \/ HasOutcome(EnvPartition(w), EnvOffset(w)) /\ NextEnvelope(w)
       \/ ~HasOutcome(EnvPartition(w), EnvOffset(w)) /\ Goto(w, "checkpoint")
    /\ UNCHANGED <<storeVars, feed, crashes>>

(* The for loop is exhausted. *)
Return(w) ==
    /\ worker[w].pc = "existing"
    /\ worker[w].pos \notin DOMAIN feed[w]
    /\ Goto(w, "returned")
    /\ UNCHANGED <<storeVars, feed, crashes>>

(* SELECT last_offset, max_event_time FROM checkpoint, then the gap test. *)
NoGapAbove(p, o) == o >= Expected(p)
AtLastOffset(p, o) == o = checkpoint[p].last
Contiguous(p, o) == o = Expected(p)
SelectCheckpoint(w) ==
    /\ worker[w].pc = "checkpoint"
    /\ IF Contiguous(EnvPartition(w), EnvOffset(w))
       THEN Becomes(w, [worker[w] EXCEPT !.pc = "identity",
                                         !.max = checkpoint[EnvPartition(w)].max])
       ELSE Fail(w, "partition_gap")
    /\ UNCHANGED <<storeVars, feed, crashes>>

(* SELECT identity_sha256 FROM seen_event, for a payload that passed the     *)
(* contract; _process_one returns before it for one that did not.            *)
SelectIdentity(w) ==
    /\ worker[w].pc = "identity"
    /\ Becomes(w, [worker[w] EXCEPT
           !.pc = "write",
           !.found = IF Payloads(w).valid THEN seen_event[Payloads(w).id] ELSE None])
    /\ UNCHANGED <<storeVars, feed, crashes>>

(* The INSERTs, the checkpoint upsert and commit(), decided by the rows read *)
(* earlier.  A primary key taken meanwhile raises IntegrityError, a value    *)
(* that cannot be bound raises too, and closing the connection rolls         *)
(* everything back.                                                          *)
WriteKeysFree(w) ==
    LET p == EnvPartition(w)
        o == EnvOffset(w)
    IN  KeysFree(p, o, Arrival(p, o),
                 Verdict(Arrival(p, o), worker[w].found, worker[w].max))

Commit(w) ==
    /\ worker[w].pc = "write"
    /\ RecordOutcome(EnvPartition(w), EnvOffset(w), worker[w].found, worker[w].max)
    /\ NextEnvelope(w)
    /\ UNCHANGED <<log, feed, crashes>>

RollBack(w) ==
    /\ worker[w].pc = "write"
    /\ ~WriteKeysFree(w)
    /\ Fail(w, "integrity")
    /\ UNCHANGED <<storeVars, feed, crashes>>

-----------------------------------------------------------------------------
(* Failure and retry of the whole call. *)

(* The process dies, or fail_after_commits raises; an open transaction is lost. *)
Crash(w) ==
    /\ worker[w].pc \in Running
    /\ crashes < MaxCrashes
    /\ crashes' = crashes + 1
    /\ Fail(w, "crash")
    /\ UNCHANGED <<storeVars, feed>>

(* process_envelopes is called again from the first envelope. *)
CallAgain(w) ==
    /\ worker[w].pc \in {"down", "returned"}
    /\ Becomes(w, Call)
    /\ UNCHANGED <<storeVars, feed, crashes>>

Step(w) ==
    \/ SelectExisting(w)
    \/ Return(w)
    \/ SelectCheckpoint(w)
    \/ SelectIdentity(w)
    \/ Commit(w)
    \/ RollBack(w)

Next == \E w \in Worker : Step(w) \/ Crash(w) \/ CallAgain(w)

Spec == Init /\ [][Next]_vars

(* A running call proceeds, and a call that raised is made again.  Nothing   *)
(* makes a process crash, or repeats a call that returned.                   *)
Retry(w) == worker[w].pc = "down" /\ CallAgain(w)
FairSpec == Spec /\ \A w \in Worker : WF_vars(Step(w)) /\ WF_vars(Retry(w))

-----------------------------------------------------------------------------
(* The tables and each call's local variables hold what the code puts there. *)
WorkerStates ==
    [pc : Running \cup {"down", "returned"}, pos : Nat \ {0},
     max : Nat \cup {None}, found : (EventId \X Nat \X Body) \cup {None},
     error : Errors \cup {None}]

AtEnvelope(c) ==
    c.pc \in Running \ {"existing"} \/ (c.pc = "down" /\ c.error # "crash")

TypeOK ==
    /\ StoreTypeOK /\ CorrectionTypeOK({})
    /\ feed \in [Worker -> Seq(Partition \X Nat)] /\ FeedOf(log, feed)
    /\ worker \in [Worker -> WorkerStates]
    /\ \A w \in Worker : AtEnvelope(worker[w]) => worker[w].pos \in DOMAIN feed[w]
    /\ crashes \in 0 .. MaxCrashes

(* The feed names the arrivals of each partition in offset order without     *)
(* gaps, the order load_envelopes gives them.                                *)
InOrder(f) ==
    \A i \in DOMAIN f : f[i][2] > 0 =>
        \E j \in 1 .. (i - 1) : f[j] = <<f[i][1], f[i][2] - 1>>

(* A call over an in-order feed fails, other than by a crash, only where     *)
(* another worker already did the work: the arrival it stopped at has its    *)
(* outcome, or its identity is taken; or where the arrival cannot be stored. *)
(* So a partition_gap or IntegrityError never stands for a lost arrival,     *)
(* although the outcome and checkpoint rows it compares were read at         *)
(* different moments.                                                        *)
FailureHasAWinner ==
    \A w \in Worker :
        worker[w].pc = "down" /\ worker[w].error # "crash" /\ InOrder(feed[w]) =>
            \/ HasOutcome(EnvPartition(w), EnvOffset(w))
            \/ /\ worker[w].error = "integrity"
               /\ seen_event[Payloads(w).id] # None \/ Payloads(w) \in Unbindable

(* Why the split reads are harmless: what a call read about its arrival is   *)
(* still what the tables say when it writes, unless the arrival has been     *)
(* recorded meanwhile, and then the primary key refuses the write.           *)
ReadsHold ==
    \A w \in Worker :
        /\ worker[w].pc \in {"identity", "write"} =>
              \/ HasOutcome(EnvPartition(w), EnvOffset(w))
              \/ /\ Contiguous(EnvPartition(w), EnvOffset(w))
                 /\ worker[w].max = checkpoint[EnvPartition(w)].max
        /\ worker[w].pc = "write" /\ Payloads(w).valid /\ worker[w].found # None =>
              seen_event[Payloads(w).id] = worker[w].found

(* The tables change as if every arrival were consumed in one atomic step:   *)
(* the split reads of process_envelopes are invisible in what it commits.    *)
ConsumesAtomically == StoreSpec

(* Restarting after every failure settles every arrival that some worker is  *)
(* fed ("resumes from durable checkpoints", OPERATIONS.md:51-52), but for    *)
(* those behind an arrival that cannot be stored in every feed: the call     *)
(* stops there each time, in all partitions that follow.                     *)
Reachable(w, i) ==
    \A j \in 1 .. i : Arrival(feed[w][j][1], feed[w][j][2]) \notin Unbindable
AllSettled ==
    \A w \in Worker : \A i \in DOMAIN feed[w] :
        Reachable(w, i) => HasOutcome(feed[w][i][1], feed[w][i][2])
EventuallySettled == (\A w \in Worker : InOrder(feed[w])) => <>[]AllSettled
=============================================================================
