----------------------------- MODULE GenerationDag -----------------------------
(***************************************************************************)
(* The Airflow DAG pulsestream_generation (src/orchestration/dags/) over   *)
(* the handlers and tables of AwsPublication: build >> register >> publish *)
(* for one generation per run, one run at a time (max_active_runs=1), no   *)
(* task retries configured.                                                *)
(*                                                                         *)
(* A task waits for the answer of what it called, and may be wrong about   *)
(* it: an invocation can time out, its answer can get lost and the client  *)
(* library then invokes again, and a worker can die while the EMR job or   *)
(* the Lambda it started goes on.  Such leftovers of one run meet the      *)
(* next, which an operator may trigger for the same generation.            *)
(***************************************************************************)
EXTENDS AwsPublication

CONSTANTS
    MaxRuns,   \* bound on DAG runs (model bound)
    MaxFaults  \* bound on faults (model bound)

ASSUME DagBoundsAssumption ==
    MaxRuns \in Nat /\ MaxRuns =< MaxBuilds /\ MaxFaults \in Nat
ASSUME DagNoneAssumption == None \notin Caller \cup {"ok", "error"}

VARIABLES
    dag,    \* the latest run: its request, its task and the one before, what the
            \* task waits for; clean: no fault or leftover touched it; known:
            \* it found an item
    jobs,   \* EMR job runs that have not ended
    faults  \* faults so far

dagVars == <<dag, jobs, faults>>

Tasks == {"build", "register", "publish"}
Ended == {"none", "success", "failed"}

NoRun == [run |-> 0, request |-> None, task |-> "none", from |-> "none",
          caller |-> None, answer |-> None, clean |-> FALSE, known |-> FALSE]

DagInit == Init /\ dag = NoRun /\ jobs = {} /\ faults = 0

Quiet == jobs = {} /\ \A c \in Caller : call[c].pc = "idle"

(* The run moves on from its task; nothing is awaited any more. *)
MoveTo(task) ==
    dag' = [dag EXCEPT !.task = task, !.from = dag.task, !.caller = None, !.answer = None]

AnswersSuccess(c, answer) ==
    dag' = IF dag.caller = c /\ answer = "ok" THEN [dag EXCEPT !.answer = answer] ELSE dag
(* The handler in slot c ends; the task waiting for it gets its answer. *)
Answers(c, answer) ==
    dag' = IF dag.caller = c THEN [dag EXCEPT !.answer = answer] ELSE dag

Fault ==
    /\ faults < MaxFaults
    /\ faults' = faults + 1

-----------------------------------------------------------------------------
(* Runs.  An operator fills in the parameters.                               *)

Trigger(r) ==
    /\ dag.task \in Ended
    /\ dag.run < MaxRuns
    /\ dag' = [NoRun EXCEPT !.run = dag.run + 1, !.request = r, !.task = "build",
                            !.clean = Quiet, !.known = item[r.gid] # None]
    /\ jobs' = jobs \cup {[run |-> dag.run + 1, request |-> r]}
    /\ UNCHANGED <<vars, faults>>

-----------------------------------------------------------------------------
(* build_candidate_bundle, wait_for_completion=True.                         *)

Awaited(j) == dag.task = "build" /\ dag.run = j.run

JobCompletes(j) ==
    /\ WriteManifest(j.request)
    /\ jobs' = jobs \ {j}
    /\ IF Awaited(j) THEN MoveTo("register") ELSE UNCHANGED dag
    /\ UNCHANGED faults

(* The job refuses the request: the source manifest, a REPLAY without parent,
   a parent that cannot be read, a gap behind its frontier, or the output. *)
JobRaises(j) ==
    /\ ~JobAccepts(j.request)
    /\ jobs' = jobs \ {j}
    /\ IF Awaited(j) THEN MoveTo("failed") ELSE UNCHANGED dag
    /\ UNCHANGED <<vars, faults>>

(* The job dies of what is outside the tables: executors lost, a commit
   conflict, snapshots that maintenance has expired. *)
JobDies(j) ==
    /\ Fault
    /\ jobs' = jobs \ {j}
    /\ dag' = IF Awaited(j) THEN [dag EXCEPT !.task = "failed", !.from = "build",
                                                !.clean = FALSE]
                            ELSE dag
    /\ UNCHANGED vars

-----------------------------------------------------------------------------
(* register_candidate and compare_and_swap_publication: invoke the function, *)
(* wait for its answer, go on or fail.                                       *)

Invoke(c) ==
    /\ dag.caller = None
    /\ \/ dag.task = "register" /\ ReadManifest(c, dag.request)
       \/ dag.task = "publish" /\ ReadCandidate(c, dag.request.gid)
    /\ dag' = [dag EXCEPT !.caller = c]
    /\ UNCHANGED <<jobs, faults>>

(* The register handler raises before it writes: the bucket is not approved, or
   the object is missing or another generation's or mode's by now. *)
TurnAway(c) ==
    /\ dag.caller = None
    /\ dag.task = "register" /\ ~Registrable(dag.request)
    /\ call[c].pc = "idle"
    /\ dag' = [dag EXCEPT !.caller = c, !.answer = "error"]
    /\ UNCHANGED <<vars, jobs, faults>>

Register(c) ==
    /\ PutItem(c)
    /\ Answers(c, IF item' # item THEN "ok" ELSE "error")
    /\ UNCHANGED <<jobs, faults>>

LookUp(c) ==
    /\ ReadPointer(c)
    /\ IF CandidateFound(c) THEN UNCHANGED dag ELSE Answers(c, "error")
    /\ UNCHANGED <<jobs, faults>>

Swap(c) ==
    /\ Transact(c)
    /\ Answers(c, "ok")
    /\ UNCHANGED <<jobs, faults>>

Refuse(c) ==
    /\ call[c].pc = "transact" /\ Cancelled(c)
    /\ GiveUp(c)
    /\ Answers(c, "error")
    /\ UNCHANGED <<jobs, faults>>

Following(task) == IF task = "register" THEN "publish" ELSE "success"
AnswerIgnored(task) == Following(task)
AfterAnswer(task) == IF dag.answer = "ok" THEN Following(task) ELSE "failed"
Receive ==
    /\ dag.answer # None
    /\ MoveTo(AfterAnswer(dag.task))
    /\ UNCHANGED <<vars, jobs, faults>>

-----------------------------------------------------------------------------
(* Faults.                                                                   *)

(* The invocation is cut off; the service reports a function error. *)
TimesOut(c) ==
    /\ Fault
    /\ GiveUp(c)
    /\ dag' = IF dag.caller = c
              THEN [dag EXCEPT !.answer = "error", !.clean = FALSE] ELSE dag
    /\ UNCHANGED jobs

(* The connection breaks, before or after the handler has ended, and the
   client library invokes once more. *)
AnswerLost ==
    /\ Fault
    /\ dag.caller # None
    /\ dag' = [dag EXCEPT !.caller = None, !.answer = None, !.clean = FALSE]
    /\ UNCHANGED <<vars, jobs>>

(* The worker that runs the task is gone; what it started is not. *)
TaskLost ==
    /\ Fault
    /\ dag.task \in Tasks
    /\ dag' = [dag EXCEPT !.task = "failed", !.from = dag.task, !.caller = None,
                          !.answer = None, !.clean = FALSE]
    /\ UNCHANGED <<vars, jobs>>

-----------------------------------------------------------------------------
JobEnds(j) == JobCompletes(j) \/ JobRaises(j)
Handles(c) == Register(c) \/ LookUp(c) \/ Swap(c) \/ Refuse(c)

DagNext ==
    \/ \E r \in Requests : Trigger(r)
    \/ \E j \in jobs : JobEnds(j) \/ JobDies(j)
    \/ \E c \in Caller : Invoke(c) \/ TurnAway(c) \/ Handles(c) \/ TimesOut(c)
    \/ Receive
    \/ AnswerLost
    \/ TaskLost

DagSpec == DagInit /\ [][DagNext]_<<vars, dagVars>>

(* Jobs end, handlers run on, and the scheduler gives every task its turn;
   nobody has to trigger a run, and nothing has to go wrong. *)
DagFairSpec ==
    /\ DagSpec
    /\ WF_<<vars, dagVars>>(\E j \in jobs : JobEnds(j))
    /\ \A c \in Caller : WF_<<vars, dagVars>>(Handles(c))
    /\ WF_<<vars, dagVars>>((\E c \in Caller : Invoke(c) \/ TurnAway(c)) \/ Receive)

-----------------------------------------------------------------------------
(* A run waits only for a handler it invoked for its own generation, which
   may have been cut off but never serves anyone else. *)
Job == [run : 1 .. MaxRuns, request : Requests]
DagTypeOK ==
    /\ TypeOK
    /\ dag \in [run : 0 .. MaxRuns, request : Requests \cup {None},
                task : Tasks \cup Ended, from : Tasks \cup {"none"}, caller : Caller \cup {None},
                answer : {"ok", "error", None}, clean : BOOLEAN,
                known : BOOLEAN]
    /\ jobs \subseteq Job
    /\ faults \in 0 .. MaxFaults
    /\ dag.task # "none" => dag.request \in Requests
    /\ dag.answer # None => dag.caller # None
    /\ dag.caller # None /\ dag.answer = None =>
          /\ call[dag.caller].gid = dag.request.gid
          /\ call[dag.caller].pc \in
                IF dag.task = "register" THEN {"put"} ELSE {"pointer", "transact"}

(* A run reported as success has published its generation, whatever answers
   were lost and whatever an earlier run left behind. *)
SuccessIsPublished == dag.task = "success" => dag.request.gid \in Published

(* A run that no fault and no leftover touched fails only for a reason it
   meets in the tables, in the task that tests it.  build: the job refuses the
   request.  register: the bucket is not approved, registration_item cannot be
   sent, or an earlier run had registered the generation (attribute_not_exists);
   never because the object at the URI is not the one just built.  publish:
   the parent the candidate names is not active. *)
Reason(r, task) ==
    \/ task = "build" /\ ~JobAccepts(r)
    \/ task = "register" /\ r.output \notin Approved
    \/ /\ task = "register" /\ r.output \in Approved
       /\ \/ ~Encodable(manifest[r.output].parent)
          \/ item[r.gid] # None /\ item[r.gid].digest # manifest[r.output].digest
    \/ task = "publish" /\ item[r.gid].parent # pointer.active
FailureHasReason ==
    dag.task = "failed" /\ dag.clean => Reason(dag.request, dag.from)

(* A generation is registered once, so a run triggered when it already was
   (dag.known) never publishes it: a candidate whose register answer was lost
   stays a candidate, because put_item cannot tell the item of its own lost
   invocation from another's. *)
RerunNeverPublishes == dag.known => dag.task \notin {"publish", "success"}

(* Every run ends: no lost answer, dead worker or leftover handler keeps a
   task waiting for ever. *)
RunEnds == dag.task \in Tasks ~> dag.task \in Ended

(* A generation that nobody has registered, asked for in a way the job
   accepts, with an approved URI and on the active generation, is published by
   its run unless a fault touches it. *)
Promising ==
    /\ dag.task = "build" /\ dag.clean
    /\ JobAccepts(dag.request) /\ dag.request.output \in Approved
    /\ item[dag.request.gid] = None
    /\ ParentOf(dag.request) = pointer.active
    /\ Encodable(ParentOf(dag.request))
CleanRunPublishes == Promising ~> (dag.task = "success" \/ ~dag.clean)
=============================================================================
