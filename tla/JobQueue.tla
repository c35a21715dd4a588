------------------------------ MODULE JobQueue ------------------------------
(***************************************************************************)
(* The transcription job queue: the rows of transcription_jobs, and every  *)
(* process that writes them.                                               *)
(*                                                                         *)
(*   - the Go API creates and cancels jobs (job_repository.go);            *)
(*   - each Python worker process runs several slot threads that lease a   *)
(*     job, run the pipeline on it and settle it, and one heartbeat thread *)
(*     that refreshes the worker's leases and requeues the ones it thinks  *)
(*     were orphaned (worker.py, db.py);                                   *)
(*   - the API's watchdog requeues or fails the leases that went stale     *)
(*     (watchdog.go, RecoverStaleJobs).                                    *)
(*                                                                         *)
(* One action is one committed SQL transaction, or one critical section of *)
(* the worker's _state_lock.  The SET clause of a statement is an operator *)
(* on a row, its WHERE clause a guard.  Which queued row a lease takes is  *)
(* left open here (FOR UPDATE SKIP LOCKED may skip any of them).           *)
(***************************************************************************)
EXTENDS Integers, FiniteSets

CONSTANTS
    Jobs,         \* the job ids that exist in a behaviour
    LegacyJobs,   \* those left failed by a release with the 14400 s limit
    Workers,      \* worker hosts: one worker process each
    Slots,        \* slot threads of a worker (WORKER_CONCURRENCY)
    WorkStages,   \* the stages the pipeline reports while it runs
    MaxRetries,   \* MAX_RETRIES, stored in every row as max_retries
    RetryFloor,   \* the literal 3 of requeue_job's GREATEST(max_retries, 3)
    StableIds,    \* WORKER_ID is configured; otherwise it is drawn per process
    MaxFaults,    \* bound: crashes, broken or unacknowledged SQL calls, stalls
    NoWorker,     \* SQL NULL in worker_id
    Ghost,        \* an id drawn by a process that is dead: nobody has it again
    NoJob         \* a slot that holds no job

ASSUME ConstantsAssumption ==
    /\ LegacyJobs \subseteq Jobs
    /\ MaxRetries \in Nat
    /\ RetryFloor \in Nat
    /\ MaxFaults \in Nat
    /\ StableIds \in BOOLEAN
    /\ NoJob \notin Jobs
    /\ NoWorker \notin Workers
    /\ Ghost \notin Workers
    /\ NoWorker # Ghost
    /\ "queued" \notin WorkStages

VARIABLES
    row,      \* transcription_jobs
    hooks,    \* the kinds of webhook_deliveries inserted for each job
    proc,     \* is the worker's process running?
    slot,     \* control state of each slot thread and the job it holds
    active,   \* MLWorker.active_job_ids
    beat,     \* heartbeat thread: idle, or between its snapshot and its SQL
    dog,      \* watchdog: between its two statements?
    faults    \* faults spent so far

vars == <<row, hooks, proc, slot, active, beat, dog, faults>>
worker == <<slot, active, beat>>

-----------------------------------------------------------------------------
(* Values                                                                  *)

Terminal == {"completed", "failed", "cancelled"}
Status == {"absent", "queued", "processing"} \cup Terminal
Stages == {"queued", "downloading", "completed", "failed"} \cup WorkStages
Owners == Workers \cup {NoWorker, Ghost}
Errors == {"none", "limit4h", "cancelled", "transient", "failure", "timeout"}

Rows == [status: Status, stage: Stages, worker: Owners,
         hb: {"null", "fresh", "stale"}, retry: Nat, result: {"null", "json"},
         err: Errors, callback: {"null", "url"}]

Holding == {"leased", "running", "raised", "failing", "execv", "cleanup"}
SlotStates == [pc: {"idle"} \cup Holding, job: Jobs \cup {NoJob}]
IdleSlot == [pc |-> "idle", job |-> NoJob]
IdleBeat == [pc |-> "idle", ids |-> {}]

\* GREATEST(COALESCE(max_retries, 3), 3)
RetryLimit == IF MaxRetries > RetryFloor THEN MaxRetries ELSE RetryFloor

NoRow == [status |-> "absent", stage |-> "queued", worker |-> NoWorker,
          hb |-> "null", retry |-> 0, result |-> "null", err |-> "none",
          callback |-> "null"]

\* What an older release's fail_job left of a recording over four hours.
LegacyRows ==
    {[status |-> "failed", stage |-> "failed", worker |-> w, hb |-> "stale",
      retry |-> n, result |-> "null", err |-> "limit4h", callback |-> cb] :
        w \in IF StableIds THEN Workers ELSE {Ghost},
        n \in 0..MaxRetries, cb \in {"null", "url"}}

-----------------------------------------------------------------------------
(* SET clauses                                                             *)

CreatedRow(cb) == [NoRow EXCEPT !.status = "queued", !.callback = cb]

CancelledRow(r) ==
    [r EXCEPT !.status = "cancelled", !.stage = "failed", !.err = "cancelled"]

LeasedRow(r, w) ==
    [r EXCEPT !.status = "processing", !.stage = "downloading",
              !.worker = w, !.hb = "fresh"]

ProgressRow(r, st) == [r EXCEPT !.stage = st, !.hb = "fresh"]

CompletedRow(r) ==
    [r EXCEPT !.status = "completed", !.stage = "completed", !.result = "json"]

FailedRow(r) == [r EXCEPT !.status = "failed", !.stage = "failed",
                          !.err = "failure"]

\* What every statement that gives a job back to the queue has in common.
Unleased(r) == [r EXCEPT !.status = "queued", !.stage = "queued",
                         !.worker = NoWorker, !.hb = "null"]

\* Mutant: requeue into 'pending', the column's default, which nobody dequeues.
RequeuedPending(r) == [r EXCEPT !.status = "pending", !.worker = NoWorker]
RequeuedRow(r) == [Unleased(r) EXCEPT !.retry = r.retry + 1, !.err = "transient"]
StaleRow(r)    == [Unleased(r) EXCEPT !.retry = r.retry + 1]
OrphanRow(r)   == Unleased(r)
RecoveredRow(r) == [Unleased(r) EXCEPT !.err = "none"]

TimedOutRow(r) == [r EXCEPT !.status = "failed", !.stage = "failed",
                            !.err = "timeout"]

(* WHERE clauses                                                           *)

Cancellable(r) == r.status \in {"queued", "processing"}
\* Mutant: the limit of requeue_job is off by one.
RetryableOneMore(r) == r.retry <= RetryLimit
Retryable(r) == r.retry < RetryLimit
\* Mutant: the watchdog counts the waiting time of queued jobs too.
IsStaleQueued(r) == r.status \in {"queued", "processing"} /\ r.hb \in {"null", "stale"}
IsStale(r) == r.status = "processing" /\ r.hb \in {"null", "stale"}
StaleRetryable(r) == IsStale(r) /\ r.retry < MaxRetries
\* Mutant: the two statements of the watchdog leave a gap between them.
StaleOverspent(r) == IsStale(r) /\ r.retry > MaxRetries
StaleExhausted(r) == IsStale(r) /\ r.retry >= MaxRetries
Orphaned(r, w, ids, j) == r.worker = w /\ r.status = "processing" /\ j \notin ids
DurationLimited(r) == r.status = "failed" /\ r.err = "limit4h"
\* Mutant: update_job_progress without AND worker_id = %s.
OwnedByAnyone(r, w) == TRUE
OwnedBy(r, w) == r.worker = w

\* The insert into webhook_deliveries in the transaction that settles a job.
\* Mutant: only successes are announced.
ToldSuccess(r, h, kind) ==
    h \cup IF r.callback = "url" /\ kind = "completed" THEN {kind} ELSE {}
Told(r, h, kind) == h \cup IF r.callback = "url" THEN {kind} ELSE {}
Notify(j, kind) == hooks' = [hooks EXCEPT ![j] = Told(row[j], @, kind)]

-----------------------------------------------------------------------------
(* Helpers on the worker's own state                                       *)

Up(w) == proc[w] = "up"
At(w, s, pc) == Up(w) /\ slot[w][s].pc = pc
Holds(w, s, j) == slot[w][s].pc # "idle" /\ slot[w][s].job = j
HeldBySomeone(j) == \E w \in Workers, s \in Slots : Holds(w, s, j)

\* Slot s of w moves to control state pc, keeping its job.
Goto(w, s, pc) == slot' = [slot EXCEPT ![w][s].pc = pc]

\* A living process or slot is about to refresh the heartbeat of j.
Refreshed(j) == \/ \E w \in Workers : j \in active[w]
                \/ \E w \in Workers, s \in Slots :
                       Holds(w, s, j) /\ slot[w][s].pc = "leased"

Fault == faults < MaxFaults /\ faults' = faults + 1

\* The process of w is gone: its threads, its active set, and, when its id was
\* drawn at random, everyone who could ever answer to that id.
Die(w) ==
    /\ proc' = [proc EXCEPT ![w] = "down"]
    /\ slot' = [slot EXCEPT ![w] = [s \in Slots |-> IdleSlot]]
    /\ active' = [active EXCEPT ![w] = {}]
    /\ beat' = [beat EXCEPT ![w] = IdleBeat]
    /\ row' = IF StableIds THEN row
              ELSE [j \in Jobs |-> IF row[j].worker = w
                                   THEN [row[j] EXCEPT !.worker = Ghost]
                                   ELSE row[j]]

-----------------------------------------------------------------------------
Init ==
    /\ row \in [Jobs -> {NoRow} \cup LegacyRows]
    /\ \A j \in Jobs : row[j] = NoRow <=> j \notin LegacyJobs
    /\ hooks = [j \in Jobs |-> IF row[j].callback = "url" THEN {"failed"} ELSE {}]
    /\ proc = [w \in Workers |-> "down"]
    /\ slot = [w \in Workers |-> [s \in Slots |-> IdleSlot]]
    /\ active = [w \in Workers |-> {}]
    /\ beat = [w \in Workers |-> IdleBeat]
    /\ dog = "idle"
    /\ faults = 0

-----------------------------------------------------------------------------
(* The Go API                                                              *)

\* SubmitTranscription's insert; a repeated idempotency key changes no row.
CreateJob(j, cb) ==
    /\ row[j].status = "absent"
    /\ row' = [row EXCEPT ![j] = CreatedRow(cb)]
    /\ UNCHANGED <<hooks, proc, worker, dog, faults>>

CancelJob(j) ==
    /\ Cancellable(row[j])
    /\ row' = [row EXCEPT ![j] = CancelledRow(@)]
    /\ UNCHANGED <<hooks, proc, worker, dog, faults>>

-----------------------------------------------------------------------------
(* Life of a worker process                                                *)

\* initialize_models: the recovery of duration-limited jobs runs in connect().
\* Rows older than 24 hours are left alone, and so are all of them when the
\* statement fails: any subset of the candidates is recovered.
Start(w) ==
    /\ ~Up(w)
    /\ proc' = [proc EXCEPT ![w] = "up"]
    /\ \E S \in SUBSET {j \in Jobs : DurationLimited(row[j])} :
           row' = [j \in Jobs |-> IF j \in S THEN RecoveredRow(row[j]) ELSE row[j]]
    /\ UNCHANGED <<hooks, worker, dog, faults>>

\* SIGKILL, SIGTERM (handle_signal exits), host loss, a stopped pod.
Crash(w) ==
    /\ Up(w)
    /\ Fault
    /\ Die(w)
    /\ UNCHANGED <<hooks, dog>>

\* os.execv of the slot that met a broken CUDA context: the process image is
\* replaced, whatever the other slots were doing.
Execv(w, s) ==
    /\ At(w, s, "execv")
    /\ Die(w)
    /\ UNCHANGED <<hooks, dog, faults>>

-----------------------------------------------------------------------------
(* _worker_slot_loop                                                       *)

\* The lease: one UPDATE, committed before the slot knows of it.
dequeue_job(w, s, j) ==
    /\ At(w, s, "idle")
    /\ row[j].status = "queued"
    /\ row' = [row EXCEPT ![j] = LeasedRow(@, w)]
    /\ slot' = [slot EXCEPT ![w][s] = [pc |-> "leased", job |-> j]]
    /\ UNCHANGED <<hooks, proc, active, beat, dog, faults>>

\* The commit reached the server, the answer was lost: dequeue_job returns None.
DequeueUnacknowledged(w, s, j) ==
    /\ At(w, s, "idle")
    /\ row[j].status = "queued"
    /\ Fault
    /\ row' = [row EXCEPT ![j] = LeasedRow(@, w)]
    /\ UNCHANGED <<hooks, proc, worker, dog>>

\* The critical section that publishes the job to the heartbeat thread.
Activate(w, s) ==
    /\ At(w, s, "leased")
    /\ active' = [active EXCEPT ![w] = @ \cup {slot[w][s].job}]
    /\ Goto(w, s, "running")
    /\ UNCHANGED <<row, hooks, proc, beat, dog, faults>>

update_job_progress(w, s, st) ==
    LET j == slot[w][s].job IN
    /\ At(w, s, "running")
    /\ OwnedBy(row[j], w)
    /\ row' = [row EXCEPT ![j] = ProgressRow(@, st)]
    /\ UNCHANGED <<hooks, proc, worker, dog, faults>>

complete_job(w, s) ==
    LET j == slot[w][s].job IN
    /\ At(w, s, "running")
    /\ row' = [row EXCEPT ![j] = CompletedRow(@)]
    /\ Notify(j, "completed")
    /\ Goto(w, s, "cleanup")
    /\ UNCHANGED <<proc, active, beat, dog, faults>>

\* complete_job rolls back and re-raises: the job failed like the pipeline.
\* The text of a lost connection never looks like a CUDA error, so when the
\* commit went through unacknowledged the slot goes straight to fail_job.
CompleteFails(w, s) ==
    LET j == slot[w][s].job IN
    /\ At(w, s, "running")
    /\ Fault
    /\ \/ Goto(w, s, "raised") /\ UNCHANGED <<row, hooks>>
       \/ /\ Goto(w, s, "failing")
          /\ row' = [row EXCEPT ![j] = CompletedRow(@)]
          /\ Notify(j, "completed")
    /\ UNCHANGED <<proc, active, beat, dog>>

\* pipeline.process raises: out of memory, a CUDA error, or anything else.
PipelineRaises(w, s) ==
    /\ At(w, s, "running")
    /\ Goto(w, s, "raised")
    /\ UNCHANGED <<row, hooks, proc, active, beat, dog, faults>>

\* Mutant: the slot ignores that requeue_job found no retry left.
requeue_job_unchecked(w, s) ==
    LET j == slot[w][s].job IN
    /\ At(w, s, "raised")
    /\ row' = IF Retryable(row[j]) THEN [row EXCEPT ![j] = RequeuedRow(@)] ELSE row
    /\ Goto(w, s, "cleanup")
    /\ UNCHANGED <<hooks, proc, active, beat, dog, faults>>

\* A transient error.  With no retry left the statement matches no row and the
\* slot goes on to fail_job; otherwise it is done, or replaces its process.
requeue_job(w, s) ==
    LET j == slot[w][s].job IN
    /\ At(w, s, "raised")
    /\ \/ /\ Retryable(row[j])
          /\ row' = [row EXCEPT ![j] = RequeuedRow(@)]
          /\ \E pc \in {"cleanup", "execv"} : Goto(w, s, pc)
       \/ /\ ~Retryable(row[j])
          /\ Goto(w, s, "failing")
          /\ UNCHANGED row
    /\ UNCHANGED <<hooks, proc, active, beat, dog, faults>>

\* requeue_job returns False, or get_conn raises into the outer handler; the
\* lost answer of a committed requeue is False too.
RequeueFails(w, s) ==
    LET j == slot[w][s].job IN
    /\ At(w, s, "raised")
    /\ Fault
    /\ \/ /\ \E pc \in {"failing", "cleanup"} : Goto(w, s, pc)
          /\ UNCHANGED row
       \/ /\ Retryable(row[j])
          /\ row' = [row EXCEPT ![j] = RequeuedRow(@)]
          /\ Goto(w, s, "failing")
    /\ UNCHANGED <<hooks, proc, active, beat, dog>>

\* An error that is not transient, or a transient one out of retries.
fail_job(w, s) ==
    LET j == slot[w][s].job IN
    /\ At(w, s, "raised") \/ At(w, s, "failing")
    /\ row' = [row EXCEPT ![j] = FailedRow(@)]
    /\ Notify(j, "failed")
    /\ Goto(w, s, "cleanup")
    /\ UNCHANGED <<proc, active, beat, dog, faults>>

\* fail_job swallows its own errors: the slot moves on as if it had succeeded.
\* (A committed fail_job whose answer is lost is a fail_job.)
FailFails(w, s) ==
    /\ At(w, s, "raised") \/ At(w, s, "failing")
    /\ Fault
    /\ Goto(w, s, "cleanup")
    /\ UNCHANGED <<row, hooks, proc, active, beat, dog>>

\* The finally block: the job leaves active_job_ids, the slot polls again.
Cleanup(w, s) ==
    /\ At(w, s, "cleanup")
    /\ active' = [active EXCEPT ![w] = @ \ {slot[w][s].job}]
    /\ slot' = [slot EXCEPT ![w][s] = IdleSlot]
    /\ UNCHANGED <<row, hooks, proc, beat, dog, faults>>

-----------------------------------------------------------------------------
(* heartbeat_loop                                                          *)

\* active_list is copied under the lock ...
Snapshot(w) ==
    /\ Up(w)
    /\ beat[w].pc = "idle"
    /\ beat' = [beat EXCEPT ![w] = [pc |-> "send", ids |-> active[w]]]
    /\ UNCHANGED <<row, hooks, proc, slot, active, dog, faults>>

\* ... and used after it was released: live rows get a new heartbeat, the
\* worker's other processing rows go back to the queue, in one transaction.
send_worker_heartbeat(w) ==
    /\ Up(w)
    /\ beat[w].pc = "send"
    /\ row' = [j \in Jobs |->
                  CASE Orphaned(row[j], w, beat[w].ids, j) -> OrphanRow(row[j])
                    [] j \in beat[w].ids /\ row[j].status = "processing" ->
                           [row[j] EXCEPT !.hb = "fresh"]
                    [] OTHER -> row[j]]
    /\ beat' = [beat EXCEPT ![w] = IdleBeat]
    /\ UNCHANGED <<hooks, proc, slot, active, dog, faults>>

\* The transaction is rolled back and the error swallowed.
HeartbeatFails(w) ==
    /\ Up(w)
    /\ beat[w].pc = "send"
    /\ Fault
    /\ beat' = [beat EXCEPT ![w] = IdleBeat]
    /\ UNCHANGED <<row, hooks, proc, slot, active, dog>>

\* worker_heartbeat_at falls behind the stale threshold.  While something
\* refreshes it every few seconds that takes a fault: a stall or a partition.
Expire(j) ==
    /\ row[j].status = "processing"
    /\ row[j].hb = "fresh"
    /\ IF Refreshed(j) THEN Fault ELSE UNCHANGED faults
    /\ row' = [row EXCEPT ![j].hb = "stale"]
    /\ UNCHANGED <<hooks, proc, worker, dog>>

-----------------------------------------------------------------------------
(* The watchdog: RecoverStaleJobs is two statements, each its own          *)
(* transaction, with no notification of the jobs it fails                  *)

WatchdogRetry ==
    /\ dog = "idle"
    /\ row' = [j \in Jobs |-> IF StaleRetryable(row[j]) THEN StaleRow(row[j])
                              ELSE row[j]]
    /\ dog' = "fail"
    /\ UNCHANGED <<hooks, proc, worker, faults>>

WatchdogFail ==
    /\ dog = "fail"
    /\ row' = [j \in Jobs |-> IF StaleExhausted(row[j]) THEN TimedOutRow(row[j])
                              ELSE row[j]]
    /\ dog' = "idle"
    /\ UNCHANGED <<hooks, proc, worker, faults>>

\* The API is restarted, or the second statement fails, between the two.
WatchdogInterrupted ==
    /\ dog = "fail"
    /\ Fault
    /\ dog' = "idle"
    /\ UNCHANGED <<row, hooks, proc, worker>>

-----------------------------------------------------------------------------
SlotStep(w, s) ==
    \/ Execv(w, s)
    \/ Activate(w, s)
    \/ complete_job(w, s)
    \/ PipelineRaises(w, s)
    \/ requeue_job(w, s)
    \/ fail_job(w, s)
    \/ Cleanup(w, s)

SlotFault(w, s) ==
    \/ CompleteFails(w, s)
    \/ RequeueFails(w, s)
    \/ FailFails(w, s)

Heartbeat(w) == Snapshot(w) \/ send_worker_heartbeat(w)
Watchdog == WatchdogRetry \/ WatchdogFail

Next ==
    \/ \E j \in Jobs :
          \/ \E cb \in {"null", "url"} : CreateJob(j, cb)
          \/ CancelJob(j)
          \/ Expire(j)
    \/ \E w \in Workers, s \in Slots :
          \/ \E j \in Jobs : dequeue_job(w, s, j)
          \/ \E j \in Jobs : DequeueUnacknowledged(w, s, j)
          \/ \E st \in WorkStages : update_job_progress(w, s, st)
          \/ SlotStep(w, s)
          \/ SlotFault(w, s)
    \/ \E w \in Workers :
          \/ Start(w)
          \/ Crash(w)
          \/ Heartbeat(w)
          \/ HeartbeatFails(w)
    \/ Watchdog
    \/ WatchdogInterrupted

Spec == Init /\ [][Next]_vars

(***************************************************************************)
(* Fairness.  systemd restarts a worker (Restart=always); slot threads,    *)
(* the heartbeat thread and the watchdog goroutine are loops that always   *)
(* come round; pipeline.process returns or raises; time passes, so a lease *)
(* nobody refreshes expires.  Nothing is assumed of clients or of faults.  *)
(***************************************************************************)
Fairness ==
    /\ \A w \in Workers : WF_vars(Start(w)) /\ WF_vars(Heartbeat(w))
    /\ \A w \in Workers, s \in Slots :
          /\ WF_vars(SlotStep(w, s))
          /\ WF_vars(\E j \in Jobs : dequeue_job(w, s, j))
    /\ WF_vars(Watchdog)
    /\ \A j \in Jobs : WF_vars(~Refreshed(j) /\ Expire(j))

FairSpec == Spec /\ Fairness

-----------------------------------------------------------------------------
(* Correctness                                                             *)

\* Every variable stays in its type.
TypeOK ==
    /\ row \in [Jobs -> Rows]
    /\ hooks \in [Jobs -> SUBSET {"completed", "failed"}]
    /\ proc \in [Workers -> {"up", "down"}]
    /\ slot \in [Workers -> [Slots -> SlotStates]]
    /\ active \in [Workers -> SUBSET Jobs]
    /\ beat \in [Workers -> [pc: {"idle", "send"}, ids: SUBSET Jobs]]
    /\ dog \in {"idle", "fail"}
    /\ faults \in 0..MaxFaults

\* A row's status, stage, owner and heartbeat never contradict one another
\* while the job is in the queue or leased: a late progress report of a slot
\* whose lease was taken away (update_job_progress) leaves no trace on the
\* queued row, and no lease is without an owner and a heartbeat to time out on.
LeaseConsistent ==
    \A j \in Jobs :
        /\ row[j].status = "queued" =>
              /\ row[j].worker = NoWorker
              /\ row[j].hb = "null"
              /\ row[j].stage = "queued"
        /\ row[j].status = "processing" =>
              /\ row[j].worker # NoWorker
              /\ row[j].hb # "null"
              /\ row[j].stage \in {"downloading"} \cup WorkStages

\* However requeue_job and the watchdog interleave, and whoever retries a job
\* twice, its retry_count never passes the limit of requeue_job.
RetryBounded == \A j \in Jobs : row[j].retry <= RetryLimit

\* A client that gave a callback_url is told of the outcome it can read: a
\* completed row has a result and an inserted "completed" delivery, a failed
\* one an inserted "failed" delivery, unless the watchdog failed it.
OutcomeNotified ==
    \A j \in Jobs :
        /\ row[j].status = "completed" => row[j].result = "json"
        /\ row[j].callback = "url" =>
              /\ row[j].status = "completed" => "completed" \in hooks[j]
              /\ row[j].status = "failed" /\ row[j].err # "timeout" =>
                    "failed" \in hooks[j]
        /\ "completed" \in hooks[j] => row[j].result = "json"

\* Nothing a worker keeps refreshing is abandoned: a job in active_job_ids is in
\* the hands of a slot that has yet to run its finally block.
ActiveIsHeld ==
    \A w \in Workers : \A j \in active[w] :
        \E s \in Slots : slot[w][s].pc \notin {"idle", "leased"} /\ slot[w][s].job = j

\* A settled job is unsettled, or settled differently, only by a slot that is
\* still executing it, or when a start recovers it from the old duration limit:
\* neither the watchdog, nor any heartbeat, nor a cancellation touches it.
SettledStays ==
    [][\A j \in Jobs :
          row[j].status \in Terminal /\ row'[j].status # row[j].status =>
              \/ DurationLimited(row[j])
              \/ \E w \in Workers, s \in Slots :
                    /\ slot[w][s].job = j
                    /\ slot[w][s].pc \in {"running", "raised", "failing"}]_vars

\* Every submitted job is settled for good, whatever crashes, lost answers,
\* stalls and cancellations happen on the way.
EventuallySettled ==
    \A j \in Jobs : row[j].status # "absent" ~> [](row[j].status \in Terminal)

\* send_worker_heartbeat: "automatically recover any orphaned 'processing' jobs
\* left over from a previous run of this worker_id": a job it takes back is not
\* being executed by this very process.
OrphansOnly ==
    [][\A w \in Workers, j \in Jobs :
          send_worker_heartbeat(w) /\ Orphaned(row[j], w, beat[w].ids, j) =>
              \A s \in Slots : ~Holds(w, s, j)]_vars

\* DeleteJob answers that the job was cancelled successfully, and speaks of
\* cancelled as a terminal state: the job does not leave it.
CancelledIsFinal ==
    [][\A j \in Jobs : row[j].status = "cancelled" =>
                           row'[j].status = "cancelled"]_vars

-----------------------------------------------------------------------------
(* The queue as its readers see it                                         *)

Executing == [j \in Jobs |-> {x \in Workers \X Slots : Holds(x[1], x[2], j)}]

Life == INSTANCE JobLifecycle
            WITH state <- [j \in Jobs |-> row[j].status],
                 result <- [j \in Jobs |-> row[j].result = "json"],
                 executing <- Executing,
                 revivable <- {j \in Jobs : DurationLimited(row[j])},
                 Executors <- Workers \X Slots

\* The queue implements JobLifecycle: whatever the statements of the API, the
\* slots, the heartbeat and the watchdog do to a row in whatever order, a reader
\* sees a job that is settled, settled differently or taken back only by an
\* execution under way, and a result that never disappears.
Lifecycle == Life!LifeSpec

=============================================================================
