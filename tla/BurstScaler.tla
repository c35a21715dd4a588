---------------------------- MODULE BurstScaler ----------------------------
(***************************************************************************)
(* GPU pods that come and go with the queue.                               *)
(*                                                                         *)
(*   - the API starts the primary pod when a submission finds no worker    *)
(*     with a heartbeat of the last 45 seconds (handlers.go, StartPod);    *)
(*   - the heartbeat thread of the primary worker wakes the burst pod when *)
(*     the queue is long, and the one of the burst worker stops its own    *)
(*     pod when there was nothing to do for a while (worker.py).           *)
(*                                                                         *)
(* Each of them decides from a snapshot: rows of worker_heartbeats that    *)
(* outlive their worker, a list of jobs copied under a lock, counts read   *)
(* from the database.  Slots lease jobs meanwhile and pods go down.        *)
(*                                                                         *)
(* Clocks are abstract: a heartbeat is young or old, the idle period and   *)
(* the pause between two wake-ups have passed or not.                      *)
(*                                                                         *)
(* A lease and its entry in active_job_ids are two steps.  The list that a *)
(* heartbeat copies and the statements that carry it are one: a lease that *)
(* falls between them is, for both, one that is not in the list yet.       *)
(* Every way to settle a job and to lose an answer is module JobQueue.     *)
(***************************************************************************)
EXTENDS Integers, FiniteSets

CONSTANTS
    Jobs,        \* the job ids of a behaviour
    Slots,       \* the slot threads of each pod's worker (WORKER_CONCURRENCY)
    Threshold,   \* BURST_QUEUE_THRESHOLD
    MaxRetries,  \* MAX_RETRIES
    MaxAsking,   \* bound: submissions under way at a time
    MaxFaults,   \* bound: calls that fail, pods taken away by the provider
    Split,       \* bound: the pods in which other threads may run between a lease
                 \* and its entry in active_job_ids
    NoJob        \* a slot that holds no job

ASSUME BurstAssumption ==
    /\ IsFiniteSet(Jobs)
    /\ NoJob \notin Jobs
    /\ Threshold \in Nat \ {0}
    /\ MaxRetries \in Nat
    /\ MaxAsking \in Nat
    /\ MaxFaults \in Nat
    /\ Split \subseteq {"primary", "burst"}

Pods == {"primary", "burst"}
Nobody == "none"

VARIABLES
    row,      \* transcription_jobs
    asking,   \* submissions that still have to check for workers, or to start
    pod,      \* what the provider runs
    beat,     \* worker_heartbeats: the age of each worker's row (old: or no row)
    slot,     \* the job each slot thread holds
    fresh,    \* the slots whose lease is committed and not in active_job_ids yet
    active,   \* MLWorker.active_job_ids
    hb,       \* heartbeat thread: asleep, or about to count with a list of jobs
              \* that was not empty (busy) or empty (free)
    idle,     \* IDLE_SHUTDOWN_MINUTES have passed since _last_active_timestamp
    cool,     \* 120 s have passed since _last_burst_wake_timestamp
    faults,
    unseen,   \* history: leases of the burst worker that are newer than its list, or
              \* were not shown when it was copied, and were not given back since
    owed      \* history: the last check saw no worker, and the primary pod was
              \* neither refused nor taken away since

work == <<row, slot, fresh, active>>
clocks == <<idle, cool>>
history == <<unseen, owed>>
vars == <<row, asking, pod, beat, slot, fresh, active, hb, idle, cool,
          faults, unseen, owed>>

-----------------------------------------------------------------------------
(* Values                                                                  *)

Rows == [status: {"absent", "queued", "processing", "completed", "failed"},
         worker: Pods \cup {Nobody}, retry: 0..MaxRetries]
\* Who settled a row, and after how many tries, is of no interest here.
RowOf(status) == [status |-> status, worker |-> Nobody, retry |-> 0]

\* Mutant: requeued into 'pending', the column's default.
RequeuedPending(r) == [r EXCEPT !.status = "pending", !.worker = Nobody]
Requeued(r) == [r EXCEPT !.status = "queued", !.worker = Nobody]
StaleRow(r) == [Requeued(r) EXCEPT !.retry = r.retry + 1]
LeasedRow(r, p) == [r EXCEPT !.status = "processing", !.worker = p]

QueuedJobs == {j \in Jobs : row[j].status = "queued"}
LeasedBy(p) == {j \in Jobs : row[j].status = "processing" /\ row[j].worker = p}
\* A stopping pod still runs its worker, until the provider ends it.
Running(p) == pod[p] \in {"up", "stopping"}
Fault == faults < MaxFaults /\ faults' = faults + 1

\* Mutant: SELECT without the WHERE clause on last_heartbeat_at.
WorkersEver == {p \in Pods : beat[p] \in {"young", "old"}}
\* JobRepository.GetActiveWorkers(45 * time.Second)
GetActiveWorkers == {p \in Pods : beat[p] = "young"}
\* Mutant: the same omission in the worker's own count.
ActiveWorkersEver == Cardinality({p \in Pods : beat[p] \in {"young", "old"}})
\* the second SELECT of get_queue_and_worker_counts
ActiveWorkers == Cardinality({p \in Pods : beat[p] = "young"})

Init ==
    /\ row = [j \in Jobs |-> RowOf("absent")]
    /\ asking = [check |-> 0, start |-> 0]
    /\ pod = [p \in Pods |-> "stopped"]
    /\ beat = [p \in Pods |-> "old"]
    /\ slot = [p \in Pods |-> [s \in Slots |-> NoJob]]
    /\ fresh = [p \in Pods |-> {}]
    /\ active = [p \in Pods |-> {}]
    /\ hb = [p \in Pods |-> "sleep"]
    /\ idle = FALSE
    /\ cool = TRUE
    /\ faults = 0
    /\ unseen = {}
    /\ owed = FALSE

-----------------------------------------------------------------------------
(* SubmitTranscription                                                     *)

\* CreateJob; a repeated idempotency key finds the row and goes on as well.
Submit(j) ==
    /\ asking.check + asking.start < MaxAsking
    /\ row' = IF row[j].status = "absent" THEN [row EXCEPT ![j] = RowOf("queued")] ELSE row
    /\ asking' = [asking EXCEPT !.check = @ + 1]
    /\ UNCHANGED <<pod, beat, slot, fresh, active, hb, clocks, faults, history>>

ThenStart == asking' = [check |-> asking.check - 1, start |-> asking.start + 1]
StartDone == asking' = [asking EXCEPT !.start = @ - 1]

\* No worker in sight: resume the primary pod in a goroutine of its own.
CheckWorkers ==
    /\ asking.check > 0
    /\ IF GetActiveWorkers = {} THEN ThenStart
       ELSE asking' = [asking EXCEPT !.check = @ - 1]
    /\ owed' = \A p \in Pods : beat[p] # "young"
    /\ UNCHANGED <<work, pod, beat, hb, clocks, faults, unseen>>

\* GetActiveWorkers failed: start the pod all the same.
CheckFails ==
    /\ asking.check > 0
    /\ Fault
    /\ ThenStart
    /\ UNCHANGED <<work, pod, beat, hb, clocks, history>>

\* Both endpoints of the provider mean the same; a pod that runs is left alone.
StartPod ==
    /\ asking.start > 0
    /\ StartDone
    /\ pod' = [pod EXCEPT !["primary"] = IF @ = "stopped" THEN "starting" ELSE @]
    /\ UNCHANGED <<work, beat, hb, clocks, faults, history>>

\* Neither endpoint accepts (no GPU left, 15 s passed): logged, never retried.
StartRefused ==
    /\ asking.start > 0
    /\ Fault
    /\ StartDone
    /\ owed' = FALSE
    /\ UNCHANGED <<work, pod, beat, hb, clocks, unseen>>

-----------------------------------------------------------------------------
(* Life of a pod                                                           *)

\* A new process: no job, and timestamps as MLWorker.__init__ sets them.
Boot(p) ==
    /\ pod[p] = "starting"
    /\ pod' = [pod EXCEPT ![p] = "up"]
    /\ UNCHANGED <<work, asking, beat, hb, clocks, faults, history>>

\* The heartbeat thread sleeps until the next round.
Rest(p) == /\ hb' = [hb EXCEPT ![p] = "sleep"]
           /\ unseen' = IF p = "burst" THEN {} ELSE unseen

\* The process and all it knew is gone; its rows in the database stay.
Down(p) ==
    /\ pod' = [pod EXCEPT ![p] = "stopped"]
    /\ slot' = [slot EXCEPT ![p] = [s \in Slots |-> NoJob]]
    /\ fresh' = [fresh EXCEPT ![p] = {}]
    /\ active' = [active EXCEPT ![p] = {}]
    /\ Rest(p)
    /\ owed' = (owed /\ p # "primary")
    /\ idle' = (idle /\ p # "burst")
    /\ cool' = (cool \/ p = "primary")
    /\ UNCHANGED <<row, asking, beat>>

\* podStop takes effect.
PodStops(p) ==
    /\ pod[p] = "stopping"
    /\ Down(p)
    /\ UNCHANGED faults

\* The provider takes the pod away, or its host dies.
Outage(p) ==
    /\ pod[p] # "stopped"
    /\ Fault
    /\ Down(p)

-----------------------------------------------------------------------------
(* _worker_slot_loop                                                       *)

\* The lease is committed, and where no other thread comes between, it is shown.
dequeue_job(p, s, j) ==
    /\ Running(p)
    /\ slot[p][s] = NoJob
    /\ row[j].status = "queued"
    /\ row' = [row EXCEPT ![j] = LeasedRow(@, p)]
    /\ slot' = [slot EXCEPT ![p][s] = j]
    /\ \/ /\ p \in Split
          /\ fresh' = [fresh EXCEPT ![p] = @ \cup {s}]
          /\ UNCHANGED active
       \/ /\ p \notin Split
          /\ active' = [active EXCEPT ![p] = @ \cup {j}]
          /\ UNCHANGED fresh
    /\ unseen' = IF p = "burst" /\ hb[p] # "sleep" THEN unseen \cup {j} ELSE unseen
    /\ UNCHANGED <<asking, pod, beat, hb, clocks, faults, owed>>

\* The critical section that shows the job to the heartbeat thread.
ShowJob(p, s) ==
    /\ s \in fresh[p]
    /\ active' = [active EXCEPT ![p] = @ \cup {slot[p][s]}]
    /\ fresh' = [fresh EXCEPT ![p] = @ \ {s}]
    /\ UNCHANGED <<row, asking, pod, beat, slot, hb, clocks, faults, history>>

\* complete_job and the finally block; complete_job asks nothing of the row.
Finish(p, s) ==
    LET j == slot[p][s] IN
    /\ j # NoJob
    /\ s \notin fresh[p]
    /\ row' = [row EXCEPT ![j] = RowOf("completed")]
    /\ slot' = [slot EXCEPT ![p][s] = NoJob]
    /\ active' = [active EXCEPT ![p] = @ \ {j}]
    /\ unseen' = IF p = "burst" THEN unseen \ {j} ELSE unseen
    /\ UNCHANGED <<asking, pod, beat, fresh, hb, clocks, faults, owed>>

-----------------------------------------------------------------------------
(* heartbeat_loop                                                          *)

\* Jobs that slots of the burst worker hold and have not shown.
NotShown == {slot["burst"][s] : s \in fresh["burst"]}

\* Mutant: what the slots do never reaches the heartbeat thread.
ListedNothing(p) ==
    /\ hb' = [hb EXCEPT ![p] = "free"]
    /\ UNCHANGED idle

\* active_list is copied under the lock; only the burst worker, which remembers
\* when it was last active, uses it again.
Listed(p) ==
    /\ hb' = [hb EXCEPT ![p] = IF p = "burst" /\ active[p] # {} THEN "busy" ELSE "free"]
    /\ idle' = (idle /\ hb'[p] = "free")

\* The row of the worker is stamped, leases that are not listed are given back.
send_worker_heartbeat(p) ==
    /\ Running(p)
    /\ hb[p] = "sleep"
    /\ Listed(p)
    /\ beat' = [beat EXCEPT ![p] = "young"]
    /\ row' = [j \in Jobs |-> IF j \in LeasedBy(p) \ active[p]
                              THEN Requeued(row[j]) ELSE row[j]]
    /\ UNCHANGED <<asking, pod, slot, fresh, active, cool, faults, history>>

\* Rolled back and swallowed, or no connection and the round is over.  After
\* several of these the row of the worker is old though the worker lives.
HeartbeatFails(p) ==
    /\ Running(p)
    /\ hb[p] = "sleep"
    /\ Fault
    /\ \E b \in {beat[p], "old"} : beat' = [beat EXCEPT ![p] = b]
    /\ \/ Listed(p) /\ unseen' = IF p = "burst" THEN NotShown ELSE unseen
       \/ /\ idle' = (idle /\ (p = "primary" \/ active[p] = {}))
          /\ UNCHANGED <<hb, unseen>>
    /\ UNCHANGED <<work, asking, pod, cool, owed>>

\* The call to the provider: accepted, to take effect in its own time, or not.
Call(target, spent) ==
    \/ pod' = [pod EXCEPT !["burst"] = target] /\ faults' = spent
    \/ spent < MaxFaults /\ faults' = spent + 1 /\ UNCHANGED pod

\* The primary worker wakes the burst pod; the time is taken before the call,
\* and a failed call waits for the next 120 s like one that succeeded.
WakeBurst(queued, workers, spent) ==
    IF queued >= Threshold /\ workers < 2 /\ cool
    THEN /\ cool' = FALSE
         /\ Call(IF pod["burst"] = "stopped" THEN "starting" ELSE pod["burst"], spent)
    ELSE faults' = spent /\ UNCHANGED <<pod, cool>>

\* Mutant: any worker alive keeps the burst pod alive.
HasCompany(queued, workers) == queued > 0 \/ hb["burst"] = "busy" \/ workers > 0
HasWork(queued, workers) == queued > 0 \/ hb["burst"] = "busy"

\* The burst worker stops its own pod when it was idle for long enough; a failed
\* call waits as long again.
StopBurst(queued, workers, spent) ==
    /\ idle' = FALSE
    /\ IF ~HasWork(queued, workers) /\ idle THEN Call("stopping", spent)
       ELSE faults' = spent /\ UNCHANGED pod

Decide(p, queued, workers, spent) ==
    /\ IF p = "primary" THEN WakeBurst(queued, workers, spent) /\ UNCHANGED idle
       ELSE StopBurst(queued, workers, spent) /\ UNCHANGED cool
    /\ Rest(p)

\* The counts and what the worker does about them.  Between the two the thread
\* reads nothing that others write; that the call comes late is in the time the
\* provider takes (Boot, PodStops).
get_queue_and_worker_counts(p) ==
    /\ Running(p)
    /\ hb[p] # "sleep"
    /\ Decide(p, Cardinality(QueuedJobs), ActiveWorkers, faults)
    /\ UNCHANGED <<work, asking, beat, owed>>

\* A failed query answers (0, 1); without a connection the round is over.
CountFails(p) ==
    /\ Running(p)
    /\ hb[p] # "sleep"
    /\ faults < MaxFaults
    /\ \/ Decide(p, 0, 1, faults + 1)
       \/ Rest(p) /\ faults' = faults + 1 /\ UNCHANGED <<pod, clocks>>
    /\ UNCHANGED <<work, asking, beat, owed>>

-----------------------------------------------------------------------------
(* Time, and the watchdog                                                  *)

\* 45 s after its last heartbeat the row of a worker that is gone is old.
HeartbeatAges(p) ==
    /\ beat[p] = "young"
    /\ ~Running(p)
    /\ beat' = [beat EXCEPT ![p] = "old"]
    /\ UNCHANGED <<work, asking, pod, hb, clocks, faults, history>>

\* Long against one round of the heartbeat thread.
IdlePeriodPasses ==
    /\ Running("burst")
    /\ hb["burst"] = "sleep"
    /\ ~idle
    /\ idle' = TRUE
    /\ UNCHANGED <<work, asking, pod, beat, hb, cool, faults, history>>

WakePausePasses ==
    /\ ~cool
    /\ cool' = TRUE
    /\ UNCHANGED <<work, asking, pod, beat, hb, idle, faults, history>>

\* worker_heartbeat_at of the lease is behind STALE_JOB_THRESHOLD_SECONDS: no
\* worker refreshes it any more, or the one that should could not for long.
Lapsed(j) ==
    LET p == row[j].worker IN
    /\ row[j].status = "processing"
    /\ ~Running(p) \/ beat[p] = "old" \/ \A s \in Slots : slot[p][s] # j

\* Mutant: the two statements leave a gap between them.
ExhaustedLate(j) == row[j].retry > MaxRetries
Exhausted(j) == row[j].retry >= MaxRetries

RecoverStaleJobs(j) ==
    /\ Lapsed(j)
    /\ \/ /\ row[j].retry < MaxRetries
          /\ row' = [row EXCEPT ![j] = StaleRow(@)]
       \/ /\ Exhausted(j)
          /\ row' = [row EXCEPT ![j] = RowOf("failed")]
    /\ UNCHANGED <<asking, pod, beat, slot, fresh, active, hb, clocks, faults, history>>

-----------------------------------------------------------------------------
Api == \/ \E j \in Jobs : Submit(j) \/ RecoverStaleJobs(j)
       \/ CheckWorkers \/ CheckFails
       \/ StartPod \/ StartRefused
Lives == \E p \in Pods : Boot(p) \/ PodStops(p) \/ Outage(p) \/ HeartbeatAges(p)
Works == \E p \in Pods, s \in Slots :
            \/ \E j \in Jobs : dequeue_job(p, s, j)
            \/ ShowJob(p, s)
            \/ Finish(p, s)
HeartStep(p) == \/ send_worker_heartbeat(p) \/ HeartbeatFails(p)
                \/ get_queue_and_worker_counts(p) \/ CountFails(p)
Heart == \E p \in Pods : HeartStep(p)
Time == IdlePeriodPasses \/ WakePausePasses

Next == Api \/ Lives \/ Works \/ Heart \/ Time

Spec == Init /\ [][Next]_vars

\* Threads that run take their next step, calls return, the provider does what
\* it accepted, time passes.  Nobody promises a submission, nor that a job ends.
\* Strong where a slot polls for work: it asks again every POLL_INTERVAL, so it does
\* not miss for ever a queue that is not empty again and again.
Fairness ==
    /\ WF_vars(CheckWorkers \/ CheckFails \/ StartPod \/ StartRefused)
    /\ WF_vars(\E j \in Jobs : RecoverStaleJobs(j))
    /\ \A p \in Pods :
          /\ WF_vars(Boot(p) \/ PodStops(p) \/ HeartbeatAges(p))
          /\ WF_vars(HeartStep(p))
          /\ \A s \in Slots : SF_vars(ShowJob(p, s) \/ \E j \in Jobs : dequeue_job(p, s, j))
    /\ SF_vars(IdlePeriodPasses)
    /\ WF_vars(WakePausePasses)

FairSpec == Spec /\ Fairness

-----------------------------------------------------------------------------
(* Properties                                                              *)

\* Type correctness.
BurstTypeOK ==
    /\ row \in [Jobs -> Rows]
    /\ asking \in [check: 0..MaxAsking, start: 0..MaxAsking]
    /\ pod \in [Pods -> {"stopped", "starting", "up", "stopping"}]
    /\ beat \in [Pods -> {"young", "old"}]
    /\ slot \in [Pods -> [Slots -> Jobs \cup {NoJob}]]
    /\ fresh \in [Pods -> SUBSET Slots]
    /\ active \in [Pods -> SUBSET Jobs]
    /\ hb \in [Pods -> {"sleep", "free", "busy"}]
    /\ idle \in BOOLEAN
    /\ cool \in BOOLEAN
    /\ faults \in 0..MaxFaults
    /\ unseen \in SUBSET Jobs
    /\ owed \in BOOLEAN

\* The jobs the slots of the burst worker run and are the owners of.
RunByBurst == {j \in LeasedBy("burst") : \E s \in Slots : slot["burst"][s] = j}

\* The jobs the burst worker loses when it stops its pod (worker.py,
\* _stop_runpod_pod) are leases it could not know of: newer than the list this
\* round has copied, or committed and not yet shown when it was copied, and in
\* either case only if no heartbeat of this round has given them back.  A job that
\* was shown before the list was made is never lost to the stop, even when the
\* heartbeat fails.  What is lost the watchdog has to find.
RunningSpared ==
    [][pod["burst"] = "up" /\ pod'["burst"] = "stopping"
          => RunByBurst \subseteq unseen]_vars

\* Nothing runs and nothing is on its way to run.
Stranded ==
    /\ QueuedJobs # {}
    /\ \A p \in Pods : pod[p] = "stopped"
    /\ asking = [check |-> 0, start |-> 0]

\* A queue that nobody serves and nobody is about to serve goes back to a
\* submission that saw the heartbeat of a worker that was gone or went (the 45 s
\* of handlers.go), to a start the provider refused, or to an outage after the
\* last submission: a submission that saw no worker never leaves it so.
StrandedUnseen == Stranded => ~owed

\* The pipeline ends on every job it is given.
JobsEnd == \A p \in Pods, s \in Slots : WF_vars(Finish(p, s))

\* Every job that was ever submitted is settled, which no step takes back.
AllSettled == \A j \in Jobs : row[j].status \in {"absent", "completed", "failed"}

\* Unless the queue ends up stranded, every submitted job is settled in the end,
\* whatever pods are stopped under it: the watchdog and the heartbeat of a pod that
\* comes back return its lease, and somebody takes it again (db.py, RecoverStaleJobs).
EveryJobDone == JobsEnd => <>[]Stranded \/ <>[]AllSettled

Backlog == Cardinality(QueuedJobs) >= Threshold

\* A queue of BURST_QUEUE_THRESHOLD jobs does not wait for ever behind a primary
\* worker that is busy with long recordings: it shrinks or the burst pod comes,
\* refused calls and the row of an earlier burst worker notwithstanding.
BurstComes ==
    Backlog /\ pod["primary"] = "up"
        ~> ~Backlog \/ pod["primary"] # "up" \/ pod["burst"] = "up"

\* When all work is done the burst pod does not stay: in the end it is stopped,
\* though a count read earlier may wake it once more and podStop may fail.
BurstGoes == <>[](active["burst"] = {} /\ AllSettled) => <>[](pod["burst"] = "stopped")
=============================================================================
