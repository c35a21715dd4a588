--------------------------- MODULE JobQueueProofs ---------------------------
(***************************************************************************)
(* TLAPS proofs about JobQueue, for every number of jobs, hosts and slots, *)
(* every retry limit and every bound on the faults: its invariants, how it *)
(* settles a job, and that it implements JobLifecycle.                     *)
(***************************************************************************)
EXTENDS JobQueue, TLAPS

-----------------------------------------------------------------------------
(* The inductive invariant                                                 *)

\* A slot that is not idle holds a job, and the job was submitted.
HeldIsSubmitted ==
    \A w \in Workers, s \in Slots :
        slot[w][s].pc # "idle" =>
            /\ slot[w][s].job \in Jobs
            /\ row[slot[w][s].job].status # "absent"

\* A job that was never submitted has left no trace.
AbsentIsBlank == \A j \in Jobs : row[j].status = "absent" => row[j] = NoRow

IndInv ==
    /\ TypeOK
    /\ HeldIsSubmitted
    /\ AbsentIsBlank
    /\ LeaseConsistent
    /\ RetryBounded
    /\ OutcomeNotified
    /\ ActiveIsHeld

\* The part of IndInv that speaks of one row r and its deliveries h alone.
RowInv(r, h) ==
    /\ r.status = "absent" => r = NoRow
    /\ r.status = "queued" =>
          r.worker = NoWorker /\ r.hb = "null" /\ r.stage = "queued"
    /\ r.status = "processing" =>
          /\ r.worker # NoWorker
          /\ r.hb # "null"
          /\ r.stage \in {"downloading"} \cup WorkStages
    /\ r.retry <= RetryLimit
    /\ r.status = "completed" => r.result = "json"
    /\ r.callback = "url" =>
          /\ r.status = "completed" => "completed" \in h
          /\ r.status = "failed" /\ r.err # "timeout" => "failed" \in h
    /\ "completed" \in h => r.result = "json"

RowsInv == \A j \in Jobs : RowInv(row[j], hooks[j])

\* The rows' part of the invariant, row by row.
LEMMA RowsInvDef ==
    AbsentIsBlank /\ LeaseConsistent /\ RetryBounded /\ OutcomeNotified <=> RowsInv
BY DEF AbsentIsBlank, LeaseConsistent, RetryBounded, OutcomeNotified, RowsInv, RowInv


-----------------------------------------------------------------------------
(* Rows: what each SET clause does to a row                                *)

\* The SET clauses keep a row a row.
LEMMA RowTypes ==
    ASSUME NEW r \in Rows
    PROVE  /\ NoRow \in Rows
           /\ \A cb \in {"null", "url"} : CreatedRow(cb) \in Rows
           /\ \A w \in Workers : LeasedRow(r, w) \in Rows
           /\ \A st \in WorkStages : ProgressRow(r, st) \in Rows
           /\ CancelledRow(r) \in Rows
           /\ CompletedRow(r) \in Rows
           /\ FailedRow(r) \in Rows
           /\ TimedOutRow(r) \in Rows
           /\ RequeuedRow(r) \in Rows
           /\ StaleRow(r) \in Rows
           /\ OrphanRow(r) \in Rows
           /\ RecoveredRow(r) \in Rows
           /\ [r EXCEPT !.worker = Ghost] \in Rows
           /\ [r EXCEPT !.hb = "fresh"] \in Rows
           /\ [r EXCEPT !.hb = "stale"] \in Rows
<1>1. NoRow \in Rows
  BY DEF Rows, NoRow, Status, Stages, Owners, Errors, Terminal
<1>2. \A cb \in {"null", "url"} : CreatedRow(cb) \in Rows
  BY <1>1 DEF Rows, CreatedRow, NoRow, Status, Stages, Owners, Errors, Terminal
<1>3. /\ \A w \in Workers : LeasedRow(r, w) \in Rows
      /\ \A st \in WorkStages : ProgressRow(r, st) \in Rows
      /\ CancelledRow(r) \in Rows
  BY DEF Rows, LeasedRow, ProgressRow, CancelledRow, Status, Stages, Owners,
         Errors, Terminal
<1>4. CompletedRow(r) \in Rows /\ FailedRow(r) \in Rows /\ TimedOutRow(r) \in Rows
  BY DEF Rows, CompletedRow, FailedRow, TimedOutRow, Status, Stages, Errors, Terminal
<1>5. OrphanRow(r) \in Rows /\ Unleased(r) \in Rows
  BY DEF Rows, OrphanRow, Unleased, Status, Stages, Owners
<1>6. RequeuedRow(r) \in Rows /\ StaleRow(r) \in Rows /\ RecoveredRow(r) \in Rows
  <2>1. r.retry + 1 \in Nat
    BY DEF Rows
  <2>2. ASSUME NEW u \in Rows, NEW n \in Nat, NEW e \in Errors
        PROVE  /\ [u EXCEPT !.retry = n, !.err = e] \in Rows
               /\ [u EXCEPT !.retry = n] \in Rows
               /\ [u EXCEPT !.err = e] \in Rows
    BY DEF Rows
  <2>3. "transient" \in Errors /\ "none" \in Errors
    BY DEF Errors
  <2> QED BY <1>5, <2>1, <2>2, <2>3 DEF RequeuedRow, StaleRow, RecoveredRow
<1>7. /\ [r EXCEPT !.worker = Ghost] \in Rows
      /\ [r EXCEPT !.hb = "fresh"] \in Rows
      /\ [r EXCEPT !.hb = "stale"] \in Rows
  BY DEF Rows, Owners
<1> QED BY <1>1, <1>2, <1>3, <1>4, <1>5, <1>6, <1>7

\* The retry limit is a number no smaller than max_retries.
LEMMA RetryLimitType == RetryLimit \in Nat /\ MaxRetries <= RetryLimit
BY ConstantsAssumption DEF RetryLimit

\* The SET clauses preserve the invariant of the rows their WHERE clauses match.
LEMMA RowSteps ==
    ASSUME NEW r \in Rows, NEW h \in SUBSET {"completed", "failed"}, RowInv(r, h)
    PROVE  /\ \A cb \in {"null", "url"} :
                 r.status = "absent" => RowInv(CreatedRow(cb), h)
           /\ Cancellable(r) => RowInv(CancelledRow(r), h)
           /\ \A w \in Workers : r.status = "queued" => RowInv(LeasedRow(r, w), h)
           /\ \A w \in Workers, st \in WorkStages :
                 OwnedBy(r, w) /\ r.status # "absent" => RowInv(ProgressRow(r, st), h)
           /\ r.status # "absent" =>
                 RowInv(CompletedRow(r), Told(r, h, "completed"))
           /\ r.status # "absent" => RowInv(FailedRow(r), Told(r, h, "failed"))
           /\ r.status # "absent" /\ Retryable(r) => RowInv(RequeuedRow(r), h)
           /\ StaleRetryable(r) => RowInv(StaleRow(r), h)
           /\ StaleExhausted(r) => RowInv(TimedOutRow(r), h)
           /\ r.status = "processing" => RowInv(OrphanRow(r), h)
           /\ DurationLimited(r) => RowInv(RecoveredRow(r), h)
           /\ \A w \in Workers :
                 r.worker = w => RowInv([r EXCEPT !.worker = Ghost], h)
           /\ r.status = "processing" => RowInv([r EXCEPT !.hb = "fresh"], h)
           /\ r.status = "processing" => RowInv([r EXCEPT !.hb = "stale"], h)
<1> USE RetryLimitType, ConstantsAssumption DEF RowInv, Rows
<1>1. \A cb \in {"null", "url"} : r.status = "absent" => RowInv(CreatedRow(cb), h)
  BY DEF CreatedRow, NoRow
<1>2. Cancellable(r) => RowInv(CancelledRow(r), h)
  BY DEF Cancellable, CancelledRow
<1>3. \A w \in Workers : r.status = "queued" => RowInv(LeasedRow(r, w), h)
  BY DEF LeasedRow
<1>4. \A w \in Workers, st \in WorkStages :
         OwnedBy(r, w) /\ r.status # "absent" => RowInv(ProgressRow(r, st), h)
  BY DEF OwnedBy, ProgressRow
<1>5. r.status # "absent" => RowInv(CompletedRow(r), Told(r, h, "completed"))
  BY DEF CompletedRow, Told
<1>6. r.status # "absent" => RowInv(FailedRow(r), Told(r, h, "failed"))
  BY DEF FailedRow, Told
<1>7. r.status # "absent" /\ Retryable(r) => RowInv(RequeuedRow(r), h)
  BY DEF Retryable, RequeuedRow, Unleased
<1>8. StaleRetryable(r) => RowInv(StaleRow(r), h)
  BY DEF StaleRetryable, IsStale, StaleRow, Unleased
<1>9. StaleExhausted(r) => RowInv(TimedOutRow(r), h)
  BY DEF StaleExhausted, IsStale, TimedOutRow
<1>10. r.status = "processing" => RowInv(OrphanRow(r), h)
  BY DEF OrphanRow, Unleased
<1>11. DurationLimited(r) => RowInv(RecoveredRow(r), h)
  BY DEF DurationLimited, RecoveredRow, Unleased
<1>12. \A w \in Workers : r.worker = w => RowInv([r EXCEPT !.worker = Ghost], h)
  BY DEF NoRow
<1>13. /\ r.status = "processing" => RowInv([r EXCEPT !.hb = "fresh"], h)
       /\ r.status = "processing" => RowInv([r EXCEPT !.hb = "stale"], h)
  OBVIOUS
<1> QED BY <1>1, <1>2, <1>3, <1>4, <1>5, <1>6, <1>7, <1>8, <1>9, <1>10, <1>11,
           <1>12, <1>13

\* The fault counter stays within its bound.
LEMMA FaultType ==
    ASSUME faults \in 0..MaxFaults, Fault
    PROVE  faults' \in 0..MaxFaults
BY ConstantsAssumption DEF Fault

-----------------------------------------------------------------------------
(* The rows, action by action                                              *)

\* What every step does for the rows: their type and invariant are kept, and
\* no submitted job disappears.
RowsKept ==
    /\ row' \in [Jobs -> Rows]
    /\ hooks' \in [Jobs -> SUBSET {"completed", "failed"}]
    /\ RowsInv'
    /\ \A j \in Jobs : row[j].status # "absent" => row'[j].status # "absent"

\* A statement that updates one row.
LEMMA OneRow ==
    ASSUME TypeOK, RowsInv, NEW j \in Jobs, NEW r \in Rows,
           row' = [row EXCEPT ![j] = r], r.status # "absent",
           \/ hooks' = hooks /\ RowInv(r, hooks[j])
           \/ \E kind \in {"completed", "failed"} :
                 /\ Notify(j, kind)
                 /\ RowInv(r, Told(row[j], hooks[j], kind))
    PROVE  RowsKept
<1>1. row' \in [Jobs -> Rows] /\ \A k \in Jobs : row'[k] = IF k = j THEN r ELSE row[k]
  BY DEF TypeOK
<1>2. CASE hooks' = hooks /\ RowInv(r, hooks[j])
  BY <1>1, <1>2 DEF TypeOK, RowsKept, RowsInv
<1>3. CASE \E kind \in {"completed", "failed"} :
             Notify(j, kind) /\ RowInv(r, Told(row[j], hooks[j], kind))
  <2>1. PICK kind \in {"completed", "failed"} :
             Notify(j, kind) /\ RowInv(r, Told(row[j], hooks[j], kind))
    BY <1>3
  <2>2. hooks' \in [Jobs -> SUBSET {"completed", "failed"}]
    BY <2>1 DEF TypeOK, Notify, Told
  <2>3. \A k \in Jobs : hooks'[k] = IF k = j THEN Told(row[j], hooks[j], kind)
                                            ELSE hooks[k]
    BY <2>1 DEF TypeOK, Notify
  <2> QED BY <1>1, <2>1, <2>2, <2>3 DEF RowsKept, RowsInv
<1> QED BY <1>2, <1>3

\* A statement, or a renaming of owners, that may update any row.
LEMMA ManyRows ==
    ASSUME TypeOK, RowsInv, UNCHANGED hooks,
           row' = [j \in Jobs |-> row'[j]],
           \A j \in Jobs : \/ row'[j] = row[j]
                           \/ /\ row'[j] \in Rows
                              /\ row'[j].status # "absent"
                              /\ RowInv(row'[j], hooks[j])
    PROVE  RowsKept
<1>1. row' \in [Jobs -> Rows]
  BY DEF TypeOK
<1> QED BY <1>1 DEF TypeOK, RowsKept, RowsInv

\* Every step of the system keeps the rows.
LEMMA RowsStep == IndInv /\ [Next]_vars => RowsKept
<1> SUFFICES ASSUME IndInv, [Next]_vars PROVE RowsKept
  OBVIOUS
<1>0. TypeOK /\ RowsInv /\ HeldIsSubmitted
  BY RowsInvDef DEF IndInv
<1>a. \A j \in Jobs : /\ row[j] \in Rows
                      /\ hooks[j] \in SUBSET {"completed", "failed"}
                      /\ RowInv(row[j], hooks[j])
  BY <1>0 DEF TypeOK, RowsInv
<1>same. ASSUME UNCHANGED <<row, hooks>> PROVE RowsKept
  BY <1>0, <1>same DEF TypeOK, RowsKept, RowsInv
<1>1. ASSUME NEW j \in Jobs, NEW cb \in {"null", "url"}, CreateJob(j, cb)
      PROVE  RowsKept
  <2>1. CreatedRow(cb) \in Rows /\ RowInv(CreatedRow(cb), hooks[j])
    BY <1>a, <1>1, RowTypes, RowSteps DEF CreateJob
  <2>2. CreatedRow(cb).status # "absent"
    BY DEF CreatedRow, NoRow
  <2> QED BY <1>0, <1>1, <2>1, <2>2, OneRow DEF CreateJob
<1>2. ASSUME NEW j \in Jobs, CancelJob(j) PROVE RowsKept
  <2>1. CancelledRow(row[j]) \in Rows /\ RowInv(CancelledRow(row[j]), hooks[j])
    BY <1>a, <1>2, RowTypes, RowSteps DEF CancelJob
  <2>2. CancelledRow(row[j]).status # "absent"
    BY <1>a DEF CancelledRow, Rows
  <2>3. row' = [row EXCEPT ![j] = CancelledRow(row[j])] /\ hooks' = hooks
    BY <1>2 DEF CancelJob
  <2> QED BY <1>0, <2>1, <2>2, <2>3, OneRow
<1>3. ASSUME NEW j \in Jobs, Expire(j) PROVE RowsKept
  <2>1. [row[j] EXCEPT !.hb = "stale"] \in Rows
        /\ RowInv([row[j] EXCEPT !.hb = "stale"], hooks[j])
    BY <1>a, <1>3, RowTypes, RowSteps DEF Expire
  <2>2. [row[j] EXCEPT !.hb = "stale"].status # "absent"
    BY <1>a, <1>3 DEF Expire, Rows
  <2>3. row' = [row EXCEPT ![j] = [row[j] EXCEPT !.hb = "stale"]] /\ hooks' = hooks
    BY <1>3 DEF Expire
  <2> QED BY <1>0, <2>1, <2>2, <2>3, OneRow
<1>4. ASSUME NEW w \in Workers, NEW s \in Slots, NEW j \in Jobs,
             dequeue_job(w, s, j) \/ DequeueUnacknowledged(w, s, j)
      PROVE  RowsKept
  <2>1. LeasedRow(row[j], w) \in Rows /\ RowInv(LeasedRow(row[j], w), hooks[j])
    BY <1>a, <1>4, RowTypes, RowSteps DEF dequeue_job, DequeueUnacknowledged
  <2>2. LeasedRow(row[j], w).status # "absent"
    BY <1>a DEF LeasedRow, Rows
  <2>3. row' = [row EXCEPT ![j] = LeasedRow(row[j], w)] /\ hooks' = hooks
    BY <1>4 DEF dequeue_job, DequeueUnacknowledged
  <2> QED BY <1>0, <2>1, <2>2, <2>3, OneRow
<1>h. ASSUME NEW w \in Workers, NEW s \in Slots, slot[w][s].pc # "idle"
      PROVE  /\ slot[w][s].job \in Jobs
             /\ row[slot[w][s].job].status # "absent"
  BY <1>0, <1>h DEF HeldIsSubmitted
<1>5. ASSUME NEW w \in Workers, NEW s \in Slots, NEW st \in WorkStages,
             update_job_progress(w, s, st)
      PROVE  RowsKept
  <2> DEFINE j == slot[w][s].job
             r == ProgressRow(row[j], st)
  <2>1. j \in Jobs /\ row[j].status # "absent"
    BY <1>5, <1>h DEF update_job_progress, At
  <2>2. r \in Rows /\ RowInv(r, hooks[j])
    BY <1>a, <1>5, <2>1, RowTypes, RowSteps DEF update_job_progress
  <2>3. r.status # "absent"
    BY <1>a, <2>1 DEF ProgressRow, Rows
  <2>4. row' = [row EXCEPT ![j] = r] /\ hooks' = hooks
    BY <1>5 DEF update_job_progress
  <2> HIDE DEF j, r
  <2> QED BY <1>0, <2>1, <2>2, <2>3, <2>4, OneRow
<1>c. ASSUME NEW w \in Workers, NEW s \in Slots, slot[w][s].pc # "idle",
             row' = [row EXCEPT ![slot[w][s].job] = CompletedRow(@)],
             Notify(slot[w][s].job, "completed")
      PROVE  RowsKept
  <2> DEFINE j == slot[w][s].job
             r == CompletedRow(row[j])
  <2>1. j \in Jobs /\ row[j].status # "absent"
    BY <1>c, <1>h
  <2>2. r \in Rows /\ RowInv(r, Told(row[j], hooks[j], "completed"))
    BY <1>a, <2>1, RowTypes, RowSteps
  <2>3. r.status # "absent"
    BY <1>a, <2>1 DEF CompletedRow, Rows
  <2>4. row' = [row EXCEPT ![j] = r] /\ Notify(j, "completed")
    BY <1>c
  <2> HIDE DEF j, r
  <2> QED BY <1>0, <2>1, <2>2, <2>3, <2>4, OneRow
<1>r. ASSUME NEW w \in Workers, NEW s \in Slots, slot[w][s].pc # "idle",
             Retryable(row[slot[w][s].job]), UNCHANGED hooks,
             row' = [row EXCEPT ![slot[w][s].job] = RequeuedRow(@)]
      PROVE  RowsKept
  <2> DEFINE j == slot[w][s].job
             r == RequeuedRow(row[j])
  <2>1. j \in Jobs /\ row[j].status # "absent"
    BY <1>r, <1>h
  <2>2. r \in Rows /\ RowInv(r, hooks[j])
    BY <1>a, <1>r, <2>1, RowTypes, RowSteps
  <2>3. r.status # "absent"
    BY <1>a, <2>1 DEF RequeuedRow, Unleased, Rows
  <2>4. row' = [row EXCEPT ![j] = r] /\ hooks' = hooks
    BY <1>r
  <2> HIDE DEF j, r
  <2> QED BY <1>0, <2>1, <2>2, <2>3, <2>4, OneRow
<1>6. ASSUME NEW w \in Workers, NEW s \in Slots, complete_job(w, s)
      PROVE  RowsKept
  BY <1>6, <1>c DEF complete_job, At
<1>7. ASSUME NEW w \in Workers, NEW s \in Slots, CompleteFails(w, s)
      PROVE  RowsKept
  BY <1>7, <1>c, <1>same DEF CompleteFails, At
<1>8. ASSUME NEW w \in Workers, NEW s \in Slots, requeue_job(w, s)
      PROVE  RowsKept
  BY <1>8, <1>r, <1>same DEF requeue_job, At
<1>9. ASSUME NEW w \in Workers, NEW s \in Slots, RequeueFails(w, s)
      PROVE  RowsKept
  BY <1>9, <1>r, <1>same DEF RequeueFails, At
<1>10. ASSUME NEW w \in Workers, NEW s \in Slots, fail_job(w, s)
       PROVE  RowsKept
  <2> DEFINE j == slot[w][s].job
             r == FailedRow(row[j])
  <2>1. j \in Jobs /\ row[j].status # "absent"
    BY <1>10, <1>h DEF fail_job, At
  <2>2. r \in Rows /\ RowInv(r, Told(row[j], hooks[j], "failed"))
    BY <1>a, <2>1, RowTypes, RowSteps
  <2>3. r.status # "absent"
    BY <1>a, <2>1 DEF FailedRow, Rows
  <2>4. row' = [row EXCEPT ![j] = r] /\ Notify(j, "failed")
    BY <1>10 DEF fail_job
  <2> HIDE DEF j, r
  <2> QED BY <1>0, <2>1, <2>2, <2>3, <2>4, OneRow
<1>11. ASSUME NEW w \in Workers, NEW s \in Slots,
              \/ Activate(w, s) \/ PipelineRaises(w, s)
              \/ FailFails(w, s) \/ Cleanup(w, s)
       PROVE  RowsKept
  BY <1>11, <1>same DEF Activate, PipelineRaises, FailFails, Cleanup
<1>12. ASSUME NEW w \in Workers, Start(w) PROVE RowsKept
  <2>1. PICK S \in SUBSET {j \in Jobs : DurationLimited(row[j])} :
            row' = [j \in Jobs |-> IF j \in S THEN RecoveredRow(row[j]) ELSE row[j]]
    BY <1>12 DEF Start
  <2>2. \A j \in S : /\ RecoveredRow(row[j]) \in Rows
                     /\ RecoveredRow(row[j]).status # "absent"
                     /\ RowInv(RecoveredRow(row[j]), hooks[j])
    <3> SUFFICES ASSUME NEW j \in S
                 PROVE  /\ RecoveredRow(row[j]) \in Rows
                        /\ RecoveredRow(row[j]).status # "absent"
                        /\ RowInv(RecoveredRow(row[j]), hooks[j])
      OBVIOUS
    <3>1. RecoveredRow(row[j]).status # "absent"
      BY <1>a DEF RecoveredRow, Unleased, Rows
    <3> QED BY <1>a, <3>1, RowTypes, RowSteps
  <2> QED BY <1>0, <1>12, <2>1, <2>2, ManyRows DEF Start
<1>d. ASSUME NEW w \in Workers, Die(w), UNCHANGED hooks PROVE RowsKept
  <2>1. ASSUME NEW j \in Jobs, row[j].worker = w
        PROVE  /\ [row[j] EXCEPT !.worker = Ghost] \in Rows
               /\ [row[j] EXCEPT !.worker = Ghost].status # "absent"
               /\ RowInv([row[j] EXCEPT !.worker = Ghost], hooks[j])
    <3>1. row[j].status # "absent"
      BY <1>a, <2>1, ConstantsAssumption DEF RowInv, NoRow
    <3>2. [row[j] EXCEPT !.worker = Ghost].status # "absent"
      BY <1>a, <3>1 DEF Rows
    <3> QED BY <1>a, <2>1, <3>2, RowTypes, RowSteps
  <2>2. CASE row' = row
    BY <1>d, <1>same, <2>2
  <2>3. CASE row' = [j \in Jobs |-> IF row[j].worker = w
                                    THEN [row[j] EXCEPT !.worker = Ghost]
                                    ELSE row[j]]
    BY <1>0, <1>d, <2>1, <2>3, ManyRows
  <2> QED BY <1>d, <2>2, <2>3 DEF Die
<1>13. ASSUME NEW w \in Workers, Crash(w) \/ \E s \in Slots : Execv(w, s)
       PROVE  RowsKept
  BY <1>13, <1>d DEF Crash, Execv
<1>14. ASSUME NEW w \in Workers, Snapshot(w) \/ HeartbeatFails(w) PROVE RowsKept
  BY <1>14, <1>same DEF Snapshot, HeartbeatFails
<1>15. ASSUME NEW w \in Workers, send_worker_heartbeat(w) PROVE RowsKept
  <2>1. ASSUME NEW j \in Jobs, row[j].status = "processing"
        PROVE  /\ OrphanRow(row[j]) \in Rows
               /\ OrphanRow(row[j]).status # "absent"
               /\ RowInv(OrphanRow(row[j]), hooks[j])
               /\ [row[j] EXCEPT !.hb = "fresh"] \in Rows
               /\ [row[j] EXCEPT !.hb = "fresh"].status # "absent"
               /\ RowInv([row[j] EXCEPT !.hb = "fresh"], hooks[j])
    <3>1. /\ OrphanRow(row[j]).status # "absent"
          /\ [row[j] EXCEPT !.hb = "fresh"].status # "absent"
      BY <1>a, <2>1 DEF OrphanRow, Unleased, Rows
    <3> QED BY <1>a, <2>1, <3>1, RowTypes, RowSteps
  <2>2. row' = [j \in Jobs |-> row'[j]]
    BY <1>15 DEF send_worker_heartbeat
  <2>3. ASSUME NEW j \in Jobs
        PROVE  \/ row'[j] = row[j]
               \/ row[j].status = "processing" /\ row'[j] = OrphanRow(row[j])
               \/ /\ row[j].status = "processing"
                  /\ row'[j] = [row[j] EXCEPT !.hb = "fresh"]
    BY <1>15 DEF send_worker_heartbeat, Orphaned
  <2> QED BY <1>0, <1>15, <2>1, <2>2, <2>3, ManyRows DEF send_worker_heartbeat
<1>16. ASSUME WatchdogRetry PROVE RowsKept
  <2>1. ASSUME NEW j \in Jobs, StaleRetryable(row[j])
        PROVE  /\ StaleRow(row[j]) \in Rows
               /\ StaleRow(row[j]).status # "absent"
               /\ RowInv(StaleRow(row[j]), hooks[j])
    <3>1. StaleRow(row[j]).status # "absent"
      BY <1>a DEF StaleRow, Unleased, Rows
    <3> QED BY <1>a, <2>1, <3>1, RowTypes, RowSteps
  <2> QED BY <1>0, <1>16, <2>1, ManyRows DEF WatchdogRetry
<1>17. ASSUME WatchdogFail PROVE RowsKept
  <2>1. ASSUME NEW j \in Jobs, StaleExhausted(row[j])
        PROVE  /\ TimedOutRow(row[j]) \in Rows
               /\ TimedOutRow(row[j]).status # "absent"
               /\ RowInv(TimedOutRow(row[j]), hooks[j])
    <3>1. TimedOutRow(row[j]).status # "absent"
      BY <1>a DEF TimedOutRow, Rows
    <3> QED BY <1>a, <2>1, <3>1, RowTypes, RowSteps
  <2> QED BY <1>0, <1>17, <2>1, ManyRows DEF WatchdogFail
<1>18. ASSUME WatchdogInterrupted PROVE RowsKept
  BY <1>18, <1>same DEF WatchdogInterrupted
<1>19. ASSUME UNCHANGED vars PROVE RowsKept
  BY <1>19, <1>same DEF vars
<1> QED
  BY <1>1, <1>2, <1>3, <1>4, <1>5, <1>6, <1>7, <1>8, <1>9, <1>10, <1>11, <1>12,
     <1>13, <1>14, <1>15, <1>16, <1>17, <1>18, <1>19
     DEF Next, SlotStep, SlotFault, Heartbeat, Watchdog

-----------------------------------------------------------------------------
(* The workers' own state, action by action                                *)

WorkerTypes ==
    /\ proc \in [Workers -> {"up", "down"}]
    /\ slot \in [Workers -> [Slots -> SlotStates]]
    /\ active \in [Workers -> SUBSET Jobs]
    /\ beat \in [Workers -> [pc: {"idle", "send"}, ids: SUBSET Jobs]]
    /\ dog \in {"idle", "fail"}
    /\ faults \in 0..MaxFaults

WorkersKept == WorkerTypes' /\ HeldIsSubmitted' /\ ActiveIsHeld'

\* Changing the control state of a slot keeps the type of all slots.
LEMMA GotoType ==
    ASSUME slot \in [Workers -> [Slots -> SlotStates]],
           NEW w \in Workers, NEW s \in Slots, NEW pc \in Holding, Goto(w, s, pc)
    PROVE  slot' \in [Workers -> [Slots -> SlotStates]]
<1> DEFINE x == [slot[w][s] EXCEPT !.pc = pc]
           y == [slot[w] EXCEPT ![s] = x]
<1>1. x \in SlotStates
  BY DEF SlotStates
<1>2. slot' = [slot EXCEPT ![w] = y]
  BY DEF Goto
<1> HIDE DEF x
<1>3. y \in [Slots -> SlotStates]
  BY <1>1
<1> HIDE DEF y
<1> QED BY <1>2, <1>3

\* A slot that holds a job moves on with it, past the point where it is active.
LEMMA SlotMoves ==
    ASSUME IndInv, RowsKept, NEW w \in Workers, NEW s \in Slots,
           NEW pc \in Holding \ {"leased"}, Goto(w, s, pc),
           slot[w][s].pc # "idle",
           active' = active,
           UNCHANGED <<proc, beat, dog>>, faults' \in 0..MaxFaults
    PROVE  WorkersKept
<1>1. slot' \in [Workers -> [Slots -> SlotStates]]
  BY GotoType DEF IndInv, TypeOK
<1>2. \A w2 \in Workers, s2 \in Slots :
         /\ slot'[w2][s2].job = slot[w2][s2].job
         /\ slot'[w2][s2].pc = IF w2 = w /\ s2 = s THEN pc ELSE slot[w2][s2].pc
  BY DEF IndInv, TypeOK, Goto, SlotStates
<1>3. HeldIsSubmitted'
  BY <1>2 DEF IndInv, HeldIsSubmitted, RowsKept
<1>4. ActiveIsHeld'
  BY <1>2 DEF IndInv, ActiveIsHeld, Holding
<1> QED BY <1>1, <1>3, <1>4 DEF WorkersKept, WorkerTypes, IndInv, TypeOK

\* A step that leaves slots and active sets alone.
LEMMA SlotsSame ==
    ASSUME IndInv, RowsKept, UNCHANGED <<slot, active>>, WorkerTypes'
    PROVE  WorkersKept
<1>1. HeldIsSubmitted'
  BY DEF IndInv, HeldIsSubmitted, RowsKept
<1>2. ActiveIsHeld'
  BY DEF IndInv, ActiveIsHeld
<1> QED BY <1>1, <1>2 DEF WorkersKept

\* A process that dies holds nothing.
LEMMA DieKept ==
    ASSUME IndInv, RowsKept, NEW w \in Workers, Die(w), UNCHANGED dog,
           faults' \in 0..MaxFaults
    PROVE  WorkersKept
<1>1. WorkerTypes'
  BY DEF IndInv, TypeOK, Die, WorkerTypes, SlotStates, IdleSlot, IdleBeat
<1>2. \A w2 \in Workers, s2 \in Slots :
         slot'[w2][s2] = IF w2 = w THEN IdleSlot ELSE slot[w2][s2]
  BY DEF IndInv, TypeOK, Die
<1>3. \A w2 \in Workers : active'[w2] = IF w2 = w THEN {} ELSE active[w2]
  BY DEF IndInv, TypeOK, Die
<1>4. HeldIsSubmitted'
  BY <1>2 DEF IndInv, HeldIsSubmitted, RowsKept, IdleSlot
<1>5. ActiveIsHeld'
  BY <1>2, <1>3 DEF IndInv, ActiveIsHeld
<1> QED BY <1>1, <1>4, <1>5 DEF WorkersKept

\* Every step of the system keeps the workers' part of the invariant.
LEMMA WorkersStep == IndInv /\ [Next]_vars => WorkersKept
<1> SUFFICES ASSUME IndInv, [Next]_vars PROVE WorkersKept
  OBVIOUS
<1>0. RowsKept /\ WorkerTypes
  BY RowsStep DEF IndInv, TypeOK, WorkerTypes
<1>f. /\ Fault => faults' \in 0..MaxFaults
      /\ UNCHANGED faults => faults' \in 0..MaxFaults
  BY <1>0, FaultType DEF WorkerTypes
<1>1. ASSUME NEW j \in Jobs,
             CancelJob(j) \/ Expire(j) \/ \E cb \in {"null", "url"} : CreateJob(j, cb)
      PROVE  WorkersKept
  BY <1>0, <1>1, <1>f, SlotsSame DEF CancelJob, Expire, CreateJob, worker, WorkerTypes
<1>2. ASSUME NEW w \in Workers, NEW s \in Slots, NEW j \in Jobs, dequeue_job(w, s, j)
      PROVE  WorkersKept
  <2>1. WorkerTypes'
    BY <1>0, <1>2 DEF WorkerTypes, dequeue_job, SlotStates, Holding
  <2>2. \A w2 \in Workers, s2 \in Slots :
           slot'[w2][s2] = IF w2 = w /\ s2 = s THEN [pc |-> "leased", job |-> j]
                                               ELSE slot[w2][s2]
    BY <1>0, <1>2 DEF WorkerTypes, dequeue_job
  <2>3. row'[j].status # "absent"
    BY <1>0, <1>2 DEF RowsKept, dequeue_job
  <2>4. HeldIsSubmitted'
    BY <1>0, <2>2, <2>3 DEF IndInv, HeldIsSubmitted, RowsKept
  <2>5. ActiveIsHeld'
    BY <1>2, <2>2 DEF IndInv, ActiveIsHeld, dequeue_job, At
  <2> QED BY <2>1, <2>4, <2>5 DEF WorkersKept
<1>3. ASSUME NEW w \in Workers, NEW s \in Slots,
             \/ \E j \in Jobs : DequeueUnacknowledged(w, s, j)
             \/ \E st \in WorkStages : update_job_progress(w, s, st)
      PROVE  WorkersKept
  BY <1>0, <1>3, <1>f, SlotsSame
     DEF DequeueUnacknowledged, update_job_progress, worker, WorkerTypes
<1>4. ASSUME NEW w \in Workers, NEW s \in Slots, Activate(w, s) PROVE WorkersKept
  <2>1. slot[w][s].job \in Jobs
    BY <1>4 DEF IndInv, HeldIsSubmitted, Activate, At
  <2>2. WorkerTypes'
    <3>1. slot' \in [Workers -> [Slots -> SlotStates]]
      BY <1>0, <1>4, GotoType DEF WorkerTypes, Activate, Holding
    <3> QED BY <1>0, <1>4, <2>1, <3>1 DEF WorkerTypes, Activate
  <2>3. \A w2 \in Workers, s2 \in Slots :
           /\ slot'[w2][s2].job = slot[w2][s2].job
           /\ slot'[w2][s2].pc = IF w2 = w /\ s2 = s THEN "running"
                                 ELSE slot[w2][s2].pc
    BY <1>0, <1>4 DEF WorkerTypes, Activate, Goto, SlotStates
  <2>4. \A w2 \in Workers :
           active'[w2] = IF w2 = w THEN active[w] \cup {slot[w][s].job} ELSE active[w2]
    BY <1>0, <1>4 DEF WorkerTypes, Activate
  <2>5. HeldIsSubmitted'
    BY <1>0, <1>4, <2>3 DEF IndInv, HeldIsSubmitted, RowsKept, Activate, At
  <2>6. ActiveIsHeld'
    BY <2>3, <2>4 DEF IndInv, ActiveIsHeld
  <2> QED BY <2>2, <2>5, <2>6 DEF WorkersKept
<1>5. ASSUME NEW w \in Workers, NEW s \in Slots,
             \/ complete_job(w, s) \/ CompleteFails(w, s) \/ PipelineRaises(w, s)
             \/ requeue_job(w, s) \/ RequeueFails(w, s)
             \/ fail_job(w, s) \/ FailFails(w, s)
      PROVE  WorkersKept
  <2>1. /\ slot[w][s].pc # "idle"
        /\ \E pc \in Holding \ {"leased"} : Goto(w, s, pc)
    BY <1>5 DEF complete_job, CompleteFails, PipelineRaises, requeue_job,
                RequeueFails, fail_job, FailFails, At, Holding
  <2>2. UNCHANGED <<proc, active, beat, dog>> /\ (Fault \/ UNCHANGED faults)
    BY <1>5 DEF complete_job, CompleteFails, PipelineRaises, requeue_job,
                RequeueFails, fail_job, FailFails
  <2> QED BY <1>0, <1>f, <2>1, <2>2, SlotMoves
<1>6. ASSUME NEW w \in Workers, NEW s \in Slots, Cleanup(w, s) PROVE WorkersKept
  <2>1. WorkerTypes'
    BY <1>0, <1>6 DEF WorkerTypes, Cleanup, SlotStates, IdleSlot
  <2>2. \A w2 \in Workers, s2 \in Slots :
           slot'[w2][s2] = IF w2 = w /\ s2 = s THEN IdleSlot ELSE slot[w2][s2]
    BY <1>0, <1>6 DEF WorkerTypes, Cleanup
  <2>3. \A w2 \in Workers :
           active'[w2] = IF w2 = w THEN active[w] \ {slot[w][s].job} ELSE active[w2]
    BY <1>0, <1>6 DEF WorkerTypes, Cleanup
  <2>4. HeldIsSubmitted'
    BY <1>0, <2>2 DEF IndInv, HeldIsSubmitted, RowsKept, IdleSlot
  <2>5. ActiveIsHeld'
    BY <2>2, <2>3 DEF IndInv, ActiveIsHeld
  <2> QED BY <2>1, <2>4, <2>5 DEF WorkersKept
<1>7. ASSUME NEW w \in Workers, Start(w) PROVE WorkersKept
  BY <1>0, <1>7, SlotsSame DEF Start, worker, WorkerTypes
<1>8. ASSUME NEW w \in Workers, Crash(w) \/ \E s \in Slots : Execv(w, s)
      PROVE  WorkersKept
  BY <1>0, <1>8, <1>f, DieKept DEF Crash, Execv
<1>9. ASSUME NEW w \in Workers,
             Snapshot(w) \/ send_worker_heartbeat(w) \/ HeartbeatFails(w)
      PROVE  WorkersKept
  BY <1>0, <1>9, <1>f, SlotsSame
     DEF Snapshot, send_worker_heartbeat, HeartbeatFails, WorkerTypes, IdleBeat
<1>10. ASSUME WatchdogRetry \/ WatchdogFail \/ WatchdogInterrupted
       PROVE  WorkersKept
  BY <1>0, <1>10, <1>f, SlotsSame
     DEF WatchdogRetry, WatchdogFail, WatchdogInterrupted, worker, WorkerTypes
<1>11. ASSUME UNCHANGED vars PROVE WorkersKept
  BY <1>0, <1>11, SlotsSame DEF vars, WorkerTypes
<1> QED
  BY <1>1, <1>2, <1>3, <1>4, <1>5, <1>6, <1>7, <1>8, <1>9, <1>10, <1>11
     DEF Next, SlotStep, SlotFault, Heartbeat, Watchdog

-----------------------------------------------------------------------------
(* The theorems                                                            *)

\* The invariant holds initially, whatever rows an older release left behind.
LEMMA InitInv == Init => IndInv
<1> SUFFICES ASSUME Init PROVE IndInv
  OBVIOUS
<1>1. \A r \in LegacyRows :
         /\ r \in Rows
         /\ r.status = "failed" /\ r.retry <= MaxRetries /\ r.result = "null"
  BY ConstantsAssumption
     DEF LegacyRows, Rows, Status, Stages, Owners, Errors, Terminal
<1>2. row \in [Jobs -> Rows]
  <2>1. NoRow \in Rows
    BY DEF NoRow, Rows, Status, Stages, Owners, Errors, Terminal
  <2> QED BY <1>1, <2>1 DEF Init
<1>3. TypeOK
  BY <1>2, ConstantsAssumption DEF Init, TypeOK, SlotStates, IdleSlot, IdleBeat
<1>4. RowsInv
  <2> SUFFICES ASSUME NEW j \in Jobs PROVE RowInv(row[j], hooks[j])
    BY DEF RowsInv
  <2>1. CASE row[j] = NoRow
    BY <2>1, RetryLimitType DEF Init, RowInv, NoRow
  <2>2. CASE row[j] \in LegacyRows
    BY <1>1, <2>2, RetryLimitType, ConstantsAssumption DEF Init, RowInv, Rows
  <2> QED BY <2>1, <2>2 DEF Init
<1>5. HeldIsSubmitted /\ ActiveIsHeld
  BY DEF Init, HeldIsSubmitted, ActiveIsHeld, IdleSlot
<1> QED BY <1>3, <1>4, <1>5, RowsInvDef DEF IndInv

\* The invariant is inductive.
LEMMA NextInv == IndInv /\ [Next]_vars => IndInv'
<1> SUFFICES ASSUME IndInv, [Next]_vars PROVE IndInv'
  OBVIOUS
<1>1. RowsKept /\ WorkersKept
  BY RowsStep, WorkersStep
<1>2. TypeOK'
  BY <1>1 DEF RowsKept, WorkersKept, WorkerTypes, TypeOK
<1>3. (AbsentIsBlank /\ LeaseConsistent /\ RetryBounded /\ OutcomeNotified)'
  BY <1>1 DEF RowsKept, AbsentIsBlank, LeaseConsistent, RetryBounded,
              OutcomeNotified, RowsInv, RowInv
<1> QED BY <1>1, <1>2, <1>3 DEF IndInv, WorkersKept

\* IndInv is an invariant of the job queue.
THEOREM Inductive == Spec => []IndInv
BY InitInv, NextInv, PTL DEF Spec

\* Every variable of the job queue keeps its type.
THEOREM TypeCorrect == Spec => []TypeOK
<1>1. IndInv => TypeOK
  BY DEF IndInv
<1> QED BY <1>1, Inductive, PTL

\* No interleaving of leases, late progress reports, heartbeats and watchdog
\* sweeps leaves a queued row with an owner or a leased row without one.
THEOREM LeaseSafe == Spec => []LeaseConsistent
<1>1. IndInv => LeaseConsistent
  BY DEF IndInv
<1> QED BY <1>1, Inductive, PTL

\* The two retry paths, with their different limits, never pass GREATEST of both.
THEOREM RetrySafe == Spec => []RetryBounded
<1>1. IndInv => RetryBounded
  BY DEF IndInv
<1> QED BY <1>1, Inductive, PTL

\* A settled row and the deliveries inserted for it tell the same story; only
\* the watchdog's failures are silent.
THEOREM NotificationSafe == Spec => []OutcomeNotified
<1>1. IndInv => OutcomeNotified
  BY DEF IndInv
<1> QED BY <1>1, Inductive, PTL

\* A heartbeat never refreshes a job that its process has let go of.
THEOREM ActiveSafe == Spec => []ActiveIsHeld
<1>1. IndInv => ActiveIsHeld
  BY DEF IndInv
<1> QED BY <1>1, Inductive, PTL

-----------------------------------------------------------------------------
(* Settled jobs                                                            *)

\* The action of SettledStays, for one job.
Unsettled(j) ==
    row[j].status \in Terminal /\ row'[j].status # row[j].status =>
        \/ DurationLimited(row[j])
        \/ \E w \in Workers, s \in Slots :
              /\ slot[w][s].job = j
              /\ slot[w][s].pc \in {"running", "raised", "failing"}

\* A step unsettles a job only from a slot that executes it, or by recovery.
LEMMA SettledStep ==
    ASSUME TypeOK, [Next]_vars, NEW j \in Jobs
    PROVE  Unsettled(j)
<1> SUFFICES ASSUME row[j].status \in Terminal, row'[j].status # row[j].status
             PROVE  \/ DurationLimited(row[j])
                    \/ \E w \in Workers, s \in Slots :
                          /\ slot[w][s].job = j
                          /\ slot[w][s].pc \in {"running", "raised", "failing"}
  BY DEF Unsettled
<1>0. row[j] \in Rows /\ row[j].status \notin {"absent", "queued", "processing"}
  BY DEF TypeOK, Terminal
<1>1. ASSUME NEW k \in Jobs,
             CancelJob(k) \/ Expire(k) \/ \E cb \in {"null", "url"} : CreateJob(k, cb)
      PROVE  FALSE
  BY <1>0, <1>1 DEF TypeOK, CancelJob, Cancellable, Expire, CreateJob
<1>2. ASSUME NEW w \in Workers, NEW s \in Slots, NEW k \in Jobs,
             dequeue_job(w, s, k) \/ DequeueUnacknowledged(w, s, k)
      PROVE  FALSE
  BY <1>0, <1>2 DEF TypeOK, dequeue_job, DequeueUnacknowledged
<1>3. ASSUME NEW w \in Workers, NEW s \in Slots, NEW st \in WorkStages,
             update_job_progress(w, s, st)
      PROVE  slot[w][s].job = j /\ slot[w][s].pc = "running"
  BY <1>0, <1>3 DEF TypeOK, update_job_progress, At
<1>4. ASSUME NEW w \in Workers, NEW s \in Slots,
             \/ complete_job(w, s) \/ CompleteFails(w, s)
             \/ requeue_job(w, s) \/ RequeueFails(w, s) \/ fail_job(w, s)
      PROVE  slot[w][s].job = j /\ slot[w][s].pc \in {"running", "raised", "failing"}
  BY <1>0, <1>4 DEF TypeOK, complete_job, CompleteFails, requeue_job,
                    RequeueFails, fail_job, At
<1>5. ASSUME NEW w \in Workers, NEW s \in Slots,
             \/ Activate(w, s) \/ PipelineRaises(w, s)
             \/ FailFails(w, s) \/ Cleanup(w, s)
      PROVE  FALSE
  BY <1>5 DEF Activate, PipelineRaises, FailFails, Cleanup
<1>6. ASSUME NEW w \in Workers, Start(w) PROVE DurationLimited(row[j])
  BY <1>6 DEF Start
<1>7. ASSUME NEW w \in Workers, Crash(w) \/ \E s \in Slots : Execv(w, s)
      PROVE  FALSE
  <2>1. \/ row' = row
        \/ row' = [k \in Jobs |-> IF row[k].worker = w
                                  THEN [row[k] EXCEPT !.worker = Ghost]
                                  ELSE row[k]]
    BY <1>7 DEF Crash, Execv, Die
  <2> QED BY <1>0, <2>1 DEF Rows
<1>8. ASSUME NEW w \in Workers,
             Snapshot(w) \/ send_worker_heartbeat(w) \/ HeartbeatFails(w)
      PROVE  FALSE
  BY <1>0, <1>8 DEF Snapshot, send_worker_heartbeat, HeartbeatFails, Orphaned
<1>9. ASSUME WatchdogRetry \/ WatchdogFail \/ WatchdogInterrupted
      PROVE  FALSE
  BY <1>0, <1>9 DEF WatchdogRetry, WatchdogFail, WatchdogInterrupted,
                    StaleRetryable, StaleExhausted, IsStale
<1>10. ASSUME UNCHANGED vars PROVE FALSE
  BY <1>10 DEF vars
<1> QED
  BY <1>1, <1>2, <1>3, <1>4, <1>5, <1>6, <1>7, <1>8, <1>9, <1>10
     DEF Next, SlotStep, SlotFault, Heartbeat, Watchdog

\* No statement of the watchdog, of a heartbeat or of the API touches a settled
\* job: only a slot still executing it, or the duration-limit recovery, does.
THEOREM SettledSafe == Spec => SettledStays
<1>1. TypeOK /\ [Next]_vars =>
        [\A j \in Jobs :
            row[j].status \in Terminal /\ row'[j].status # row[j].status =>
              \/ DurationLimited(row[j])
              \/ \E w \in Workers, s \in Slots :
                    /\ slot[w][s].job = j
                    /\ slot[w][s].pc \in {"running", "raised", "failing"}]_vars
  BY SettledStep DEF Unsettled
<1> QED BY <1>1, TypeCorrect, PTL DEF Spec, SettledStays

-----------------------------------------------------------------------------
(* JobQueue implements JobLifecycle.  The step of JobLifecycle is restated *)
(* on one row and its executors, without primes (LifeRow).  Each SET       *)
(* clause is shown to be such a step of the rows its WHERE clause matches, *)
(* each move of a slot to keep, add or remove executors, and each action   *)
(* then follows from the two.                                              *)

\* A step of one job from row r with executors e to row q with executors f.
LifeRow(r, q, e, f) ==
    /\ DurationLimited(q) => DurationLimited(r)
    /\ \/ r.status = "absent" /\ q.status = "queued" /\ q.result = r.result /\ f = e
       \/ /\ r.status \in {"queued", "processing"} /\ q.status = "cancelled"
          /\ q.result = r.result /\ f = e
       \/ /\ r.status = "queued" /\ q.status = "processing" /\ q.result = r.result
          /\ f = e \/ \E x \in Workers \X Slots : f = e \cup {x}
       \/ /\ r.status = "processing" /\ q.status \in {"queued", "failed"}
          /\ q.result = r.result /\ f = e
       \/ DurationLimited(r) /\ q.status = "queued" /\ q.result = r.result /\ f = e
       \/ /\ e # {} /\ f = e
          /\ \/ q.status = "completed" /\ q.result = "json"
             \/ q.status \in {"failed", "queued"} /\ q.result = r.result
       \/ q.status = r.status /\ q.result = r.result /\ f \subseteq e

LifeStep ==
    \A j \in Jobs : LifeRow(row[j], row'[j], Executing[j], Executing'[j])

-----------------------------------------------------------------------------
(* Rows                                                                    *)

\* The statements, row by row: what each SET clause is to a reader.
LEMMA LifeRows ==
    ASSUME NEW r \in Rows, NEW e
    PROVE  /\ LifeRow(r, r, e, e)
           /\ \A cb \in {"null", "url"} :
                 r = NoRow => LifeRow(r, CreatedRow(cb), e, e)
           /\ Cancellable(r) => LifeRow(r, CancelledRow(r), e, e)
           /\ \A w \in Workers : r.status = "queued" =>
                 /\ LifeRow(r, LeasedRow(r, w), e, e)
                 /\ \A x \in Workers \X Slots :
                       LifeRow(r, LeasedRow(r, w), e, e \cup {x})
           /\ \A st \in WorkStages : LifeRow(r, ProgressRow(r, st), e, e)
           /\ e # {} => /\ LifeRow(r, CompletedRow(r), e, e)
                        /\ LifeRow(r, FailedRow(r), e, e)
                        /\ LifeRow(r, RequeuedRow(r), e, e)
           /\ r.status = "processing" =>
                 /\ LifeRow(r, StaleRow(r), e, e)
                 /\ LifeRow(r, TimedOutRow(r), e, e)
                 /\ LifeRow(r, OrphanRow(r), e, e)
                 /\ LifeRow(r, [r EXCEPT !.hb = "fresh"], e, e)
                 /\ LifeRow(r, [r EXCEPT !.hb = "stale"], e, e)
           /\ DurationLimited(r) => LifeRow(r, RecoveredRow(r), e, e)
           /\ \A f \in SUBSET e :
                 /\ LifeRow(r, r, e, f)
                 /\ LifeRow(r, [r EXCEPT !.worker = Ghost], e, f)
<1> USE DEF LifeRow, DurationLimited, Rows
<1>1. LifeRow(r, r, e, e) /\ \A f \in SUBSET e : LifeRow(r, r, e, f)
  OBVIOUS
<1>2. \A cb \in {"null", "url"} : r = NoRow => LifeRow(r, CreatedRow(cb), e, e)
  BY DEF NoRow, CreatedRow
<1>3. Cancellable(r) => LifeRow(r, CancelledRow(r), e, e)
  BY DEF Cancellable, CancelledRow
<1>4. \A w \in Workers : r.status = "queued" =>
         /\ LifeRow(r, LeasedRow(r, w), e, e)
         /\ \A x \in Workers \X Slots : LifeRow(r, LeasedRow(r, w), e, e \cup {x})
  BY DEF LeasedRow
<1>5. \A st \in WorkStages : LifeRow(r, ProgressRow(r, st), e, e)
  BY DEF ProgressRow
<1>6. e # {} => LifeRow(r, CompletedRow(r), e, e) /\ LifeRow(r, FailedRow(r), e, e)
  BY DEF CompletedRow, FailedRow
<1>7. e # {} => LifeRow(r, RequeuedRow(r), e, e)
  BY DEF RequeuedRow, Unleased
<1>8. r.status = "processing" =>
         LifeRow(r, StaleRow(r), e, e) /\ LifeRow(r, OrphanRow(r), e, e)
  BY DEF StaleRow, OrphanRow, Unleased
<1>9. r.status = "processing" => LifeRow(r, TimedOutRow(r), e, e)
  BY DEF TimedOutRow
<1>10. /\ LifeRow(r, [r EXCEPT !.hb = "fresh"], e, e)
       /\ LifeRow(r, [r EXCEPT !.hb = "stale"], e, e)
  OBVIOUS
<1>11. DurationLimited(r) => LifeRow(r, RecoveredRow(r), e, e)
  BY DEF RecoveredRow, Unleased
<1>12. \A f \in SUBSET e : LifeRow(r, [r EXCEPT !.worker = Ghost], e, f)
  OBVIOUS
<1> QED BY <1>1, <1>2, <1>3, <1>4, <1>5, <1>6, <1>7, <1>8, <1>9, <1>10, <1>11, <1>12

-----------------------------------------------------------------------------
(* Executors                                                               *)

\* Who executes a job depends on the slots alone.
LEMMA SlotsKeep ==
    ASSUME UNCHANGED slot PROVE Executing' = Executing
BY DEF Executing, Holds

\* A slot that moves on from one statement to the next keeps its job.
LEMMA GotoKeeps ==
    ASSUME TypeOK, NEW w \in Workers, NEW s \in Slots, NEW pc \in Holding,
           slot[w][s].pc # "idle", Goto(w, s, pc)
    PROVE  Executing' = Executing
<1>1. \A v \in Workers, t \in Slots :
         /\ slot'[v][t].job = slot[v][t].job
         /\ slot'[v][t].pc # "idle" <=> slot[v][t].pc # "idle"
  BY DEF TypeOK, SlotStates, Goto, Holding
<1>2. \A x \in Workers \X Slots, j \in Jobs : Holds(x[1], x[2], j)' <=> Holds(x[1], x[2], j)
  BY <1>1 DEF Holds
<1> QED BY <1>2 DEF Executing

\* Slots that become idle only take executors away.
LEMMA IdleShrinks ==
    ASSUME TypeOK,
           \A v \in Workers, t \in Slots :
              slot'[v][t] = slot[v][t] \/ slot'[v][t] = IdleSlot
    PROVE  \A j \in Jobs : Executing'[j] \subseteq Executing[j]
<1>1. \A x \in Workers \X Slots, j \in Jobs : Holds(x[1], x[2], j)' => Holds(x[1], x[2], j)
  BY DEF Holds, IdleSlot
<1> QED BY <1>1 DEF Executing

\* A slot at work on a job is among its executors.
LEMMA HolderExecutes ==
    ASSUME NEW w \in Workers, NEW s \in Slots, slot[w][s].pc # "idle",
           slot[w][s].job \in Jobs
    PROVE  Executing[slot[w][s].job] # {}
<1>1. <<w, s>> \in {x \in Workers \X Slots : Holds(x[1], x[2], slot[w][s].job)}
  BY DEF Holds
<1> QED BY <1>1 DEF Executing

\* A lease makes an idle slot an executor of the leased job, and of no other.
LEMMA DequeueAdds ==
    ASSUME TypeOK, NEW w \in Workers, NEW s \in Slots, NEW j \in Jobs,
           slot[w][s].pc = "idle",
           slot' = [slot EXCEPT ![w][s] = [pc |-> "leased", job |-> j]]
    PROVE  /\ Executing'[j] = Executing[j] \cup {<<w, s>>}
           /\ \A k \in Jobs \ {j} : Executing'[k] = Executing[k]
<1>1. \A v \in Workers, t \in Slots :
         slot'[v][t] = IF <<v, t>> = <<w, s>> THEN [pc |-> "leased", job |-> j]
                                             ELSE slot[v][t]
  BY DEF TypeOK
<1>2. \A x \in Workers \X Slots, k \in Jobs :
         Holds(x[1], x[2], k)' <=> \/ Holds(x[1], x[2], k)
                                   \/ x = <<w, s>> /\ k = j
  BY <1>1 DEF Holds
<1> QED BY <1>2 DEF Executing

-----------------------------------------------------------------------------
(* Steps                                                                   *)

\* One row changes, the executors do not.
LEMMA OneLife ==
    ASSUME TypeOK, NEW j \in Jobs, NEW r, row' = [row EXCEPT ![j] = r],
           Executing' = Executing, LifeRow(row[j], r, Executing[j], Executing[j])
    PROVE  LifeStep
<1>1. \A k \in Jobs : row'[k] = IF k = j THEN r ELSE row[k]
  BY DEF TypeOK
<1>2. \A k \in Jobs : LifeRow(row[k], row[k], Executing[k], Executing[k])
  BY LifeRows DEF TypeOK
<1> QED BY <1>1, <1>2 DEF LifeStep

\* Every step of the queue is a step of every job's life.
LEMMA QueueLife == IndInv /\ [Next]_vars => LifeStep
<1> SUFFICES ASSUME IndInv, [Next]_vars PROVE LifeStep
  OBVIOUS
<1>0. TypeOK /\ HeldIsSubmitted /\ AbsentIsBlank
  BY DEF IndInv
<1>a. \A j \in Jobs : row[j] \in Rows
  BY <1>0 DEF TypeOK
<1>h. ASSUME NEW w \in Workers, NEW s \in Slots, slot[w][s].pc # "idle"
      PROVE  slot[w][s].job \in Jobs /\ Executing[slot[w][s].job] # {}
  BY <1>0, <1>h, HolderExecutes DEF HeldIsSubmitted
<1>same. ASSUME UNCHANGED row, Executing' = Executing PROVE LifeStep
  BY <1>a, <1>same, LifeRows DEF LifeStep
<1>less. ASSUME UNCHANGED row, \A j \in Jobs : Executing'[j] \subseteq Executing[j]
         PROVE  LifeStep
  BY <1>a, <1>less, LifeRows DEF LifeStep
<1>1. ASSUME NEW j \in Jobs, NEW cb \in {"null", "url"}, CreateJob(j, cb)
      PROVE  LifeStep
  <2>1. row[j] = NoRow
    BY <1>0, <1>1 DEF CreateJob, AbsentIsBlank
  <2>2. LifeRow(row[j], CreatedRow(cb), Executing[j], Executing[j])
    BY <1>a, <2>1, LifeRows
  <2> QED BY <1>0, <1>1, <2>2, SlotsKeep, OneLife DEF CreateJob, worker
<1>2. ASSUME NEW j \in Jobs, CancelJob(j) PROVE LifeStep
  <2>1. LifeRow(row[j], CancelledRow(row[j]), Executing[j], Executing[j])
    BY <1>a, <1>2, LifeRows DEF CancelJob
  <2> QED BY <1>0, <1>2, <2>1, SlotsKeep, OneLife DEF CancelJob, worker
<1>3. ASSUME NEW j \in Jobs, Expire(j) PROVE LifeStep
  <2>1. LifeRow(row[j], [row[j] EXCEPT !.hb = "stale"], Executing[j], Executing[j])
    BY <1>a, <1>3, LifeRows DEF Expire
  <2>2. row' = [row EXCEPT ![j] = [row[j] EXCEPT !.hb = "stale"]]
    BY <1>3 DEF Expire
  <2> QED BY <1>0, <1>3, <2>1, <2>2, SlotsKeep, OneLife DEF Expire, worker
<1>4. ASSUME NEW w \in Workers, NEW s \in Slots, NEW j \in Jobs, dequeue_job(w, s, j)
      PROVE  LifeStep
  <2>1. /\ Executing'[j] = Executing[j] \cup {<<w, s>>}
        /\ \A k \in Jobs \ {j} : Executing'[k] = Executing[k]
    BY <1>0, <1>4, DequeueAdds DEF dequeue_job, At
  <2>2. \A k \in Jobs : row'[k] = IF k = j THEN LeasedRow(row[j], w) ELSE row[k]
    BY <1>0, <1>4 DEF dequeue_job, TypeOK
  <2>3. LifeRow(row[j], row'[j], Executing[j], Executing'[j])
    <3>1. \A x \in Workers \X Slots :
             LifeRow(row[j], LeasedRow(row[j], w), Executing[j], Executing[j] \cup {x})
      BY <1>a, <1>4, LifeRows DEF dequeue_job
    <3> QED BY <2>1, <2>2, <3>1
  <2>4. ASSUME NEW k \in Jobs \ {j}
        PROVE  LifeRow(row[k], row'[k], Executing[k], Executing'[k])
    BY <1>a, <2>1, <2>2, LifeRows
  <2> QED BY <2>3, <2>4 DEF LifeStep
<1>5. ASSUME NEW w \in Workers, NEW s \in Slots, NEW j \in Jobs,
             DequeueUnacknowledged(w, s, j)
      PROVE  LifeStep
  <2>1. LifeRow(row[j], LeasedRow(row[j], w), Executing[j], Executing[j])
    BY <1>a, <1>5, LifeRows DEF DequeueUnacknowledged
  <2> QED BY <1>0, <1>5, <2>1, SlotsKeep, OneLife DEF DequeueUnacknowledged, worker
<1>6. ASSUME NEW w \in Workers, NEW s \in Slots, NEW st \in WorkStages,
             update_job_progress(w, s, st)
      PROVE  LifeStep
  <2> DEFINE j == slot[w][s].job
  <2>1. j \in Jobs
    BY <1>6, <1>h DEF update_job_progress, At
  <2>2. LifeRow(row[j], ProgressRow(row[j], st), Executing[j], Executing[j])
    BY <1>a, <2>1, LifeRows
  <2>3. row' = [row EXCEPT ![j] = ProgressRow(row[j], st)] /\ Executing' = Executing
    BY <1>6, SlotsKeep DEF update_job_progress, worker
  <2> HIDE DEF j
  <2> QED BY <1>0, <2>1, <2>2, <2>3, OneLife
<1>go. ASSUME NEW w \in Workers, NEW s \in Slots, slot[w][s].pc # "idle",
              \E pc \in Holding : Goto(w, s, pc)
       PROVE  Executing' = Executing
  BY <1>0, <1>go, GotoKeeps
<1>set. ASSUME NEW w \in Workers, NEW s \in Slots, slot[w][s].pc # "idle",
               \E pc \in Holding : Goto(w, s, pc),
               \/ row' = [row EXCEPT ![slot[w][s].job] = CompletedRow(@)]
               \/ row' = [row EXCEPT ![slot[w][s].job] = FailedRow(@)]
               \/ row' = [row EXCEPT ![slot[w][s].job] = RequeuedRow(@)]
        PROVE  LifeStep
  <2> DEFINE j == slot[w][s].job
  <2>1. j \in Jobs /\ Executing[j] # {} /\ Executing' = Executing
    BY <1>set, <1>h, <1>go
  <2>2. /\ LifeRow(row[j], CompletedRow(row[j]), Executing[j], Executing[j])
        /\ LifeRow(row[j], FailedRow(row[j]), Executing[j], Executing[j])
        /\ LifeRow(row[j], RequeuedRow(row[j]), Executing[j], Executing[j])
    BY <1>a, <2>1, LifeRows
  <2>3. \/ row' = [row EXCEPT ![j] = CompletedRow(row[j])]
        \/ row' = [row EXCEPT ![j] = FailedRow(row[j])]
        \/ row' = [row EXCEPT ![j] = RequeuedRow(row[j])]
    BY <1>set
  <2> HIDE DEF j
  <2> QED BY <1>0, <2>1, <2>2, <2>3, OneLife
<1>7. ASSUME NEW w \in Workers, NEW s \in Slots,
             complete_job(w, s) \/ CompleteFails(w, s)
      PROVE  LifeStep
  BY <1>7, <1>set, <1>go, <1>same DEF complete_job, CompleteFails, At, Holding
<1>8. ASSUME NEW w \in Workers, NEW s \in Slots,
             requeue_job(w, s) \/ RequeueFails(w, s)
      PROVE  LifeStep
  BY <1>8, <1>set, <1>go, <1>same DEF requeue_job, RequeueFails, At, Holding
<1>9. ASSUME NEW w \in Workers, NEW s \in Slots, fail_job(w, s) \/ FailFails(w, s)
      PROVE  LifeStep
  BY <1>9, <1>set, <1>go, <1>same DEF fail_job, FailFails, At, Holding
<1>10. ASSUME NEW w \in Workers, NEW s \in Slots, Activate(w, s) \/ PipelineRaises(w, s)
       PROVE  LifeStep
  BY <1>10, <1>go, <1>same DEF Activate, PipelineRaises, At, Holding
<1>11. ASSUME NEW w \in Workers, NEW s \in Slots, Cleanup(w, s) PROVE LifeStep
  <2>1. \A v \in Workers, t \in Slots :
           slot'[v][t] = slot[v][t] \/ slot'[v][t] = IdleSlot
    BY <1>0, <1>11 DEF Cleanup, TypeOK
  <2> QED BY <1>0, <1>11, <1>less, <2>1, IdleShrinks DEF Cleanup
<1>12. ASSUME NEW w \in Workers, Start(w) PROVE LifeStep
  <2>1. PICK S \in SUBSET {j \in Jobs : DurationLimited(row[j])} :
            row' = [j \in Jobs |-> IF j \in S THEN RecoveredRow(row[j]) ELSE row[j]]
    BY <1>12 DEF Start
  <2>2. Executing' = Executing
    BY <1>12, SlotsKeep DEF Start, worker
  <2>3. \A j \in S : LifeRow(row[j], RecoveredRow(row[j]), Executing[j], Executing[j])
    BY <1>a, LifeRows
  <2> QED BY <1>a, <2>1, <2>2, <2>3, LifeRows DEF LifeStep
<1>13. ASSUME NEW w \in Workers, Crash(w) \/ \E s \in Slots : Execv(w, s)
       PROVE  LifeStep
  <2>1. Die(w)
    BY <1>13 DEF Crash, Execv
  <2>2. \A v \in Workers, t \in Slots :
           slot'[v][t] = slot[v][t] \/ slot'[v][t] = IdleSlot
    BY <1>0, <2>1 DEF Die, TypeOK
  <2>3. \A j \in Jobs : Executing'[j] \subseteq Executing[j]
    BY <1>0, <2>2, IdleShrinks
  <2>4. \A j \in Jobs : \/ row'[j] = row[j]
                        \/ row'[j] = [row[j] EXCEPT !.worker = Ghost]
    BY <2>1 DEF Die
  <2>5. ASSUME NEW j \in Jobs
        PROVE  LifeRow(row[j], row'[j], Executing[j], Executing'[j])
    <3>1. \A f \in SUBSET Executing[j] :
             /\ LifeRow(row[j], row[j], Executing[j], f)
             /\ LifeRow(row[j], [row[j] EXCEPT !.worker = Ghost], Executing[j], f)
      BY <1>a, LifeRows
    <3> QED BY <2>3, <2>4, <3>1
  <2> QED BY <2>5 DEF LifeStep
<1>14. ASSUME NEW w \in Workers, Snapshot(w) \/ HeartbeatFails(w) PROVE LifeStep
  BY <1>14, <1>same, SlotsKeep DEF Snapshot, HeartbeatFails
<1>15. ASSUME NEW w \in Workers, send_worker_heartbeat(w) PROVE LifeStep
  <2>1. \A j \in Jobs :
           \/ row'[j] = row[j]
           \/ row[j].status = "processing" /\ row'[j] = OrphanRow(row[j])
           \/ row[j].status = "processing" /\ row'[j] = [row[j] EXCEPT !.hb = "fresh"]
    BY <1>15 DEF send_worker_heartbeat, Orphaned
  <2>2. Executing' = Executing
    BY <1>15, SlotsKeep DEF send_worker_heartbeat
  <2> QED BY <1>a, <2>1, <2>2, LifeRows DEF LifeStep
<1>16. ASSUME WatchdogRetry \/ WatchdogFail PROVE LifeStep
  <2>1. \A j \in Jobs :
           \/ row'[j] = row[j]
           \/ row[j].status = "processing" /\ row'[j] = StaleRow(row[j])
           \/ row[j].status = "processing" /\ row'[j] = TimedOutRow(row[j])
    BY <1>16 DEF WatchdogRetry, WatchdogFail, StaleRetryable, StaleExhausted, IsStale
  <2>2. Executing' = Executing
    BY <1>16, SlotsKeep DEF WatchdogRetry, WatchdogFail, worker
  <2> QED BY <1>a, <2>1, <2>2, LifeRows DEF LifeStep
<1>17. ASSUME WatchdogInterrupted \/ UNCHANGED vars PROVE LifeStep
  BY <1>17, <1>same, SlotsKeep DEF WatchdogInterrupted, worker, vars
<1> QED
  BY <1>1, <1>2, <1>3, <1>4, <1>5, <1>6, <1>7, <1>8, <1>9, <1>10, <1>11, <1>12,
     <1>13, <1>14, <1>15, <1>16, <1>17
     DEF Next, SlotStep, SlotFault, Heartbeat, Watchdog

-----------------------------------------------------------------------------
(* The refinement                                                          *)

\* The queue starts as JobLifecycle does.
LEMMA LifeBegins == Init => Life!LifeInit
<1> SUFFICES ASSUME Init PROVE Life!LifeInit
  OBVIOUS
<1>1. \A j \in Jobs :
         /\ row[j].status = IF j \in LegacyJobs THEN "failed" ELSE "absent"
         /\ row[j].result = "null"
         /\ DurationLimited(row[j]) <=> j \in LegacyJobs
  <2> TAKE j \in Jobs
  <2>1. row[j] = NoRow \/ row[j] \in LegacyRows
    BY DEF Init
  <2>2. row[j] = NoRow <=> j \notin LegacyJobs
    BY DEF Init
  <2>3. NoRow.status = "absent" /\ NoRow.result = "null"
    BY DEF NoRow
  <2>4. \A r \in LegacyRows :
           r.status = "failed" /\ r.result = "null" /\ r.err = "limit4h"
    BY DEF LegacyRows
  <2> QED BY <2>1, <2>2, <2>3, <2>4 DEF DurationLimited
<1>2. Executing = [j \in Jobs |-> {}]
  BY DEF Executing, Holds, Init, IdleSlot
<1>3. {j \in Jobs : DurationLimited(row[j])} = LegacyJobs
  BY <1>1, ConstantsAssumption
<1>4. [j \in Jobs |-> row[j].status]
        = [j \in Jobs |-> IF j \in LegacyJobs THEN "failed" ELSE "absent"]
  BY <1>1
<1>5. [j \in Jobs |-> row[j].result = "json"] = [j \in Jobs |-> FALSE]
  BY <1>1
<1> QED BY <1>2, <1>3, <1>4, <1>5 DEF Life!LifeInit

\* The abstract state of a well-typed queue is well-typed.
LEMMA LifeTyped == TypeOK => Life!LifeTypes
<1> SUFFICES ASSUME TypeOK PROVE Life!LifeTypes
  OBVIOUS
<1>1. [j \in Jobs |-> row[j].status] \in [Jobs -> Life!States]
  BY DEF TypeOK, Rows, Status, Terminal, Life!States, Life!Open, Life!Settled
<1>2. [j \in Jobs |-> row[j].result = "json"] \in [Jobs -> BOOLEAN]
  OBVIOUS
<1>3. Executing \in [Jobs -> SUBSET (Workers \X Slots)]
  BY DEF Executing
<1>4. {j \in Jobs : DurationLimited(row[j])} \in SUBSET Jobs
  OBVIOUS
<1> QED BY <1>1, <1>2, <1>3, <1>4 DEF Life!LifeTypes

\* A step of every job's life is a step of JobLifecycle.
LEMMA LifeSteps ==
    ASSUME TypeOK, TypeOK', LifeStep PROVE Life!LifeNext
<1>1. Life!LifeTypes'
  BY LifeTyped, PTL
<1>2. {j \in Jobs : DurationLimited(row'[j])} \subseteq {j \in Jobs : DurationLimited(row[j])}
  BY DEF LifeStep, LifeRow
<1>3. ASSUME NEW j \in Jobs PROVE Life!JobStep(j)
  <2>1. LifeRow(row[j], row'[j], Executing[j], Executing'[j])
    BY DEF LifeStep
  <2>2. row[j].result \in {"null", "json"} /\ row'[j].result \in {"null", "json"}
    BY DEF TypeOK, Rows
  <2> QED BY <2>1, <2>2
          DEF LifeRow, DurationLimited, Life!JobStep, Life!Submit, Life!Cancel, Life!Lease,
              Life!Reclaim, Life!Revive, Life!Settle, Life!Leave, Life!To, Life!Same,
              Life!NoNewExecution, Life!Open
<1> QED BY <1>1, <1>2, <1>3 DEF Life!LifeNext, DurationLimited

\* The queue implements JobLifecycle: no interleaving of the API, the slots, the
\* heartbeats, the watchdog and their failures shows a reader a job whose life
\* JobLifecycle does not allow.
THEOREM QueueImplementsLifecycle == Spec => Lifecycle
<1>1. Init => Life!LifeInit
  BY LifeBegins
<1>2. IndInv /\ IndInv' /\ [Next]_vars => [Life!LifeNext]_(Life!lifeVars)
  BY QueueLife, LifeSteps DEF IndInv
<1> QED BY <1>1, <1>2, Inductive, PTL DEF Spec, Lifecycle, Life!LifeSpec

=============================================================================
