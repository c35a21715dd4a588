------------------------- MODULE BurstScalerProofs -------------------------
(***************************************************************************)
(* TLAPS proofs about BurstScaler, for every set of jobs, any number of    *)
(* slots, every threshold, every bound on submissions and faults, and for  *)
(* pods in which a lease and its entry in active_job_ids are one step or   *)
(* two (Split).                                                            *)
(***************************************************************************)
EXTENDS BurstScaler, TLAPS

-----------------------------------------------------------------------------
(* The inductive invariant                                                 *)

\* No more submissions are under way than may be at a time.
AskingBound == asking.check + asking.start <= MaxAsking

\* What a submission that saw no worker is owed: a start still on its way, or
\* a primary pod that is not stopped.
OwedStart == owed => asking.start > 0 \/ pod["primary"] # "stopped"

\* A slot that has still to show its job holds one.
FreshHolds == \A p \in Pods : \A s \in fresh[p] : slot[p][s] \in Jobs

\* The jobs that run and were shown are in active_job_ids, although a job may sit in two
\* slots and leaves the set with the first: complete_job has settled its row by then.
ShownIsActive == RunByBurst \subseteq active["burst"] \cup NotShown

\* Once a round has copied an empty list, every job that runs is newer or was not shown.
FreeMeansUnseen == hb["burst"] = "free" => RunByBurst \subseteq unseen

IndInv == /\ BurstTypeOK
          /\ AskingBound
          /\ OwedStart
          /\ FreshHolds
          /\ ShownIsActive
          /\ FreeMeansUnseen

-----------------------------------------------------------------------------
(* Every step is one of the actions                                        *)

LEMMA NextCases ==
    ASSUME Next
    PROVE  \/ \E j \in Jobs : Submit(j)
           \/ \E j \in Jobs : RecoverStaleJobs(j)
           \/ CheckWorkers
           \/ CheckFails
           \/ StartPod
           \/ StartRefused
           \/ \E p \in Pods : Boot(p)
           \/ \E p \in Pods : PodStops(p) \/ Outage(p)
           \/ \E p \in Pods : HeartbeatAges(p)
           \/ \E p \in Pods, s \in Slots, j \in Jobs : dequeue_job(p, s, j)
           \/ \E p \in Pods, s \in Slots : ShowJob(p, s)
           \/ \E p \in Pods, s \in Slots : Finish(p, s)
           \/ \E p \in Pods : send_worker_heartbeat(p)
           \/ \E p \in Pods : HeartbeatFails(p)
           \/ \E p \in Pods : get_queue_and_worker_counts(p) \/ CountFails(p)
           \/ IdlePeriodPasses
           \/ WakePausePasses
BY Zenon DEF Next, Api, Lives, Works, Heart, HeartStep, Time

-----------------------------------------------------------------------------
(* Typing                                                                  *)

LEMMA RowTypes ==
    ASSUME NEW st \in {"absent", "queued", "completed", "failed"}
    PROVE  RowOf(st) \in Rows
BY BurstAssumption DEF RowOf, Rows, Nobody

LEMMA RequeuedType ==
    ASSUME NEW r \in Rows
    PROVE  Requeued(r) \in Rows /\ Requeued(r).status = "queued"
BY DEF Requeued, Rows, Nobody

LEMMA StaleType ==
    ASSUME NEW r \in Rows, r.retry < MaxRetries
    PROVE  StaleRow(r) \in Rows /\ StaleRow(r).status = "queued"
<1>1. r.retry + 1 \in 0..MaxRetries
  BY BurstAssumption DEF Rows
<1> QED BY <1>1, RequeuedType DEF StaleRow, Rows

LEMMA LeasedType ==
    ASSUME NEW r \in Rows, NEW p \in Pods
    PROVE  LeasedRow(r, p) \in Rows /\ LeasedRow(r, p).worker = p
BY DEF LeasedRow, Rows

\* What the calls of one decision leave behind.
LEMMA DecideType ==
    ASSUME BurstTypeOK, NEW p \in Pods, NEW q, NEW w, NEW spent \in 0..MaxFaults,
           Decide(p, q, w, spent)
    PROVE  /\ pod' \in [Pods -> {"stopped", "starting", "up", "stopping"}]
           /\ hb' = [hb EXCEPT ![p] = "sleep"]
           /\ idle' \in BOOLEAN
           /\ cool' \in BOOLEAN
           /\ faults' \in 0..MaxFaults
           /\ unseen' = IF p = "burst" THEN {} ELSE unseen
           /\ pod'["primary"] = pod["primary"]
           /\ pod'["burst"] = "stopping" /\ pod["burst"] = "up"
                 => p = "burst" /\ hb["burst"] # "busy"
<1>0. "burst" \in Pods /\ "primary" \in Pods
  BY DEF Pods
<1>1. ASSUME NEW t \in {"stopped", "starting", "up", "stopping"}, Call(t, spent)
      PROVE  /\ pod' \in [Pods -> {"stopped", "starting", "up", "stopping"}]
             /\ faults' \in 0..MaxFaults
             /\ pod'["primary"] = pod["primary"]
             /\ pod'["burst"] \in {t, pod["burst"]}
  BY <1>0, <1>1, BurstAssumption DEF Call, BurstTypeOK
<1>2. CASE p = "primary"
  <2>1. WakeBurst(q, w, spent) /\ idle' = idle /\ Rest(p)
    BY <1>2 DEF Decide
  <2>2. CASE q >= Threshold /\ w < 2 /\ cool
    <3>1. PICK t \in {"stopped", "starting", "up", "stopping"} :
             Call(t, spent) /\ (t = "starting" \/ t = pod["burst"])
      BY <1>0, <2>1, <2>2 DEF WakeBurst, BurstTypeOK
    <3>2. cool' = FALSE
      BY <2>1, <2>2 DEF WakeBurst
    <3> QED BY <1>1, <1>2, <2>1, <3>1, <3>2 DEF Rest, BurstTypeOK
  <2>3. CASE ~(q >= Threshold /\ w < 2 /\ cool)
    BY <1>0, <1>2, <2>1, <2>3 DEF WakeBurst, Rest, BurstTypeOK
  <2> QED BY <2>2, <2>3
<1>3. CASE p = "burst"
  <2>1. StopBurst(q, w, spent) /\ cool' = cool /\ Rest(p)
    BY <1>3 DEF Decide
  <2>2. CASE ~HasWork(q, w) /\ idle
    <3>1. Call("stopping", spent) /\ hb["burst"] # "busy"
      BY <2>1, <2>2 DEF StopBurst, HasWork
    <3> QED BY <1>1, <1>3, <2>1, <3>1 DEF StopBurst, Rest, BurstTypeOK
  <2>3. CASE ~(~HasWork(q, w) /\ idle)
    BY <1>0, <1>3, <2>1, <2>3 DEF StopBurst, Rest, BurstTypeOK
  <2> QED BY <2>2, <2>3
<1> QED BY <1>2, <1>3 DEF Pods

\* Every action preserves the types and the bound on submissions.
LEMMA TypeNext ==
    ASSUME BurstTypeOK, AskingBound, FreshHolds, Next
    PROVE  BurstTypeOK' /\ AskingBound'
<1>1. CASE \E j \in Jobs : Submit(j)
  <2>1. PICK j \in Jobs : Submit(j)
    BY <1>1
  <2>2. row' \in [Jobs -> Rows]
    BY <2>1, RowTypes DEF Submit, BurstTypeOK
  <2>3. asking' \in [check: 0..MaxAsking, start: 0..MaxAsking] /\ AskingBound'
    BY <2>1, BurstAssumption DEF Submit, BurstTypeOK, AskingBound
  <2> QED BY <2>1, <2>2, <2>3 DEF Submit, BurstTypeOK, clocks, history
<1>2. CASE \E j \in Jobs : RecoverStaleJobs(j)
  <2>1. PICK j \in Jobs : RecoverStaleJobs(j)
    BY <1>2
  <2>2. row' \in [Jobs -> Rows]
    BY <2>1, StaleType, RowTypes DEF RecoverStaleJobs, BurstTypeOK
  <2> QED BY <2>1, <2>2 DEF RecoverStaleJobs, BurstTypeOK, AskingBound, clocks, history
<1>3. CASE CheckWorkers
  <2>1. asking' \in [check: 0..MaxAsking, start: 0..MaxAsking] /\ AskingBound'
    BY <1>3, BurstAssumption DEF CheckWorkers, ThenStart, BurstTypeOK, AskingBound
  <2>2. owed' \in BOOLEAN
    BY <1>3, Zenon DEF CheckWorkers
  <2> QED BY <1>3, <2>1, <2>2 DEF CheckWorkers, BurstTypeOK, work, clocks
<1>4. CASE CheckFails
  BY <1>4, BurstAssumption
  DEF CheckFails, ThenStart, Fault, BurstTypeOK, AskingBound, work, clocks, history
<1>5. CASE StartPod
  <2>1. asking' \in [check: 0..MaxAsking, start: 0..MaxAsking] /\ AskingBound'
    BY <1>5, BurstAssumption DEF StartPod, StartDone, BurstTypeOK, AskingBound
  <2> QED BY <1>5, <2>1 DEF StartPod, BurstTypeOK, work, clocks, history
<1>6. CASE StartRefused
  <2>1. asking' \in [check: 0..MaxAsking, start: 0..MaxAsking] /\ AskingBound'
    BY <1>6, BurstAssumption DEF StartRefused, StartDone, BurstTypeOK, AskingBound
  <2>2. faults' \in 0..MaxFaults
    BY <1>6, BurstAssumption DEF StartRefused, Fault, BurstTypeOK
  <2> QED BY <1>6, <2>1, <2>2 DEF StartRefused, BurstTypeOK, work, clocks
<1>7. CASE \E p \in Pods : Boot(p)
  BY <1>7 DEF Boot, BurstTypeOK, AskingBound, work, clocks, history
<1>8. CASE \E p \in Pods : PodStops(p) \/ Outage(p)
  <2>1. PICK p \in Pods : PodStops(p) \/ Outage(p)
    BY <1>8
  <2>2. Down(p) /\ faults' \in 0..MaxFaults
    BY <2>1, BurstAssumption DEF PodStops, Outage, Fault, BurstTypeOK
  <2>3. owed' \in BOOLEAN /\ idle' \in BOOLEAN /\ cool' \in BOOLEAN
    BY <2>2, Zenon DEF Down
  <2>4. /\ hb' \in [Pods -> {"sleep", "free", "busy"}]
        /\ unseen' \in SUBSET Jobs
    BY <2>2 DEF Down, Rest, BurstTypeOK
  <2>5. /\ slot' \in [Pods -> [Slots -> Jobs \cup {NoJob}]]
        /\ fresh' \in [Pods -> SUBSET Slots]
        /\ active' \in [Pods -> SUBSET Jobs]
    BY <2>2 DEF Down, BurstTypeOK
  <2> QED BY <2>2, <2>3, <2>4, <2>5 DEF Down, BurstTypeOK, AskingBound
<1>9. CASE \E p \in Pods : HeartbeatAges(p)
  BY <1>9 DEF HeartbeatAges, BurstTypeOK, AskingBound, work, clocks, history
<1>10. CASE \E p \in Pods, s \in Slots, j \in Jobs : dequeue_job(p, s, j)
  <2>1. PICK p \in Pods, s \in Slots, j \in Jobs : dequeue_job(p, s, j)
    BY <1>10
  <2>2. row' \in [Jobs -> Rows]
    BY <2>1, LeasedType DEF dequeue_job, BurstTypeOK
  <2>3. slot' \in [Pods -> [Slots -> Jobs \cup {NoJob}]]
    BY <2>1 DEF dequeue_job, BurstTypeOK
  <2>4. fresh' \in [Pods -> SUBSET Slots] /\ active' \in [Pods -> SUBSET Jobs]
    <3>1. CASE fresh' = [fresh EXCEPT ![p] = @ \cup {s}] /\ active' = active
      BY <3>1 DEF BurstTypeOK
    <3>2. CASE active' = [active EXCEPT ![p] = @ \cup {j}] /\ fresh' = fresh
      BY <3>2 DEF BurstTypeOK
    <3> QED BY <2>1, <3>1, <3>2 DEF dequeue_job
  <2>5. unseen' \in SUBSET Jobs
    BY <2>1 DEF dequeue_job, BurstTypeOK
  <2> QED BY <2>1, <2>2, <2>3, <2>4, <2>5 DEF dequeue_job, BurstTypeOK, AskingBound, clocks
<1>11. CASE \E p \in Pods, s \in Slots : ShowJob(p, s)
  <2>1. PICK p \in Pods, s \in Slots : ShowJob(p, s)
    BY <1>11
  <2>2. slot[p][s] \in Jobs
    BY <2>1 DEF ShowJob, FreshHolds
  <2>3. fresh' \in [Pods -> SUBSET Slots] /\ active' \in [Pods -> SUBSET Jobs]
    BY <2>1, <2>2 DEF ShowJob, BurstTypeOK
  <2> QED BY <2>1, <2>3 DEF ShowJob, BurstTypeOK, AskingBound, clocks, history
<1>12. CASE \E p \in Pods, s \in Slots : Finish(p, s)
  <2>1. PICK p \in Pods, s \in Slots : Finish(p, s)
    BY <1>12
  <2>2. row' \in [Jobs -> Rows]
    BY <2>1, RowTypes DEF Finish, BurstTypeOK
  <2>3. slot' \in [Pods -> [Slots -> Jobs \cup {NoJob}]]
    BY <2>1 DEF Finish, BurstTypeOK
  <2>4. unseen' \in SUBSET Jobs
    BY <2>1, Zenon DEF Finish, BurstTypeOK
  <2> QED BY <2>1, <2>2, <2>3, <2>4 DEF Finish, BurstTypeOK, AskingBound, clocks
<1>13. CASE \E p \in Pods : send_worker_heartbeat(p)
  <2>1. PICK p \in Pods : send_worker_heartbeat(p)
    BY <1>13
  <2>2. row' \in [Jobs -> Rows]
    BY <2>1, RequeuedType DEF send_worker_heartbeat, BurstTypeOK
  <2>3. hb' \in [Pods -> {"sleep", "free", "busy"}]
    BY <2>1 DEF send_worker_heartbeat, Listed, BurstTypeOK
  <2>4. idle' \in BOOLEAN
    BY <2>1, Zenon DEF send_worker_heartbeat, Listed
  <2> QED BY <2>1, <2>2, <2>3, <2>4
          DEF send_worker_heartbeat, BurstTypeOK, AskingBound, history
<1>14. CASE \E p \in Pods : HeartbeatFails(p)
  <2>1. PICK p \in Pods : HeartbeatFails(p)
    BY <1>14
  <2>2. hb' \in [Pods -> {"sleep", "free", "busy"}]
    BY <2>1 DEF HeartbeatFails, Listed, BurstTypeOK
  <2>3. idle' \in BOOLEAN
    BY <2>1, Zenon DEF HeartbeatFails, Listed
  <2>4. faults' \in 0..MaxFaults
    BY <2>1, BurstAssumption DEF HeartbeatFails, Fault, BurstTypeOK
  <2>5. beat' \in [Pods -> {"young", "old"}]
    BY <2>1 DEF HeartbeatFails, BurstTypeOK
  <2>6. unseen' \in SUBSET Jobs
    <3>1. NotShown \subseteq Jobs
      BY DEF NotShown, FreshHolds, Pods
    <3> QED BY <2>1, <3>1 DEF HeartbeatFails, BurstTypeOK
  <2> QED BY <2>1, <2>2, <2>3, <2>4, <2>5, <2>6
          DEF HeartbeatFails, BurstTypeOK, AskingBound, work
<1>15. CASE \E p \in Pods : get_queue_and_worker_counts(p) \/ CountFails(p)
  <2>1. PICK p \in Pods : get_queue_and_worker_counts(p) \/ CountFails(p)
    BY <1>15
  <2>2. /\ pod' \in [Pods -> {"stopped", "starting", "up", "stopping"}]
        /\ hb' = [hb EXCEPT ![p] = "sleep"]
        /\ idle' \in BOOLEAN
        /\ cool' \in BOOLEAN
        /\ faults' \in 0..MaxFaults
        /\ unseen' \in SUBSET Jobs
    <3>1. CASE get_queue_and_worker_counts(p)
      BY <3>1, DecideType DEF get_queue_and_worker_counts, BurstTypeOK
    <3>2. CASE CountFails(p)
      <4>1. faults + 1 \in 0..MaxFaults
        BY <3>2, BurstAssumption DEF CountFails, BurstTypeOK
      <4>2. CASE Decide(p, 0, 1, faults + 1)
        BY <4>1, <4>2, DecideType DEF BurstTypeOK
      <4>3. CASE Rest(p) /\ faults' = faults + 1 /\ UNCHANGED <<pod, clocks>>
        BY <4>1, <4>3 DEF Rest, BurstTypeOK, clocks
      <4> QED BY <3>2, <4>2, <4>3 DEF CountFails
    <3> QED BY <2>1, <3>1, <3>2
  <2>3. /\ UNCHANGED <<row, slot, fresh, active, asking, beat, owed>>
    BY <2>1 DEF get_queue_and_worker_counts, CountFails, work
  <2> QED BY <2>2, <2>3 DEF BurstTypeOK, AskingBound
<1>16. CASE IdlePeriodPasses
  BY <1>16 DEF IdlePeriodPasses, BurstTypeOK, AskingBound, work, history
<1>17. CASE WakePausePasses
  BY <1>17 DEF WakePausePasses, BurstTypeOK, AskingBound, work, history
<1> QED BY NextCases, <1>1, <1>2, <1>3, <1>4, <1>5, <1>6, <1>7, <1>8, <1>9, <1>10,
           <1>11, <1>12, <1>13, <1>14, <1>15, <1>16, <1>17

\* A slot holds its job from the lease until it has shown it.
LEMMA FreshNext ==
    ASSUME BurstTypeOK, FreshHolds, Next
    PROVE  FreshHolds'
<1>1. CASE \E p \in Pods, s \in Slots, j \in Jobs : dequeue_job(p, s, j)
  BY <1>1 DEF dequeue_job, FreshHolds, BurstTypeOK
<1>2. CASE \E p \in Pods, s \in Slots : ShowJob(p, s)
  BY <1>2 DEF ShowJob, FreshHolds, BurstTypeOK
<1>3. CASE \E p \in Pods, s \in Slots : Finish(p, s)
  BY <1>3 DEF Finish, FreshHolds, BurstTypeOK
<1>4. CASE \E p \in Pods : PodStops(p) \/ Outage(p)
  BY <1>4 DEF PodStops, Outage, Down, FreshHolds, BurstTypeOK
<1>5. CASE \/ \E j \in Jobs : Submit(j) \/ RecoverStaleJobs(j)
           \/ CheckWorkers \/ CheckFails \/ StartPod \/ StartRefused
           \/ \E p \in Pods : Boot(p) \/ HeartbeatAges(p)
           \/ \E p \in Pods : send_worker_heartbeat(p) \/ HeartbeatFails(p)
           \/ \E p \in Pods : get_queue_and_worker_counts(p) \/ CountFails(p)
           \/ IdlePeriodPasses
           \/ WakePausePasses
  <2>1. UNCHANGED <<slot, fresh>>
    BY <1>5 DEF Submit, RecoverStaleJobs, CheckWorkers, CheckFails, StartPod, StartRefused,
                Boot, HeartbeatAges, send_worker_heartbeat, HeartbeatFails,
                get_queue_and_worker_counts, CountFails, IdlePeriodPasses,
                WakePausePasses, work
  <2> QED BY <2>1 DEF FreshHolds
<1> QED BY NextCases, <1>1, <1>2, <1>3, <1>4, <1>5

-----------------------------------------------------------------------------
(* A submission that saw no worker                                         *)

LEMMA OwedNext ==
    ASSUME BurstTypeOK, OwedStart, Next
    PROVE  OwedStart'
<1>0. "primary" \in Pods /\ "burst" \in Pods
  BY DEF Pods
<1>1. CASE CheckWorkers
  <2>1. CASE GetActiveWorkers = {}
    BY <1>1, <2>1 DEF CheckWorkers, ThenStart, OwedStart, BurstTypeOK
  <2>2. CASE GetActiveWorkers # {}
    <3>1. owed' = FALSE
      BY <1>1, <2>2 DEF CheckWorkers, GetActiveWorkers
    <3> QED BY <3>1 DEF OwedStart
  <2> QED BY <2>1, <2>2
<1>2. CASE CheckFails
  BY <1>2 DEF CheckFails, ThenStart, OwedStart, BurstTypeOK
<1>3. CASE StartPod
  BY <1>0, <1>3 DEF StartPod, OwedStart, BurstTypeOK
<1>4. CASE StartRefused
  BY <1>4 DEF StartRefused, OwedStart
<1>5. CASE \E p \in Pods : Boot(p)
  BY <1>0, <1>5 DEF Boot, OwedStart, BurstTypeOK, clocks, history
<1>6. CASE \E p \in Pods : PodStops(p) \/ Outage(p)
  <2>1. PICK p \in Pods : Down(p)
    BY <1>6 DEF PodStops, Outage
  <2>2. CASE p = "primary"
    BY <2>1, <2>2 DEF Down, OwedStart
  <2>3. CASE p # "primary"
    BY <1>0, <2>1, <2>3 DEF Down, OwedStart, BurstTypeOK
  <2> QED BY <2>2, <2>3
<1>7. CASE \E p \in Pods : get_queue_and_worker_counts(p) \/ CountFails(p)
  <2>1. PICK p \in Pods : get_queue_and_worker_counts(p) \/ CountFails(p)
    BY <1>7
  <2>2. pod'["primary"] = pod["primary"]
    <3>1. CASE get_queue_and_worker_counts(p)
      BY <3>1, DecideType DEF get_queue_and_worker_counts, BurstTypeOK
    <3>2. CASE CountFails(p)
      <4>1. faults + 1 \in 0..MaxFaults
        BY <3>2, BurstAssumption DEF CountFails, BurstTypeOK
      <4> QED BY <3>2, <4>1, DecideType DEF CountFails
    <3> QED BY <2>1, <3>1, <3>2
  <2> QED BY <2>1, <2>2 DEF get_queue_and_worker_counts, CountFails, OwedStart
<1>8. CASE \E j \in Jobs : Submit(j)
  BY <1>8 DEF Submit, OwedStart, BurstTypeOK, history
<1>9. CASE \/ \E j \in Jobs : RecoverStaleJobs(j)
           \/ \E p \in Pods : HeartbeatAges(p)
           \/ \E p \in Pods, s \in Slots, j \in Jobs : dequeue_job(p, s, j)
           \/ \E p \in Pods, s \in Slots : ShowJob(p, s) \/ Finish(p, s)
           \/ \E p \in Pods : send_worker_heartbeat(p)
           \/ \E p \in Pods : HeartbeatFails(p)
           \/ IdlePeriodPasses
           \/ WakePausePasses
  <2>1. UNCHANGED <<asking, pod, owed>>
    BY <1>9 DEF RecoverStaleJobs, HeartbeatAges, dequeue_job, ShowJob, Finish, send_worker_heartbeat,
                HeartbeatFails, IdlePeriodPasses, WakePausePasses, history
  <2> QED BY <2>1 DEF OwedStart
<1> QED BY NextCases, <1>1, <1>2, <1>3, <1>4, <1>5, <1>6, <1>7, <1>8, <1>9

-----------------------------------------------------------------------------
(* What the burst worker runs                                              *)

Spared == ShownIsActive /\ FreeMeansUnseen

\* A step after which the burst worker runs no job it did not run before.
LEMMA SparedKept ==
    ASSUME Spared, RunByBurst' \subseteq RunByBurst, NotShown' = NotShown,
           active'["burst"] = active["burst"], hb'["burst"] = hb["burst"],
           unseen' = unseen
    PROVE  Spared'
BY DEF Spared, ShownIsActive, FreeMeansUnseen

\* A job that is leased, or shown.
LEMMA SparedSlots ==
    ASSUME BurstTypeOK, FreshHolds, Spared,
           \/ \E p \in Pods, s \in Slots, j \in Jobs : dequeue_job(p, s, j)
           \/ \E p \in Pods, s \in Slots : ShowJob(p, s)
    PROVE  Spared'
<1>0. "burst" \in Pods
  BY DEF Pods
<1>1. CASE \E p \in Pods, s \in Slots, j \in Jobs : dequeue_job(p, s, j)
  <2>1. PICK p \in Pods, s \in Slots, j \in Jobs : dequeue_job(p, s, j)
    BY <1>1
  <2>2. /\ \A k \in Jobs : k # j => row'[k] = row[k]
        /\ row'[j].worker = p
        /\ hb' = hb
    BY <2>1, LeasedType DEF dequeue_job, BurstTypeOK
  <2>3. CASE p = "burst"
    <3>1. unseen' = IF hb["burst"] # "sleep" THEN unseen \cup {j} ELSE unseen
      BY <2>1, <2>3 DEF dequeue_job
    <3>2. /\ slot'["burst"][s] = j
          /\ \A r \in Slots : r # s => slot'["burst"][r] = slot["burst"][r]
          /\ slot["burst"][s] = NoJob
      BY <1>0, <2>1, <2>3 DEF dequeue_job, BurstTypeOK
    <3>3. RunByBurst' \subseteq RunByBurst \cup {j}
      BY <2>2, <3>2 DEF RunByBurst, LeasedBy
    <3>4. s \notin fresh["burst"]
      BY <1>0, <3>2, BurstAssumption DEF FreshHolds
    <3>5. NotShown \subseteq NotShown'
      <4>1. fresh["burst"] \subseteq fresh'["burst"] /\ fresh["burst"] \subseteq Slots
        BY <1>0, <2>1, <2>3 DEF dequeue_job, BurstTypeOK
      <4>2. \A r \in fresh["burst"] : slot'["burst"][r] = slot["burst"][r]
        BY <3>2, <3>4, <4>1
      <4> QED BY <4>1, <4>2 DEF NotShown
    <3>6. active["burst"] \cup {j} \subseteq active'["burst"] \cup NotShown'
      <4>1. CASE fresh'["burst"] = fresh["burst"] \cup {s} /\ active' = active
        BY <3>2, <4>1 DEF NotShown
      <4>2. CASE active'["burst"] = active["burst"] \cup {j}
        BY <4>2
      <4> QED BY <1>0, <2>1, <2>3, <4>1, <4>2 DEF dequeue_job, BurstTypeOK
    <3> QED BY <2>2, <3>1, <3>3, <3>5, <3>6 DEF Spared, ShownIsActive, FreeMeansUnseen
  <2>4. CASE p # "burst"
    <3>1. /\ slot'["burst"] = slot["burst"] /\ active'["burst"] = active["burst"]
          /\ fresh'["burst"] = fresh["burst"] /\ unseen' = unseen
      BY <1>0, <2>1, <2>4 DEF dequeue_job, BurstTypeOK
    <3>2. RunByBurst' \subseteq RunByBurst /\ NotShown' = NotShown
      BY <2>2, <2>4, <3>1 DEF RunByBurst, LeasedBy, NotShown
    <3> QED BY <2>2, <3>1, <3>2, SparedKept
  <2> QED BY <2>3, <2>4
<1>2. CASE \E p \in Pods, s \in Slots : ShowJob(p, s)
  <2>1. PICK p \in Pods, s \in Slots : ShowJob(p, s)
    BY <1>2
  <2>2. row' = row /\ slot' = slot /\ hb' = hb /\ unseen' = unseen
    BY <2>1 DEF ShowJob, history
  <2>3. RunByBurst' = RunByBurst
    BY <2>2 DEF RunByBurst, LeasedBy
  <2>4. CASE p = "burst"
    <3>1. /\ active'["burst"] = active["burst"] \cup {slot["burst"][s]}
          /\ fresh'["burst"] = fresh["burst"] \ {s}
      BY <1>0, <2>1, <2>4 DEF ShowJob, BurstTypeOK
    <3>2. NotShown \subseteq NotShown' \cup {slot["burst"][s]}
      BY <2>2, <3>1 DEF NotShown
    <3> QED BY <2>2, <2>3, <3>1, <3>2 DEF Spared, ShownIsActive, FreeMeansUnseen
  <2>5. CASE p # "burst"
    <3>1. active'["burst"] = active["burst"] /\ fresh'["burst"] = fresh["burst"]
      BY <1>0, <2>1, <2>5 DEF ShowJob, BurstTypeOK
    <3>2. NotShown' = NotShown
      BY <2>2, <3>1 DEF NotShown
    <3> QED BY <2>2, <2>3, <3>1, <3>2, SparedKept
  <2> QED BY <2>4, <2>5
<1> QED BY <1>1, <1>2

LEMMA SparedNext ==
    ASSUME BurstTypeOK, FreshHolds, Spared, Next
    PROVE  Spared'
<1>0. "burst" \in Pods
  BY DEF Pods
<1>1. CASE \E j \in Jobs : Submit(j)
  <2>1. PICK j \in Jobs : Submit(j)
    BY <1>1
  <2>2. \A k \in Jobs : row'[k] = row[k] \/ row'[k].status = "queued"
    BY <2>1 DEF Submit, BurstTypeOK, RowOf
  <2>3. RunByBurst' \subseteq RunByBurst
    BY <2>1, <2>2 DEF RunByBurst, LeasedBy, Submit
  <2> QED BY <2>1, <2>3, SparedKept DEF Submit, history, NotShown
<1>2. CASE \E j \in Jobs : RecoverStaleJobs(j)
  <2>1. PICK j \in Jobs : RecoverStaleJobs(j)
    BY <1>2
  <2>2. \A k \in Jobs : row'[k] = row[k] \/ row'[k].status \in {"queued", "failed"}
    BY <2>1, StaleType DEF RecoverStaleJobs, BurstTypeOK, RowOf
  <2>3. RunByBurst' \subseteq RunByBurst
    BY <2>1, <2>2 DEF RunByBurst, LeasedBy, RecoverStaleJobs
  <2> QED BY <2>1, <2>3, SparedKept DEF RecoverStaleJobs, history, NotShown
<1>3. CASE \E p \in Pods : PodStops(p) \/ Outage(p)
  <2>1. PICK p \in Pods : Down(p)
    BY <1>3 DEF PodStops, Outage
  <2>2. CASE p = "burst"
    <3>1. \A s \in Slots : slot'["burst"][s] = NoJob
      BY <1>0, <2>1, <2>2 DEF Down, BurstTypeOK
    <3>2. RunByBurst' = {}
      BY <3>1, BurstAssumption DEF RunByBurst, LeasedBy
    <3> QED BY <3>2 DEF Spared, ShownIsActive, FreeMeansUnseen
  <2>3. CASE p # "burst"
    <3>1. /\ slot'["burst"] = slot["burst"] /\ active'["burst"] = active["burst"]
          /\ fresh'["burst"] = fresh["burst"]
          /\ hb'["burst"] = hb["burst"] /\ unseen' = unseen /\ row' = row
      BY <1>0, <2>1, <2>3 DEF Down, Rest, BurstTypeOK
    <3>2. RunByBurst' = RunByBurst /\ NotShown' = NotShown
      BY <3>1 DEF RunByBurst, LeasedBy, NotShown
    <3> QED BY <3>1, <3>2, SparedKept
  <2> QED BY <2>2, <2>3
<1>4. CASE \/ \E p \in Pods, s \in Slots, j \in Jobs : dequeue_job(p, s, j)
           \/ \E p \in Pods, s \in Slots : ShowJob(p, s)
  BY <1>4, SparedSlots
<1>5. CASE \E p \in Pods, s \in Slots : Finish(p, s)
  <2>1. PICK p \in Pods, s \in Slots : Finish(p, s)
    BY <1>5
  <2> DEFINE j == slot[p][s]
  <2>2. /\ j \in Jobs
        /\ row'[j].status = "completed"
        /\ \A k \in Jobs : k # j => row'[k] = row[k]
        /\ hb' = hb /\ unseen \ {j} \subseteq unseen'
    BY <2>1 DEF Finish, BurstTypeOK, RowOf
  <2>3. \A r \in Slots : \/ slot'["burst"][r] = slot["burst"][r]
                         \/ slot'["burst"][r] = NoJob
    BY <1>0, <2>1 DEF Finish, BurstTypeOK
  <2>4. active["burst"] \ {j} \subseteq active'["burst"]
    BY <1>0, <2>1 DEF Finish, BurstTypeOK
  <2>5. RunByBurst' \subseteq RunByBurst \ {j}
    BY <2>2, <2>3, BurstAssumption DEF RunByBurst, LeasedBy
  <2>6. NotShown \subseteq NotShown'
    <3>1. fresh' = fresh /\ fresh["burst"] \subseteq Slots
      BY <1>0, <2>1 DEF Finish, BurstTypeOK
    <3>2. \A r \in fresh["burst"] : slot'["burst"][r] = slot["burst"][r]
      BY <1>0, <2>1, <3>1 DEF Finish, BurstTypeOK
    <3> QED BY <3>1, <3>2 DEF NotShown
  <2> QED BY <2>2, <2>4, <2>5, <2>6 DEF Spared, ShownIsActive, FreeMeansUnseen
<1>6. CASE \E p \in Pods : send_worker_heartbeat(p)
  <2>1. PICK p \in Pods : send_worker_heartbeat(p)
    BY <1>6
  <2>2. \A k \in Jobs : row'[k] = row[k] \/ row'[k].status = "queued"
    BY <2>1, RequeuedType DEF send_worker_heartbeat, BurstTypeOK
  <2>3. RunByBurst' \subseteq RunByBurst
    BY <2>1, <2>2 DEF RunByBurst, LeasedBy, send_worker_heartbeat
  <2>4. active' = active /\ slot' = slot /\ fresh' = fresh /\ unseen' = unseen
    BY <2>1 DEF send_worker_heartbeat, history
  <2>5. NotShown' = NotShown
    BY <2>4 DEF NotShown
  <2>6. CASE p = "burst" /\ hb'["burst"] = "free"
    <3>1. active["burst"] = {}
      BY <1>0, <2>1, <2>6 DEF send_worker_heartbeat, Listed, BurstTypeOK
    <3>2. \A k \in LeasedBy("burst") : row'[k].status = "queued"
      BY <2>1, <2>6, <3>1, RequeuedType DEF send_worker_heartbeat, BurstTypeOK, LeasedBy
    <3>3. RunByBurst' = {}
      BY <2>2, <3>2 DEF RunByBurst, LeasedBy
    <3> QED BY <3>3 DEF Spared, ShownIsActive, FreeMeansUnseen
  <2>7. CASE p # "burst" \/ hb'["burst"] # "free"
    <3>1. hb'["burst"] = "free" => hb["burst"] = "free"
      BY <1>0, <2>1, <2>7 DEF send_worker_heartbeat, Listed, BurstTypeOK
    <3> QED BY <2>3, <2>4, <2>5, <3>1 DEF Spared, ShownIsActive, FreeMeansUnseen
  <2> QED BY <2>6, <2>7
<1>7. CASE \E p \in Pods : HeartbeatFails(p)
  <2>1. PICK p \in Pods : HeartbeatFails(p)
    BY <1>7
  <2>2. active' = active /\ row' = row /\ slot' = slot /\ fresh' = fresh
    BY <2>1 DEF HeartbeatFails, work
  <2>3. RunByBurst' = RunByBurst /\ NotShown' = NotShown
    BY <2>2 DEF RunByBurst, LeasedBy, NotShown
  <2>4. CASE p = "burst" /\ Listed(p) /\ unseen' = NotShown
    <3>1. hb'["burst"] = "free" => active["burst"] = {}
      BY <1>0, <2>4 DEF Listed, BurstTypeOK
    <3> QED BY <2>2, <2>3, <2>4, <3>1 DEF Spared, ShownIsActive, FreeMeansUnseen
  <2>5. CASE hb'["burst"] = hb["burst"] /\ unseen' = unseen
    BY <2>2, <2>3, <2>5, SparedKept
  <2>6. CASE p # "burst" /\ Listed(p) /\ unseen' = unseen
    <3>1. hb'["burst"] = hb["burst"]
      BY <1>0, <2>6 DEF Listed, BurstTypeOK
    <3> QED BY <2>5, <2>6, <3>1
  <2> QED BY <2>1, <2>4, <2>5, <2>6 DEF HeartbeatFails
<1>8. CASE \E p \in Pods : get_queue_and_worker_counts(p) \/ CountFails(p)
  <2>1. PICK p \in Pods : get_queue_and_worker_counts(p) \/ CountFails(p)
    BY <1>8
  <2>2. Rest(p) /\ row' = row /\ slot' = slot /\ active' = active /\ fresh' = fresh
    BY <2>1 DEF get_queue_and_worker_counts, CountFails, Decide, work
  <2>3. RunByBurst' = RunByBurst /\ NotShown' = NotShown
    BY <2>2 DEF RunByBurst, LeasedBy, NotShown
  <2>4. CASE p = "burst"
    <3>1. hb'["burst"] = "sleep"
      BY <1>0, <2>2, <2>4 DEF Rest, BurstTypeOK
    <3> QED BY <2>2, <2>3, <3>1 DEF Spared, ShownIsActive, FreeMeansUnseen
  <2>5. CASE p # "burst"
    BY <1>0, <2>2, <2>3, <2>5, SparedKept DEF Rest, BurstTypeOK
  <2> QED BY <2>4, <2>5
<1>9. CASE \/ CheckWorkers \/ CheckFails \/ StartPod \/ StartRefused
           \/ \E p \in Pods : Boot(p)
           \/ \E p \in Pods : HeartbeatAges(p)
           \/ IdlePeriodPasses
           \/ WakePausePasses
  <2>1. UNCHANGED <<row, slot, fresh, active, hb, unseen>>
    BY <1>9 DEF CheckWorkers, CheckFails, StartPod, StartRefused, Boot, HeartbeatAges,
                IdlePeriodPasses, WakePausePasses, work, history
  <2>2. RunByBurst' = RunByBurst /\ NotShown' = NotShown
    BY <2>1 DEF RunByBurst, LeasedBy, NotShown
  <2> QED BY <2>1, <2>2, SparedKept
<1> QED BY NextCases, <1>1, <1>2, <1>3, <1>4, <1>5, <1>6, <1>7, <1>8, <1>9

-----------------------------------------------------------------------------
(* The theorems                                                            *)

LEMMA InitInv == Init => IndInv
<1> SUFFICES ASSUME Init PROVE IndInv
  OBVIOUS
<1>1. BurstTypeOK
  <2>1. RowOf("absent") \in Rows
    BY RowTypes
  <2>2. row \in [Jobs -> Rows]
    BY <2>1 DEF Init
  <2>3. /\ pod \in [Pods -> {"stopped", "starting", "up", "stopping"}]
        /\ beat \in [Pods -> {"young", "old"}]
        /\ hb \in [Pods -> {"sleep", "free", "busy"}]
    BY DEF Init
  <2>4. /\ slot \in [Pods -> [Slots -> Jobs \cup {NoJob}]]
        /\ fresh \in [Pods -> SUBSET Slots]
        /\ active \in [Pods -> SUBSET Jobs]
    BY DEF Init
  <2>5. /\ asking \in [check: 0..MaxAsking, start: 0..MaxAsking]
        /\ faults \in 0..MaxFaults
    BY BurstAssumption DEF Init
  <2>6. /\ idle \in BOOLEAN /\ cool \in BOOLEAN /\ owed \in BOOLEAN
        /\ unseen \in SUBSET Jobs
    BY DEF Init
  <2> QED BY <2>2, <2>3, <2>4, <2>5, <2>6 DEF BurstTypeOK
<1>2. AskingBound /\ OwedStart /\ FreshHolds
  BY BurstAssumption DEF Init, AskingBound, OwedStart, FreshHolds
<1>3. RunByBurst = {}
  BY RowTypes DEF Init, RunByBurst, LeasedBy, RowOf
<1> QED BY <1>1, <1>2, <1>3 DEF IndInv, ShownIsActive, FreeMeansUnseen

LEMMA NextInv == IndInv /\ [Next]_vars => IndInv'
<1> SUFFICES ASSUME IndInv, [Next]_vars PROVE IndInv'
  OBVIOUS
<1>1. CASE Next
  BY <1>1, TypeNext, FreshNext, OwedNext, SparedNext DEF IndInv, Spared
<1>2. CASE UNCHANGED vars
  BY <1>2 DEF vars, IndInv, BurstTypeOK, AskingBound, OwedStart, FreshHolds,
              ShownIsActive, FreeMeansUnseen, RunByBurst, LeasedBy, NotShown
<1> QED BY <1>1, <1>2

THEOREM Invariance == Spec => []IndInv
BY InitInv, NextInv, PTL DEF Spec

\* Every variable keeps its type, whatever the pods, the workers and the API do.
THEOREM BurstTypeCorrect == Spec => []BurstTypeOK
<1>1. IndInv => BurstTypeOK
  BY DEF IndInv
<1> QED BY <1>1, Invariance, PTL

\* A stranded queue never goes back to a submission that saw no worker: such a
\* submission has a start on its way, or the primary pod came of it.
THEOREM StrandedQueues == Spec => []StrandedUnseen
<1>1. IndInv => StrandedUnseen
  BY DEF IndInv, StrandedUnseen, Stranded, OwedStart, Pods
<1> QED BY <1>1, Invariance, PTL

\* The auto-stop of the burst worker takes only leases the worker could not know of: newer
\* than the list it has copied, or not shown yet when it copied it, with no successful
\* heartbeat since.  A job that was shown before is never lost to the stop.
THEOREM AutoStopSpares == Spec => RunningSpared
<1>1. IndInv /\ [Next]_vars =>
         [pod["burst"] = "up" /\ pod'["burst"] = "stopping" => RunByBurst \subseteq unseen]_vars
  <2> SUFFICES ASSUME IndInv, Next, pod["burst"] = "up", pod'["burst"] = "stopping"
               PROVE  RunByBurst \subseteq unseen
    OBVIOUS
  <2>0. "burst" \in Pods
    BY DEF Pods
  <2>1. PICK p \in Pods : get_queue_and_worker_counts(p) \/ CountFails(p)
    <3>1. ~ \E p \in Pods : Boot(p)
      BY <2>0 DEF IndInv, BurstTypeOK, Boot
    <3>2. ~ \E p \in Pods : PodStops(p) \/ Outage(p)
      BY <2>0 DEF IndInv, BurstTypeOK, PodStops, Outage, Down
    <3>3. ~StartPod
      BY <2>0 DEF IndInv, BurstTypeOK, StartPod
    <3> QED BY NextCases, <3>1, <3>2, <3>3
            DEF Submit, RecoverStaleJobs, CheckWorkers, CheckFails, StartRefused,
                HeartbeatAges, dequeue_job, ShowJob, Finish, send_worker_heartbeat, HeartbeatFails,
                IdlePeriodPasses, WakePausePasses
  <2>2. p = "burst" /\ hb["burst"] # "busy"
    <3>1. CASE get_queue_and_worker_counts(p)
      BY <3>1, DecideType DEF get_queue_and_worker_counts, IndInv, BurstTypeOK
    <3>2. CASE CountFails(p)
      <4>1. faults + 1 \in 0..MaxFaults
        BY <3>2, BurstAssumption DEF CountFails, IndInv, BurstTypeOK
      <4>2. CASE Decide(p, 0, 1, faults + 1)
        BY <4>1, <4>2, DecideType DEF IndInv
      <4>3. CASE UNCHANGED pod
        BY <4>3
      <4> QED BY <3>2, <4>2, <4>3 DEF CountFails
    <3> QED BY <2>1, <3>1, <3>2
  <2>3. hb["burst"] # "sleep"
    BY <2>1, <2>2 DEF get_queue_and_worker_counts, CountFails
  <2>4. hb["burst"] = "free"
    BY <2>0, <2>2, <2>3 DEF IndInv, BurstTypeOK
  <2> QED BY <2>4 DEF IndInv, FreeMeansUnseen
<1> QED BY <1>1, Invariance, PTL DEF Spec, RunningSpared
=============================================================================
