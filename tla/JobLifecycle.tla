---------------------------- MODULE JobLifecycle ----------------------------
(***************************************************************************)
(* What the queue promises to whoever reads a row of transcription_jobs:   *)
(* the API's status, result and cancel handlers, and through them the      *)
(* clients.                                                                *)
(*                                                                         *)
(* A job has a state, perhaps a result, and the executions of it that are  *)
(* under way.  Only an execution under way may settle a job or change its  *)
(* settled state: a job that is settled and that nobody executes stays as  *)
(* it is, and a result never disappears.  Jobs step independently of one   *)
(* another, and one transaction may step several of them.                  *)
(***************************************************************************)
EXTENDS FiniteSets

CONSTANTS
    Jobs,         \* job ids
    LegacyJobs,   \* jobs failed by a release with the four-hour limit
    Executors     \* whoever can execute a job: a slot of a worker

VARIABLES
    state,      \* status of each job
    result,     \* has the job a result?
    executing,  \* the executors at work on each job
    revivable   \* jobs that a starting worker may still take back

lifeVars == <<state, result, executing, revivable>>

Open == {"queued", "processing"}
Settled == {"completed", "failed", "cancelled"}
States == {"absent"} \cup Open \cup Settled

LifeInit ==
    /\ state = [j \in Jobs |-> IF j \in LegacyJobs THEN "failed" ELSE "absent"]
    /\ result = [j \in Jobs |-> FALSE]
    /\ executing = [j \in Jobs |-> {}]
    /\ revivable = LegacyJobs

To(j, st) == state'[j] = st /\ result'[j] = result[j]
Same(j) == To(j, state[j])
NoNewExecution(j) == executing'[j] \subseteq executing[j]

Submit(j) == state[j] = "absent" /\ To(j, "queued") /\ executing'[j] = executing[j]

Cancel(j) == state[j] \in Open /\ To(j, "cancelled") /\ executing'[j] = executing[j]

\* A lease; the executor may never hear of it.
Lease(j) ==
    /\ state[j] = "queued"
    /\ To(j, "processing")
    /\ \/ executing'[j] = executing[j]
       \/ \E x \in Executors : executing'[j] = executing[j] \cup {x}

\* The watchdog or the heartbeat takes a leased job back, or gives it up.
Reclaim(j) ==
    /\ state[j] = "processing"
    /\ To(j, "queued") \/ To(j, "failed")
    /\ executing'[j] = executing[j]

\* A starting worker takes a job back that the old limit had failed.
Revive(j) ==
    /\ state[j] = "failed" /\ j \in revivable
    /\ To(j, "queued")
    /\ executing'[j] = executing[j]

\* An execution ends one way or the other, or gives the job back.
Settle(j) ==
    /\ executing[j] # {}
    /\ \/ state'[j] = "completed" /\ result'[j]
       \/ To(j, "failed")
       \/ To(j, "queued")
    /\ executing'[j] = executing[j]

\* Executions end, without a word when their process dies.
Leave(j) == Same(j) /\ NoNewExecution(j)

JobStep(j) ==
    \/ Submit(j) \/ Cancel(j) \/ Lease(j) \/ Reclaim(j) \/ Revive(j) \/ Settle(j)
    \/ Leave(j)

LifeTypes ==
    /\ state \in [Jobs -> States]
    /\ result \in [Jobs -> BOOLEAN]
    /\ executing \in [Jobs -> SUBSET Executors]
    /\ revivable \in SUBSET Jobs

LifeNext ==
    /\ LifeTypes'
    /\ \A j \in Jobs : JobStep(j)
    /\ revivable' \subseteq revivable

LifeSpec == LifeInit /\ [][LifeNext]_lifeVars

=============================================================================
