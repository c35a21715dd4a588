------------------------------- MODULE JobApi -------------------------------
(***************************************************************************)
(* The HTTP API in front of the queue: handlers.go, validator.go,          *)
(* middleware.go, and CreateJob and the reads of job_repository.go.        *)
(*                                                                         *)
(* Clients submit concurrently, some under the same idempotency key, and   *)
(* submit again when an answer is lost.  The rows live the life that       *)
(* JobLifecycle allows them: Submit and Cancel are taken by the handlers,  *)
(* every other step by the workers and the watchdog.                       *)
(*                                                                         *)
(* A call steps where another call could see the difference: the insert,   *)
(* the lookup after a conflict, the check for workers, the answer.  What a *)
(* handler computes before its first statement is part of that step.       *)
(***************************************************************************)
EXTENDS JobLifecycle, Naturals

CONSTANTS
    Clients,
    Submissions,   \* what a client may submit: token, body and keys
    Keys,          \* idempotency keys, the empty string among them
    EmptyKey,      \* ""
    NoKey,         \* nil: no key in the payload, no header
    NoJob,         \* a client that was not told a job id yet
    AutoStartGPU,  \* AUTO_START_GPU, with the RunPod client configured
    MaxFaults      \* bound: failed statements, lost commits and lost answers

\* The free texts of a request, up to what ValidateTranscriptionRequest makes
\* of them: blank after trimming, one the code accepts, one it refuses.
Bodies == [audio: {"blank", "ok", "refused"},
           mode: {"blank", "fast", "accurate", "refused"},
           format: {"blank", "plain_text", "json", "refused"},
           callback: {"nil", "blank", "ok", "refused"},
           language: {"nil", "blank", "en", "fr"},
           target: {"nil", "blank", "en", "fr"},
           translate: BOOLEAN]

AllSubmissions == [token: BOOLEAN, parses: BOOLEAN, body: Bodies,
                   payload: Keys \cup {NoKey}, header: Keys \cup {NoKey}]

ASSUME ApiAssumption ==
    /\ Submissions \subseteq AllSubmissions
    /\ EmptyKey \in Keys
    /\ NoKey \notin Keys
    /\ NoJob \notin Jobs
    /\ LegacyJobs \subseteq Jobs
    /\ AutoStartGPU \in BOOLEAN
    /\ MaxFaults \in Nat

\* The clients that ever submit are finitely many: the count of rows without a
\* key is compared with theirs.
ASSUME FiniteClients == IsFiniteSet(Clients)

VARIABLES
    key,       \* idempotency_key of each row
    request,   \* the set of request bodies stored in each row: one, once it is there
    want,      \* what each client submits, and submits again
    call,      \* each client's submission in the server
    known,     \* the transcription_id each client was told
    promised,  \* clients told result_available while nobody executed the job
    resumed,   \* jobs whose submission asked RunPod to resume the pod
    faults

apiVars == <<lifeVars, key, request, want, call, known, promised, resumed, faults>>

Codes == {0, 202, 400, 401, 500}
IdleCall == [pc |-> "idle", job |-> NoJob, code |-> 0]

-----------------------------------------------------------------------------
(* ValidateTranscriptionRequest                                            *)

Accepted(b) ==
    /\ b.audio = "ok"
    /\ b.mode # "refused"
    /\ b.format # "refused"
    /\ b.callback # "refused"

Default(text, value) == IF text = "blank" THEN value ELSE text

\* Mutant: a blank callback_url is stored as it came.
NormalKeepsCallback(b) ==
    [b EXCEPT !.mode = Default(@, "fast"), !.format = Default(@, "plain_text"),
              !.language = Default(@, "nil"), !.target = Default(@, "nil")]

\* The request as it is stored: defaults filled in, blank texts made nil, and
\* translation enabled when a target is named that is not the language.
Normal(b) ==
    LET language == Default(b.language, "nil")
        target == Default(b.target, "nil")
    IN  [audio |-> b.audio,
         mode |-> Default(b.mode, "fast"),
         format |-> Default(b.format, "plain_text"),
         callback |-> Default(b.callback, "nil"),
         language |-> language,
         target |-> target,
         translate |-> b.translate \/ (target # "nil" /\ target # language)]

\* The header counts when it is not empty and the payload has no key; an empty
\* key in the payload is a key.
EffectiveKey(r) ==
    IF r.payload = NoKey /\ r.header # EmptyKey THEN r.header ELSE r.payload

-----------------------------------------------------------------------------
(* Helpers                                                                 *)

Fault == faults < MaxFaults /\ faults' = faults + 1

Exists(j) == state[j] # "absent"
Holders(k) == {j \in Jobs : Exists(j) /\ key[j] = k}

\* uuid.New(): an id nobody has.
Fresh == {j \in Jobs : ~Exists(j)}
NewId == CHOOSE j \in Fresh : TRUE

\* Only the row of j takes a step.
OnlyRow(j) ==
    /\ \E st \in States : state' = [state EXCEPT ![j] = st]
    /\ \E res \in BOOLEAN : result' = [result EXCEPT ![j] = res]
    /\ \E ex \in SUBSET Executors : executing' = [executing EXCEPT ![j] = ex]

Conflict(k) == k # NoKey /\ Holders(k) # {}

\* Mutant: the key is not among the inserted columns.
InsertWithoutKey(r) ==
    /\ Fresh # {}
    /\ OnlyRow(NewId) /\ Submit(NewId) /\ UNCHANGED <<revivable, key>>
    /\ request' = [request EXCEPT ![NewId] = {Normal(r.body)}]

\* INSERT ... ON CONFLICT DO NOTHING RETURNING, when there is no conflict.
Insert(r) ==
    /\ Fresh # {}
    /\ OnlyRow(NewId) /\ Submit(NewId) /\ UNCHANGED revivable
    /\ key' = [key EXCEPT ![NewId] = EffectiveKey(r)]
    /\ request' = [request EXCEPT ![NewId] = {Normal(r.body)}]

Answer(c, code, j) == call' = [call EXCEPT ![c] = [pc |-> "reply", job |-> j, code |-> code]]
Goto(c, pc, j) == call' = [call EXCEPT ![c].pc = pc, ![c].job = j]

\* A client that has no id yet submits.
Submits(c) == call[c].pc = "idle" /\ known[c] = NoJob

\* Authenticated, bound and validated.
Serveable(r) == r.token /\ r.parses /\ Accepted(r.body)

-----------------------------------------------------------------------------
Init ==
    /\ LifeInit
    /\ key \in [Jobs -> Keys \cup {NoKey}]
    /\ \A j \in Jobs \ LegacyJobs : key[j] = NoKey
    /\ \A i, j \in LegacyJobs : key[i] = key[j] => key[i] = NoKey \/ i = j
    /\ request = [j \in Jobs |-> {}]
    /\ want \in [Clients -> Submissions]
    /\ call = [c \in Clients |-> IdleCall]
    /\ known = [c \in Clients |-> NoJob]
    /\ promised = {}
    /\ resumed = {}
    /\ faults = 0

-----------------------------------------------------------------------------
(* SubmitTranscription                                                     *)

\* AuthMiddleware answers 401; Bind and ValidateTranscriptionRequest 400.
Refuse(c) ==
    /\ Submits(c)
    /\ ~Serveable(want[c])
    /\ Answer(c, IF want[c].token THEN 400 ELSE 401, NoJob)
    /\ UNCHANGED <<lifeVars, key, request, want, known, promised, resumed, faults>>

CreateJob(c) ==
    /\ Submits(c)
    /\ Serveable(want[c])
    /\ IF Conflict(EffectiveKey(want[c]))
       THEN Goto(c, "lookup", NoJob) /\ UNCHANGED <<lifeVars, key, request>>
       ELSE Goto(c, "autostart", NewId) /\ Insert(want[c])
    /\ UNCHANGED <<want, known, promised, resumed, faults>>

\* The statement fails, or its commit is not acknowledged: 500.
InsertFails(c) ==
    /\ Submits(c)
    /\ Serveable(want[c])
    /\ Fault
    /\ \/ UNCHANGED <<lifeVars, key, request>>
       \/ ~Conflict(EffectiveKey(want[c])) /\ Insert(want[c])
    /\ Answer(c, 500, NoJob)
    /\ UNCHANGED <<want, known, promised, resumed>>

\* Mutant: a conflict is reported as an error.
ConflictIsAnError(c) ==
    /\ call[c].pc = "lookup"
    /\ Answer(c, 500, NoJob)
    /\ UNCHANGED <<lifeVars, key, request, want, known, promised, resumed, faults>>

\* Mutant: the lookup asks for a row with a key, not with this key.
LookupAnyKey(c) ==
    /\ call[c].pc = "lookup"
    /\ \E k \in Keys : \E j \in Holders(k) : Goto(c, "autostart", j)
    /\ UNCHANGED <<lifeVars, key, request, want, known, promised, resumed, faults>>

GetJobByIdempotencyKey(c) ==
    /\ call[c].pc = "lookup"
    /\ \E j \in Holders(EffectiveKey(want[c])) : Goto(c, "autostart", j)
    /\ UNCHANGED <<lifeVars, key, request, want, known, promised, resumed, faults>>

LookupFails(c) ==
    /\ call[c].pc = "lookup"
    /\ Fault
    /\ Answer(c, 500, NoJob)
    /\ UNCHANGED <<lifeVars, key, request, want, known, promised, resumed>>

\* Mutant: the submission is answered like a read.
AutoStartOK(c) ==
    /\ call[c].pc = "autostart"
    /\ Answer(c, 200, call[c].job)
    /\ UNCHANGED <<lifeVars, key, request, want, known, promised, resumed, faults>>

\* No worker reported in the last 45 seconds, or the query failed: a goroutine
\* resumes the pod.  The answer does not wait for it.
AutoStart(c) ==
    /\ call[c].pc = "autostart"
    /\ \/ UNCHANGED resumed
       \/ AutoStartGPU /\ resumed' = resumed \cup {call[c].job}
    /\ Answer(c, 202, call[c].job)
    /\ UNCHANGED <<lifeVars, key, request, want, known, promised, faults>>

\* The client reads the answer.
Receive(c) ==
    /\ call[c].pc = "reply"
    /\ call' = [call EXCEPT ![c].pc = "idle"]
    /\ known' = [known EXCEPT ![c] = IF call[c].code = 202 THEN call[c].job ELSE @]
    /\ UNCHANGED <<lifeVars, key, request, want, promised, resumed, faults>>

\* The connection breaks, the client's timeout passes, or the server dies.
LoseCall(c) ==
    /\ call[c].pc # "idle"
    /\ Fault
    /\ call' = [call EXCEPT ![c] = IdleCall]
    /\ UNCHANGED <<lifeVars, key, request, want, known, promised, resumed>>

-----------------------------------------------------------------------------
(* GetStatus, GetResult, DeleteJob: one statement each                     *)

\* result_available of GetStatus
ResultAvailable(j) == state[j] = "completed" /\ result[j]

ResultCode(j) ==
    CASE ~Exists(j) -> 404
      [] state[j] \in Open -> 202
      [] state[j] = "failed" -> 422
      [] state[j] = "cancelled" -> 410
      [] state[j] = "completed" -> 200

GetStatus(c) ==
    /\ known[c] # NoJob
    /\ promised' = IF ResultAvailable(known[c]) /\ executing[known[c]] = {}
                   THEN promised \cup {c} ELSE promised
    /\ UNCHANGED <<lifeVars, key, request, want, call, known, resumed, faults>>

\* Mutant: CancelJob without its condition on the status.
CancelAnything(c) ==
    /\ known[c] # NoJob
    /\ state' = [state EXCEPT ![known[c]] = "cancelled"]
    /\ UNCHANGED <<result, executing, revivable>>
    /\ UNCHANGED <<key, request, want, call, known, promised, resumed, faults>>

\* Answered or not: a second cancellation finds the job in a terminal state.
DeleteJob(c) ==
    /\ known[c] # NoJob
    /\ OnlyRow(known[c]) /\ Cancel(known[c]) /\ UNCHANGED revivable
    /\ UNCHANGED <<key, request, want, call, known, promised, resumed, faults>>

-----------------------------------------------------------------------------
(* The workers and the watchdog.  What becomes of a row nobody was told of *)
(* is left out: no handler looks at the status of a row without its id.    *)

Processing(j) ==
    /\ \E c \in Clients : known[c] = j
    /\ OnlyRow(j)
    /\ \/ (Lease(j) \/ Reclaim(j) \/ Settle(j) \/ Leave(j)) /\ UNCHANGED revivable
       \/ Revive(j) /\ revivable' = revivable \ {j}
    /\ UNCHANGED <<key, request, want, call, known, promised, resumed, faults>>

-----------------------------------------------------------------------------
SubmitStep(c) ==
    \/ Refuse(c)
    \/ CreateJob(c)
    \/ GetJobByIdempotencyKey(c)
    \/ AutoStart(c)
    \/ Receive(c)

Next ==
    \/ \E c \in Clients :
          \/ SubmitStep(c)
          \/ InsertFails(c)
          \/ LookupFails(c)
          \/ LoseCall(c)
          \/ GetStatus(c)
          \/ DeleteJob(c)
    \/ \E j \in Jobs : Processing(j)

\* A client without an answer submits again, and the server answers.
ApiSpec == Init /\ [][Next]_apiVars /\ \A c \in Clients : WF_apiVars(SubmitStep(c))

-----------------------------------------------------------------------------
(* Correctness                                                             *)

\* Every variable stays in its type.
TypeOK ==
    /\ LifeTypes
    /\ key \in [Jobs -> Keys \cup {NoKey}]
    /\ request \in [Jobs -> SUBSET Bodies]
    /\ want \in [Clients -> Submissions]
    /\ call \in [Clients -> [pc: {"idle", "lookup", "autostart", "reply"},
                             job: Jobs \cup {NoJob}, code: Codes]]
    /\ known \in [Clients -> Jobs \cup {NoJob}]
    /\ promised \in SUBSET Clients
    /\ resumed \in SUBSET Jobs
    /\ faults \in 0..MaxFaults

\* Two clients are told the same job exactly when they submitted under the same
\* idempotency key, however their inserts, lookups, failures and retries
\* interleave (CreateJob, SubmitTranscription).
OneJobPerKey ==
    \A c, d \in Clients :
        c # d /\ known[c] # NoJob /\ known[d] # NoJob =>
            (known[c] = known[d]
               <=> /\ EffectiveKey(want[c]) = EffectiveKey(want[d])
                   /\ EffectiveKey(want[c]) # NoKey)

\* No recording is transcribed twice for one request: a key has at most one row,
\* and a submission without a key gets more than one only when a commit or an
\* answer was lost.
NoDuplicateWork ==
    /\ \A k \in Keys : Cardinality(Holders(k)) <= 1
    /\ Cardinality(Holders(NoKey) \ LegacyJobs)
          <= faults + Cardinality({c \in Clients : EffectiveKey(want[c]) = NoKey})

\* A refused submission leaves nothing behind, and what is stored is ready for
\* a worker: every row the API made was asked for, under that key, by a client
\* that SubmitTranscription had to serve; its body is the validator's rewriting of
\* an accepted one, with no blank text left, which a second validation would not
\* change; and the pod is resumed only for a row that is there.
RowsAskedFor ==
    /\ \A j \in Jobs \ LegacyJobs : Exists(j) =>
          \E c \in Clients :
              /\ want[c].token /\ want[c].parses /\ Accepted(want[c].body)
              /\ EffectiveKey(want[c]) = key[j]
    /\ \A j \in Jobs : \A b \in request[j] :
          /\ Accepted(b)
          /\ Normal(b) = b
          /\ \A f \in DOMAIN b \ {"translate"} : b[f] # "blank"
    /\ \A j \in resumed : Exists(j)

\* Once GetStatus said result_available and nobody executes the job any more,
\* GetResult answers 200 with a result for good, whatever is cancelled or
\* recovered afterwards; and a 200 never carries an empty result.
PromiseKept ==
    /\ \A c \in promised : ResultCode(known[c]) = 200
    /\ \A j \in Jobs : ResultCode(j) = 200 <=> ResultAvailable(j)

\* A client that keeps submitting what the server has to serve is told an id.
EventuallyAcknowledged ==
    \A c \in Clients : Serveable(want[c]) => <>(known[c] # NoJob)

=============================================================================
