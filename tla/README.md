# Verification of whisper-service

TLA+ models of the transcription service, the TLC runs that check them on small
instances, and TLAPS proofs of their safety properties for every instance. The
reference is the code in `src/`; `PROJECT.json` names, for each definition, the
lines it stands for.

Run from this directory: `tlc -config X.cfg M` for a run, `tlapm M.tla` for the
proofs of a module.

## 1. The system

A Go API (`src/internal`, `src/cmd/server`) and Python GPU workers
(`src/ml_worker`) share one PostgreSQL database and nothing else: no message
passes between them except rows.

| component | state | operations | hard behaviour |
|---|---|---|---|
| HTTP API (`api/`) | none of its own; rows | submit, status, result, cancel, automatic start of the GPU pod | concurrent submissions with one idempotency key; lost answers and retries; a status read that is stale when the result is asked for |
| job repository (`job_repository.go`) | `transcription_jobs`, `webhook_deliveries` | create, read, cancel, recover stale jobs, claim and update webhooks | each call is its own transaction |
| watchdog (`watchdog.go`) | none | every tick: requeue stale leases with retries left, then fail the others | two statements; a slow worker looks dead |
| webhook dispatcher (`dispatcher.go`) | goroutines | claim a batch, post, record | a claim whose read breaks off; a record that is refused; restart between claim and record; several API processes |
| worker database layer (`db.py`) | connection | dequeue, progress, complete, requeue, fail, heartbeat, recovery at a start | commits whose answers are lost; statements that do not check ownership |
| worker loop (`worker.py`) | `active_job_ids`, slot threads, heartbeat thread | lease and run jobs, heartbeat, burst wake-up and auto-stop, restart by `os.execv` | the heartbeat uses a copy of the active set; `execv` under the other slots |
| inference pipeline (`pipeline.py`) | three locks, cache of alignment models, scratch files | `process()`, reconstruction of speaker turns | slots share models; every stage may raise |
| audio, transcriber, diarizer | temporary files, models, backend | download, decode (three decoders), Whisper with a reload and retry, NeMo cascade or pyannote | failures half-way; files whose names are not yet known to the caller |
| text normalizer | none | joins, replaces and recases words; rewrites text | indices and times of words that become fewer or more |
| speaker turns (`pipeline.py`, `diarizer.py`) | lists of segments, rewritten in place | stitch windows, label words, split, relabel and heal segments | a dozen passes over one list, each undoing part of another |
| RunPod client, burst scaling | pods, outside; two clocks of the heartbeat thread | start, wake up, stop | decisions from counts and heartbeats that are out of date |
| SSRF filter, configuration, models, migrations, benchmarks, scripts | none | | |

How they meet: the API inserts a row `queued`; a slot leases it (`FOR UPDATE SKIP
LOCKED`), runs the pipeline and settles it, inserting a delivery in the same
transaction; the dispatcher posts it; heartbeats refresh leases and requeue what
they take for orphans; the watchdog requeues or fails what nobody refreshes.

What makes each part correct:

* queue: a row never contradicts itself, a settled job stays settled, retries
  are bounded, an outcome is announced, every job is settled in the end;
* dispatcher: a delivery is in one hand, success is real, nothing is forgotten;
* pipeline: locks and files have an owner at every exit, models load once, calls end;
* API: one job per key, no trace of a refused request, answers that stay true;
* burst scaling: a backlog gets its second pod, an idle one is given up, no
  running job is lost to that, and a job is not left to nobody;
* speaker turns: no word lost, doubled or moved past another, titles in one
  piece, labels without gaps, loops that end.

## 2. Modules

| module | what it is |
|---|---|
| `JobQueue` | the rows of `transcription_jobs` and everybody who writes them |
| `JobLifecycle` | what the queue promises a reader: an abstract specification |
| `WebhookDispatcher` | `webhook_deliveries`, claims, goroutines, API processes |
| `SlotPipeline` | `process()` in several slots: locks, scratch files, cache, progress |
| `JobApi` | handlers and clients on top of `JobLifecycle` |
| `BurstScaler` | pods, heartbeats and the three decisions to start or stop a pod |
| `WordStream` | words, and the functions of `normalizer.py` on them |
| `SegmentRuns` | `_split_segment_runs`: the runs of speakers in one segment |
| `CourtPasses` | roles, pruning and the passes of `reconstruct_speaker_turns`, as functions |
| `SpeakerTurns` | `reconstruct_speaker_turns` as a state machine over these functions |
| `DiarizeStitch` | windows, stitching, consolidation and `assign_speakers` of `diarizer.py` |
| `JobQueueProofs`, `WebhookDispatcherProofs`, `SlotPipelineProofs`, `BurstScalerProofs`, `JobApiProofs`, `WordStreamProofs`, `DiarizeStitchProofs`, `SpeakerTurnsProofs` | TLAPS proofs |
| `MCJobQueue`, `MCWebhookDispatcher`, `MCSlotPipeline`, `MCJobApi`, `MCBurst`, `MCSpeakers` | instances for TLC |

Operators whose comment starts with "Mutant:" are wrong variants of the
definition after them. They are used by no specification: substituted for that
definition, each makes TLC report the property it is listed with in
`PROJECT.json`.

### JobQueue

`row[j]` is the part of a row that any statement reads in a condition or that a
client can see: status, stage, owner, age of the heartbeat, `retry_count`,
presence of a result, class of the error message, presence of a callback URL.
A SET clause is an operator on a row (`LeasedRow`, `CompletedRow`, ...), a WHERE
clause a predicate (`Retryable`, `Orphaned`, ...), a committed transaction an
action. A slot's control state is the next statement of `_worker_slot_loop`:
`idle`, `leased` (dequeued, not yet in `active_job_ids`), `running`, `raised`,
`failing`, `execv`, `cleanup`. `beat` holds the copy of the active set between
the lock and the SQL of the heartbeat thread; `dog` is the point between the two
statements of the watchdog. Time is the step `Expire`, which makes a heartbeat
stale; as long as somebody refreshes it that counts as a fault.

Faults are bounded by `MaxFaults`: crashes, SQL calls that fail, commits whose
answer is lost, stalls. `StableIds` says whether `WORKER_ID` is configured; if
not, a new process has a new id and the rows of the old one belong to `Ghost`.

Abstractions: which queued row a lease takes is open (the order of the two lanes
of `dequeue_job` is in the plan); payloads, texts and durations are
gone; a duration-limited job of an older release is a row with error `limit4h`.

### JobLifecycle

For each job: its state, whether it has a result, who executes it. Only an
execution under way settles a job or changes what is settled; the watchdog and
the heartbeat touch open jobs only; a result never disappears. `JobQueue`
implements it under the mapping at the end of `JobQueue.tla` (`Lifecycle`),
checked by TLC and proved in `JobQueueProofs`. Because jobs step
independently and one transaction may change several rows, its next-state
relation asks that every job take a step or stay.

### WebhookDispatcher

Deliveries are numbered by `created_at`. For each server and delivery the model
counts goroutines by phase (about to post, accepted, refused), so that nothing in
the model itself prevents two of them. The receiver is external. `attempt` is read
and never written, as in the code. A server is up, shutting down (contexts
cancelled, goroutines abandoned) or down.

`prepared` is chosen at the start. In pgx's default mode a statement is prepared and
PostgreSQL infers its parameters; that of `UpdateWebhookDelivery` is refused there,
and since every caller discards the error `UpdateWebhookDelivery` changes nothing.
With a mode in `DATABASE_URL` that sends types or plain text
(`default_query_exec_mode=exec` or `simple_protocol`) it takes effect. What
PostgreSQL answers was not tried but follows from its rules for parameter types.

A claim whose rows arrive in part (`ClaimCutShort`) starts a goroutine for those that
did, because `rows.Err()` is never read, and may have been committed or rolled back.
Two variables are history: `answered`, how the receiver has answered a delivery, and
`doubt`, the deliveries that were handed out by a claim that was rolled back. `Alive` are
the deliveries whose receiver accepts sooner or later.

### SlotPipeline

One record per call of `process()`: control state, the variables
`raw_download_path` and `wav_path`, the state of the segments, the last progress
report and the outcome. Files on disk are separate from the variables that refer
to them, since the `finally` block removes only the latter. Every stage has its
failing variant. Abstractions: audio samples are gone; `cleanup_file` succeeds;
`prefetched_wav` has no caller; segments without text are dropped as the code
does. A chunk of the NeMo cascade is made by `mkstemp` (`fresh`) and listed in
`tmp_paths` after it was written (`chunk`); the `finally` block of a batch unlinks
what is listed, so a file whose write raised in between is left without a name
(`lost`).

### JobApi

Two or more clients submit (token, body, payload key, header key), read the
answer, and submit again if they have none. A call steps where another could see
the difference: insert, lookup after a conflict, check for workers, answer. The
validator works on the classes of text it tells apart (`Bodies`). Rows live under
`JobLifecycle`; its actions `Submit` and `Cancel` are taken by the handlers, the
others by the workers. `GetResult` is a function of the row (`ResultCode`), as it
reads one row in one statement; `GetStatus` additionally records the promise it
made. What `StartPod` then does is in `BurstScaler`.
Static endpoints and the health checks are left out, and so are malformed UUIDs.

### BurstScaler

Two pods, primary and burst, each `stopped`, `starting`, `up` or `stopping`, and on each
a worker with its slots, its active list and its heartbeat thread (`hb`: asleep,
or between the heartbeat and the decision with an empty or a non-empty
`active_list`). `beat` is a pod's row of `worker_heartbeats`: younger than 45
seconds or not. `asking` counts submissions between the insert, the look for
workers and the call of `StartPod`; `idle` and `cool` say that the idle time
and the 120 seconds since the last wake-up have passed. `unseen` and `owed` are
history: the leases of the burst worker that its list could not know of and that no
heartbeat has given back, and whether the last submission saw no worker.

A lease is committed by `dequeue_job`, and the slot is then `fresh` until `ShowJob`
enters its job in the active list, so that a heartbeat may copy the list in between. `Split`
names the pods in which that happens: a bound for TLC, open in the proofs.

Abstractions: the copy of the list and the statements of the heartbeat are one step,
so a lease that falls between them is, for both, one that is not in the list yet (their
race on one row is `orphans` in `JobQueue`); counts and decision are one step, since
the thread reads nothing others write in between and the delay of the provider
is `Boot` and `PodStops`; `RecoverStaleJobs` acts on one job at a time. A failed
count is the pair (0, 1) the `except` clause returns.

### WordStream, SegmentRuns, CourtPasses, SpeakerTurns

A word is its text in lower case without punctuation, the mark after it,
whether it has a capital, its speaker and its times in milliseconds. The text of a
segment is its words. Tables of regular expressions are represented by phrases: at
least one of each shape that the passes tell apart (a phrase longer than, shorter
than and as long as its replacement; one with a mark inside). `SpeakerTurns`
takes one step for each stage, for each segment split, for each round of the
smoothing loop and for each round of pass 1C.

A word carries the stretch of the input it stands for, `from` and `upto`, counted
in tenths of a word: word `n` of the input is the stretch from `10 * (n - 1)` to
`10 * n`, a joined word stands for the stretches of its parts together, and the
words a phrase is replaced by share its stretch. `Covers(ws, a, z)` says that
the stretches of `ws` lead from `a` to `z` without a gap and without an overlap,
so that losing, doubling and reordering are visible wherever words are joined,
replaced or moved. A title is whole (`HonorificWhole`) except in front of "as the
court pleases" or an objection among the next ten words: what comes before
these step 2 of pass 1E takes along without looking at it.

When they were written, the functions were compared with the Python code on
random transcripts.

### DiarizeStitch

What Sortformer returns for a window is any of a set of turn lists; how similar
two voices are is chosen freely (0 or 1) where the code multiplies embeddings.
The choice of the speaker with the best overlap compares the overlaps and, where
the code's weight (overlap divided by the turn's length to the power 0.15) may decide
either way, allows both (`Winners`). `assign_speakers` is what `process()` falls
back to without whisperx. A word that ends before it starts lasts 0.1 s (`WordEnd`).
Sorting is stated as insertion behind what starts no later, which is
what a stable sort leaves.

The loop that cuts the recording is stated by what it leaves behind: round `i`
starts at `i` steps, `Stops` is the disjunction of the `break` and the loop's
condition, and `LastRound` is the first round that stops. `RecordingsAssumption`
says what the two callers pass: an overlap of at most 45 s and a window at
least 60 s longer. Below that the step of at least 60 s would no longer be the
window without its overlap, and neighbouring windows would not overlap as they should.

## 3. Runs

| run | instance | what it shows |
|---|---|---|
| `slots` | 1 job, 1 worker, 2 slots, 2 faults, stable id | races of slots, heartbeat, watchdog and client on one row; the row's consistency, the retry limit, notification, refinement of `JobLifecycle`, and that the job is settled for good |
| `hosts` | 1 legacy job, 2 workers with drawn ids, 1 fault | across hosts only the watchdog can recover what a dead process held, and it does (the safety properties need no second instance: they are proved for all) |
| `orphans` | 1 job, 2 slots, no fault | **violated**: the heartbeat takes a job away from a slot of its own process |
| `cancel` | 1 job, 1 slot, no fault | **violated**: a cancelled job becomes completed |
| `deliveries` | 3 deliveries, 2 servers, batches of 2, 1 fault, updates that take effect or never do | single flight, real success, nothing forgotten, every delivery posted and, where that is recorded, successful in spite of the batch limit and of one that is refused for ever |
| `default_mode` | 1 delivery, no fault, a live receiver, pgx's default | **violated**: a delivery is posted once and stays `delivering` |
| `pipeline` | 2 slots, 1 language, 2 parts, all backends | locks, files, cache, words, progress, wherever a stage raises, and that every call ends |
| `stages` | 1 slot | **violated**: the stages do not come in the order of the README |
| `scratch` | 2 slots | **violated**: `os.execv` leaves scratch audio of the other slots |
| `api` | 2 clients with any of 6 submissions, a legacy row with any key, 1 fault | one job per key, no duplicate work, nothing for refused requests, announced results stay, every serveable client is acknowledged |
| `burst` | 2 jobs, 2 pods with 1 slot, lease and entry apart on the burst pod, threshold 1, 1 retry, 1 submission at a time, 1 fault | the auto-stop spares running jobs it could know of, a backlog gets a pod, an idle pod is given up, jobs are settled unless the queue is stranded, and what strands it |
| `speakers` | every dialogue of 3 out of 19 short utterances under 3 assignments of speakers, every segment of 4 words of 4 kinds under 27 labellings, a phrase joined with what follows it, a title cut by step 2 of pass 1E; recordings of 1 to 3 windows with any of 7 outputs each | words kept, smoothing ends, titles whole, the bench not addressed by itself, speakers bounded and numbered; windows stitched without doubled or lost speech, words labelled, segments bounded |

Why the bounds are enough. All properties of the queue speak of one row; what
two jobs share is a slot or the active set, and two slots on one job already
give every race between holders of a row. Two faults allow a crash during the
recovery from another. `MaxRetries` 1 with `RetryFloor` 2 keeps the two retry
limits apart, as 3 and a smaller configured value are. For deliveries, three
rows with batches of two is the smallest instance with a row beyond the batch; one
of them is never accepted. `MaxAttempts` may be 2, as no row gets past its first
attempt. One fault is what five minutes allow with liveness; the safety
properties are proved for any number. In the pipeline two slots meet at every lock,
and two parts distinguish first, last and overlong segments. In the API run three fresh ids are what two clients
without a key and one lost commit can use. In `burst` two jobs are a backlog
behind a busy primary; one slot per pod suffices because slots of one pod race
only in ways `slots` covers; only the burst pod's list decides about a pod, so only
there a lease and its entry are apart (`Split`; the proofs have it on any pod);
submissions repeat (a known key finds its row), so the pods come and go without end; one fault is a refused call, a failed count or
heartbeat, or a pod taken away. In `speakers` three segments are what the
sandwich passes look at, the utterances hold each trigger of each pass, whole
and cut at the boundary, and four words make three runs with a neighbour to each
side; the recordings lie on both sides of the limit below which a remainder is
taken in. No run uses symmetry, as liveness is checked in most of them.

### Fairness

* Queue: a worker is restarted (`Restart=always` in the deployment), slot,
  heartbeat and watchdog loops come round, `process()` returns or raises (shown
  by `pipeline`), and a lease nobody refreshes goes stale. Clients and
  faults are not fair: nobody need cancel, and nothing need break.
* Dispatcher: the ticker fires, goroutines end (the HTTP client has a timeout),
  time passes, the API is restarted. A receiver in `Alive` that is posted to again
  and again accepts at last (strong fairness of `PostAccepted`); of the others nothing
  is assumed.
* Pipeline: each stage ends or raises (downloads and ffmpeg have timeouts); a
  thread that waits for a lock released again and again obtains it (strong
  fairness of the three acquisitions).
* API: a client without an id submits again and the server answers. Lost answers
  are bounded by `MaxFaults`.
* Burst: the threads of the API and of a running worker go on, the provider does
  in time what it has accepted, rows grow old and the watchdog comes round. The
  120 seconds and the idle time pass; the idle time is strongly fair because
  its clock runs only while the thread sleeps, and a lease because a slot asks every
  `POLL_INTERVAL`, so a queue that is filled again and again is not missed for
  ever. Nobody need submit, no job
  need end: `EveryJobDone` alone assumes that jobs do (`JobsEnd`), and
  `BurstComes` holds behind a primary that never finishes.
* Speakers: no fairness. That the smoothing loop ends is the invariant
  `SmoothingEnds`: each round that asks for another leaves fewer runs (proved for all
  transcripts in `SpeakerTurnsProofs`).

## 4. Findings

1. `orphans`: `heartbeat_loop` copies `active_job_ids` (worker.py:168) and
   `send_worker_heartbeat` requeues everything else of this worker (db.py:357). A
   job leased in between is requeued while its slot runs it; with two slots it is
   transcribed twice. Nothing fails; `LeaseConsistent` and `Lifecycle` still hold.
2. `cancel`: `complete_job` and `fail_job` do not look at the status they
   overwrite, so a cancellation the client was told of is undone.
3. `default_mode`: `UpdateWebhookDelivery` uses `$1` as a VARCHAR and as text
   (job_repository.go:305 and 310), which PostgreSQL refuses when pgx lets it infer
   the parameters, and `dispatcher.go` discards the error: no success, retry or failure
   is ever recorded, and a delivery the receiver refused is not sent again.
4. `stages`: the code reports `aligning` (78 %) before `diarizing` (85 %);
   `src/README.md:106` lists them the other way round.
5. `scratch`: `os.execv` ends other slots without their `finally` blocks.

Observations without a run, since no text of the repository is contradicted by
a single property, or since the premise of a property already says so:

* `validator.go:83` says translation is enabled "if target differs or is en", while
  the condition below it enables it only if the target differs;
* where updates of deliveries do take effect, `attempt` is never incremented: retries
  never end, the backoff stays at two seconds, and as many refused deliveries as a batch
  takes can keep younger ones waiting (job_repository.go:280);
* a delivery claimed by a process that stops stays `delivering`
  (job_repository.go:277; the premise of `NothingForgotten`);
* a read of claimed rows that breaks off is not noticed (job_repository.go:291-299),
  and when the claim is rolled back its rows are posted twice (the exception in
  `SingleFlight`);
* a chunk of the diarizer whose `sf.write` raises stays on disk (diarizer.py:337-341;
  the exception in `ScratchTracked`);
* the percentage a client polls falls when Whisper starts over (transcriber.py:222;
  the exception in `ProgressForward`);
* a burst pod may stop with a job that a slot had leased and not yet entered in the
  active list, if the heartbeat of that round failed (worker.py:168, 239-247; the
  set `unseen` in `RunningSpared`); and the heartbeat's requeue of such a job does not
  count as a retry, so that it may repeat (db.py:357);
* a submission within 45 seconds of the burst pod's auto-stop, the primary being
  off, sees the old heartbeat, starts nothing and leaves the queue to the next
  submission (handlers.go:224; the premise of `StrandedUnseen`);
* a count that fails reads as an empty queue with one worker (db.py:132-138), so
  an idle burst pod may stop although jobs wait;
* pass 1E takes the longest cut that matches (pipeline.py:1023), so a complete
  "as the court pleases" at the end of a turn moves to the next speaker, with up to
  three words before it (the exemption in `HonorificWhole`);
* pass 2 gives "My Lord" to the judge when "Sir?" follows (pipeline.py:1133),
  though pass 1 says "The Judge NEVER addresses themselves" (pipeline.py:934);
* a jitter word keeps its own label inside the run that absorbs it, and the
  regrouping by labels splits it off again (pipeline.py:658-688);
* "No." and "Mr.", once abbreviated, count as ends of sentences;
* a new speaker of a window may get a label that is in use when the labels have a
  gap (diarizer.py:449; the premise of `LabelsApart`);
* after a silent window the cut lies at the midpoint of an overlap nobody
  heard, and speech of the window before it may be trimmed (diarizer.py:454);
* `MAX_SPEAKERS` = 2 removes no third speaker if no judge was found
  (pipeline.py:761); consolidation leaves the turns of a single speaker unnumbered
  (diarizer.py:772-898).

## 5. Proofs

All theorems hold for every value of the constants allowed by the assumptions
named in the modules: `ConstantsAssumption`, `DispatcherAssumption`,
`PipelineAssumption`, `BurstAssumption`, `ApiAssumption`, `FiniteClients`,
`RecordingsAssumption`, `OutputsAssumption`, `SpokenWordsAssumption` and
`TranscriptsAssumption`. The clients of the API are finitely many; finiteness of the sets
of jobs, workers, slots, servers, recordings, outputs or transcripts is not assumed.

* `JobQueueProofs`. `IndInv` joins the five invariants with `HeldIsSubmitted` (a
  slot that is not idle holds a job that exists: otherwise `complete_job` could
  make a row out of nothing) and `AbsentIsBlank` (needed for the types and for
  `CreateJob`). The proof separates rows from workers: `RowSteps` shows that each
  SET clause preserves the invariant of the rows its WHERE clause matches, and
  the actions follow from two lemmas about statements that touch one or many
  rows. Theorems: `TypeCorrect`, `LeaseSafe`, `RetrySafe`, `NotificationSafe`,
  `ActiveSafe`, and the action property `SettledSafe`. `ActiveIsHeld` and
  `SettledStays` are stated here only: the one serves the induction, the other is what
  `Lifecycle` says of settled rows.
  `QueueImplementsLifecycle`: the queue implements `JobLifecycle`. The abstract step
  is restated on one row and its set of executors without primes (`LifeRow`); SET
  clauses are steps of rows, moves of slots keep, add or remove executors, and each
  action combines the two. `HeldIsSubmitted` is what makes every settling slot an
  executor.
* `WebhookDispatcherProofs`. `IndInv` strengthens the three properties by
  `AcceptedIsReal` (who is about to record success was accepted), `AnsweredIsKnown` (a
  goroutine past its post has an answer), `StoppingIsFault` and `DoubtIsFault` (who shuts
  down, and a claim rolled back, cost a fault). It holds in both modes of the
  database. Theorems: `TypeCorrect`, `FlightSafe`, `SuccessSafe`, `ForgottenSafe`.
* `SlotPipelineProofs`. Locks, files and words are one invariant of each call with
  the locks and the backend, as only NeMo's chunks may lose a file; the cache needs `LoadsInv` (a slot about to load has seen an empty
  cache, and holds the lock). Theorems: `TypeCorrect`, `ScratchSafe`,
  `LocksSafe`, `AlignSafe`, `WordsSafe` (`WordsBeforeSpeakers`, for which there is no run).
  `ProgressGoesForward` proves the action property `ProgressForward` from
  `StagesInv` (what a call has last reported at each of its control states) and
  from the monotony of the percentage in the number of segments, whatever the
  division rounds off.
* `BurstScalerProofs`. `IndInv` joins the type invariant with `AskingBound` (the
  two counters of submissions together stay within the bound), `OwedStart` (after a
  submission that saw no worker its start is pending or the primary pod not stopped),
  `FreshHolds` (a slot that has yet to show its job holds one), `ShownIsActive` (what
  the burst worker runs is in its active list or not shown) and `FreeMeansUnseen`
  (between an empty list and the decision, what it runs is `unseen`). `OwedStart`
  gives `StrandedQueues`; the last three give the action property `AutoStopSpares`. Also `BurstTypeCorrect`.

* `JobApiProofs`. `IndInv` joins the properties with what a call carries between
  its steps: who is about to be answered carries a job (`CarriesJob`), a client
  submits only while it has no id (`AskingUnknown`), only a key can conflict
  (`LookupKeyed`), what a client was told is a row under the key of its own
  submission (`ToldRows`) that it shares with nobody unless there is a key
  (`OwnRows`), keys are unique among rows (`UniqueKeys`), and the row behind a
  promise is completed and nobody executes it (`Promises`). `NoDuplicateWork` is a
  statement about numbers: the rows without a key are at most the faults and the
  clients that were told of one (`KeylessCounted`), which is where the finiteness
  of `Clients` is needed. Theorems: `ApiTypesOK`, `KeyDecidesSharing`
  (`OneJobPerKey`), `WorkIsNotDuplicated`, `RowsWereAskedFor`, `PromiseIsKept`,
  and `ApiImplementsLifecycle`: handlers and workers together take only steps
  of `JobLifecycle`.
* `DiarizeStitchProofs`. `WindowsCovered` (`WindowsCover`) is arithmetic on `Step`, `EndOf`
  and `LastRound`: a first round that stops exists because the rounds are bounded by
  `total \div Step`, and a round that does not stop leaves at least an overlap
  and 15 s. `StitchingIsExact` (`StitchedOnce`) rests on `StitchInv`: while windows come in,
  `turns` is, as a set of marked intervals, the union over the windows so far of the parts they
  answer for (`AllParts`). A new window that says something lowers the upper end of
  every window before it to its own midpoint (`TrustAppend`, `MinAdd`); `PartCut`
  shows that `JoinAt` cuts the old turns at exactly that point, `PartRest` that it takes
  the rest from the new ones. `SpeakersStayApart` is the action property
  `LabelsApart`: as long as the labels have no gap, the fold over the speakers
  of a window keeps matched labels, which are below the number of labels in use,
  apart from new ones, which are not, and new ones apart by the size of the map.
  `WordsAreAssigned` (`WordsAssigned`) is about what follows: sorting, joining of turns
  across pauses, renumbering, the speaker of each word, the words without one and the
  regrouping. `ByStartIs` and `JoinPausesIs` follow the two folds turn by turn;
  `RanksAre` says what a renumbered label is: how many labels occur first before
  it; `FilledIs` lets no word without a speaker pass unless there is no turn at all;
  `PairedIs` rests on the words that trail and the words that lead being
  apart, so that two adjacent corrections never meet; `RefinedIs` puts the segments
  together again to the words they were made of. `WordsInv` carries that
  through the stages, and with `StitchInv` gives `StitchTyped` (`StitchTypeOK`).
* `WordStreamProofs`. Whatever `normalizer.py` joins or replaces in the words of a
  segment, what is left covers the same stretch: `JoinIs` (number and letter),
  `SlashedAre` ("slash" between words), `StreamIs` (the phonetic rules),
  `CasesAre`, and all of them as `NormalizedIs`. A sequence of words that covers a
  stretch is a member of `Stretch`, closed under concatenation and cutting
  (`StretchConcat`, `StretchCut`); `FlattenMore` and `FlattenStretch` carry that over to sequences
  of segments.
* `SpeakerTurnsProofs`. All passes of `reconstruct_speaker_turns`, for every
  transcript. The invariant `TurnsInv` has three parts. `Splitting`: the segments made so far
  cover what the input said up to segment `k - 1`, the runs being smoothed
  what segment `k` said. `Passing`: from the roles to the numbering the segments cover
  the whole input, none is empty, and their speakers are among those the
  pruning left (`Cast`). `Finished`: labels are numbers below the size of `Cast`,
  and words have the label of their segment. Each pass is a fold or a function that
  reads from left to right; one lemma for each says that it maps segments that
  cover a stretch to such segments. Theorems: `WordsAreKept` (`WordsKept`),
  `TurnsTyped` (`TurnsTypeOK`), `JudgeNotAddressed` (`BenchNotAddressed`: pass 2 reads
  from left to right, and what it decided about a segment is true of the
  segment that stays), `LabelsAreSound` (the parts `LabelsWhole`, `NobodyMadeUp` and
  `TwoSpeakers` of `FinalLabels`), and `SmoothingStops` (`SmoothingEnds`).
  `SmoothAtIs` is the heart of the last: a run is either kept or absorbed with the
  flag set, and words handed on to the second run change no number of runs; so a
  pass that sets the flag keeps fewer runs than it read (`SmoothPassIs`), and
  merging neighbours adds none (`MergeRunsIs`). The provers cannot show that a
  literal such as "court" is a string; `Tokens` lists the literals the rules
  write beside `STRING`.

Two properties turned out to be false when their proofs were tried, and TLC
showed it once the transcripts were there. `WordsKept` counted words by their positions,
and "as a copy slash five" becomes a single word although the phrase
"as a copy" has been replaced before: hence the stretches. `HonorificWhole` had no
exemption for a title that step 2 of pass 1E cuts ("my lord as the court
pleases my", then "lord" by another speaker). The code is not at fault; both
properties now say what it promises, and both transcripts belong to `speakers`.

How these reason about data. Theorems with an operator parameter cannot be used
with the installed provers, so induction is stated once with a set in the place
of the predicate: `LeastElement` and `SetInduction` follow from the
well-foundedness of `<` on the naturals. Every recursive function and every fold
is then shown to exist by an induction before anything is said about its values:
`KeptExists` and `MapFoldExists` for `Kept` and `spk_map`, and once for all
folds over sequences (`FoldExists`, `FoldValues`) and all functions that read a
sequence from left to right (`RestExists`, `RestTyped`, in `WordStreamProofs`).

Only model-checked: every liveness property (`EventuallySettled`,
`DeliveredWithoutFaults`, `CallEnds`, `EventuallyAcknowledged`, `EveryJobDone`,
`BurstComes`, `BurstGoes`), since fairness and ENABLED are outside the prover.
`HonorificWhole`: what a title may be cut by depends on how steps 1 and 2 of pass 1E and
pass 1D, which comes between them, act on one boundary, and needs an induction of its own for each.
The part `LabelsCountUp` of `FinalLabels`: the numbering goes by the times of the
segments, and that these stay in order is nowhere assumed of the input.
`TypeOK` of `MCSpeakers` is the conjunction of `TurnsTypeOK` and `StitchTypeOK`; each is
proved of its own specification (`TurnsTyped`, `StitchTyped`).

## 6. Not modelled, and why

* the rewriting of plain text in the normalizer (`normalize_case_numbers_and_slashes`
  and its table of courtroom phrases): a function of English text that leaves
  the words of a segment alone;
* the SSRF filter: a predicate on addresses (its refusal is `DownloadRefused`);
* configuration, migrations, struct declarations, benchmarks, deployment scripts;
* numerical content: samples, embeddings, scores. That Sortformer marks nothing behind
  the end of the samples it is given is an assumption (`Audible`); `_parse_nemo_preds`
  would take such a turn as it is;
* the field `text` of a segment as something of its own: role votes and the passes
  read it after `normalize_segment` has rewritten it by `COURT_RULES`
  (normalizer.py:89-394, for example "call places" to "Court pleases"), while `CourtPasses`
  reads the words, so it takes a vote or a trigger for absent where a rewritten phrase
  alone supplies it. That no word is lost and that segments end up labelled as their
  words holds whichever triggers are seen.

## 7. Plan

1. `WhisperFilter`: the filter of repeated segments (transcriber.py:258-283).
2. `QueueLanes`: the order in which slot 1 (oldest first) and the others (newest
   first) take queued jobs, and that a stream of new submissions starves nobody
   (worker.py:236, db.py:81).
3. Proofs of `HonorificWhole` and, under an assumption on the order of the input's
   times, of `LabelsCountUp`.
