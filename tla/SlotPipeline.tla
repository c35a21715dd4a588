---------------------------- MODULE SlotPipeline ----------------------------
(***************************************************************************)
(* InferencePipeline.process as the slot threads of one worker process run *)
(* it side by side: download, conversion, Whisper, alignment, diarization, *)
(* stitching, and the finally block.                                       *)
(*                                                                         *)
(* The slots share the three locks of the pipeline, the cache of alignment *)
(* models and the disk.  Each call has its own local variables; a scratch  *)
(* file on the disk and the variable that refers to it are kept apart,     *)
(* because the finally block removes only what its variables refer to.     *)
(***************************************************************************)
EXTENDS Integers, FiniteSets

CONSTANTS
    Slots,        \* slot threads of the process (WORKER_CONCURRENCY)
    Langs,        \* languages Whisper may detect
    Parts,        \* bound: segments Whisper yields for one recording
    Loadable,     \* the diarization backends that may come up at a start
    ForceAlign,   \* FORCE_WHISPERX_ALIGNMENT: Whisper makes no word timestamps
    NoSlot        \* a lock that is free

ASSUME PipelineAssumption ==
    /\ NoSlot \notin Slots
    /\ Parts \in Nat \ {0}
    /\ Loadable \subseteq {"none", "nemo", "pyannote"}
    /\ ForceAlign \in BOOLEAN

VARIABLES
    call,      \* the call of process() in each slot
    disk,      \* temporary files the call in each slot has made on disk
    lock,      \* _whisper_lock, _align_lock, _diarize_lock
    loads,     \* how often each alignment model was loaded by this process
    backend    \* the diarizer's backend, "none" while is_loaded is False

vars == <<call, disk, lock, loads, backend>>

Locks == {"whisper", "align", "diarize"}

\* The download, the WAV, and files of the chunked diarizer: chunk files in
\* tmp_paths, one that mkstemp has made and that is not in it yet, and one that
\* never got there before tmp_paths was emptied.
Files == {"raw", "wav", "chunk", "fresh", "lost"}
Stages == {"none", "downloading", "preprocessing", "transcribing", "aligning",
           "diarizing", "finalizing"}

InWhisper == {"whisper", "rewhisper"}
InAlign == {"align", "alignload", "alignrun"}
InDiarize == {"fullfile", "chunked", "micro", "pyannote"}
Section(l) == CASE l = "whisper" -> InWhisper
                [] l = "align" -> InAlign
                [] OTHER -> InDiarize
Decoders == {"ffmpeg", "pyav", "soundfile"}
PCs == {"idle", "download", "fetch", "convert", "load", "wantwhisper", "wantalign",
        "synth", "wantdiarize", "stitch", "final", "finally", "execv"}
       \cup Decoders \cup InWhisper \cup InAlign \cup InDiarize

\* raw and wav: is raw_download_path, wav_path set?  segs: no segments, all of
\* those with text have words, or some have none; turns: did the diarizer find any?
Calls == [pc: PCs, want: BOOLEAN, raw: BOOLEAN, wav: BOOLEAN,
          segs: {"none", "bare", "words"}, lang: Langs \cup {"none"},
          turns: BOOLEAN, part: 0..(Parts + 1), stage: Stages,
          pct: 0..75 \cup {78, 85, 95},
          out: {"none", "result", "error", "cuda"}]

NoCall == [pc |-> "idle", want |-> FALSE, raw |-> FALSE, wav |-> FALSE,
           segs |-> "none", lang |-> "none", turns |-> FALSE, part |-> 0,
           stage |-> "none", pct |-> 0, out |-> "none"]

-----------------------------------------------------------------------------
Init ==
    /\ call = [s \in Slots |-> NoCall]
    /\ disk = [s \in Slots |-> {}]
    /\ lock = [l \in Locks |-> NoSlot]
    /\ loads = [g \in Langs |-> 0]
    /\ backend \in Loadable

At(s, pc) == call[s].pc = pc
Become(s, c) == call' = [call EXCEPT ![s] = c]
Goto(s, pc) == Become(s, [call[s] EXCEPT !.pc = pc])

\* progress_updater(stage, pct), and on to pc.
Report(c, stage, pct, pc) ==
    [c EXCEPT !.stage = stage, !.pct = pct, !.pc = pc]

\* An exception leaves the try block of process; only the stages that use the
\* GPU raise one whose text speaks of CUDA.
Raise(s, out) == Become(s, [call[s] EXCEPT !.pc = "finally", !.out = out])
RaiseError(s) == Raise(s, "error")
RaiseGpu(s) == Raise(s, "error") \/ Raise(s, "cuda")

Create(s, f) == disk' = [disk EXCEPT ![s] = @ \cup {f}]
\* cleanup_file
Remove(s, F) == disk' = [disk EXCEPT ![s] = @ \ F]

Acquire(s, l) == lock[l] = NoSlot /\ lock' = [lock EXCEPT ![l] = s]
Release(l) == lock' = [lock EXCEPT ![l] = NoSlot]

-----------------------------------------------------------------------------
(* Downloading and preprocessing                                           *)

Begin(s, want) ==
    /\ At(s, "idle")
    /\ Become(s, Report([NoCall EXCEPT !.want = want], "downloading", 10, "download"))
    /\ UNCHANGED <<disk, lock, loads, backend>>

\* Scheme and address are checked before there is a file.
DownloadRefused(s) ==
    /\ At(s, "download")
    /\ RaiseError(s)
    /\ UNCHANGED <<disk, lock, loads, backend>>

CreateDownload(s) ==
    /\ At(s, "download")
    /\ Create(s, "raw")
    /\ Goto(s, "fetch")
    /\ UNCHANGED <<lock, loads, backend>>

\* An answer other than 200, too many bytes, no bytes, a broken connection.
FetchFails(s) ==
    /\ At(s, "fetch")
    /\ Remove(s, {"raw"})
    /\ RaiseError(s)
    /\ UNCHANGED <<lock, loads, backend>>

Fetched(s) ==
    /\ At(s, "fetch")
    /\ Become(s, Report([call[s] EXCEPT !.raw = TRUE], "preprocessing", 25, "convert"))
    /\ UNCHANGED <<disk, lock, loads, backend>>

\* convert_to_wav_16k_mono; ffmpeg may not be installed.
ConvertStart(s) ==
    /\ At(s, "convert")
    /\ Create(s, "wav")
    /\ \E d \in {"ffmpeg", "pyav"} : Goto(s, d)
    /\ UNCHANGED <<lock, loads, backend>>

\* The decoder is not usable, fails, or sees no audio: on to the next one.
DecoderFails(s) ==
    /\ \/ At(s, "ffmpeg") /\ Goto(s, "pyav")
       \/ At(s, "pyav") /\ Goto(s, "soundfile")
    /\ UNCHANGED <<disk, lock, loads, backend>>

\* Mutant: the error is raised without cleanup_file(wav_path).
ConversionFailsDirty(s) ==
    /\ call[s].pc \in Decoders
    /\ RaiseError(s)
    /\ UNCHANGED <<disk, lock, loads, backend>>

\* Longer than MAX_AUDIO_DURATION_SECONDS, or the last decoder fails.
ConversionFails(s) ==
    /\ call[s].pc \in Decoders
    /\ Remove(s, {"wav"})
    /\ RaiseError(s)
    /\ UNCHANGED <<lock, loads, backend>>

\* The raw download is removed at once.
Converted(s) ==
    /\ call[s].pc \in Decoders
    /\ Remove(s, {"raw"})
    /\ Become(s, [call[s] EXCEPT !.pc = "load", !.raw = FALSE, !.wav = TRUE])
    /\ UNCHANGED <<lock, loads, backend>>

\* The samples are read into memory; failing that, each stage reads the file.
LoadAudio(s) ==
    /\ At(s, "load")
    /\ Become(s, Report(call[s], "transcribing", 40, "wantwhisper"))
    /\ UNCHANGED <<disk, lock, loads, backend>>

-----------------------------------------------------------------------------
(* Whisper, under _whisper_lock                                            *)

AcquireWhisper(s) ==
    /\ At(s, "wantwhisper")
    /\ Acquire(s, "whisper")
    /\ Become(s, [call[s] EXCEPT !.pc = "whisper", !.part = 0])
    /\ UNCHANGED <<disk, loads, backend>>

Min2(a, b) == IF a < b THEN a ELSE b
\* Mutant: no cap, though the last segment may end after info.duration.
PercentUncapped(n) == 40 + ((n * 35) \div Parts)
\* Mutant: the share of the recording without the 40% of the stages before.
PercentFromZero(n) == Min2(75, (n * 75) \div Parts)
\* transcribe_progress_cb
Percent(n) == Min2(75, 40 + ((n * 35) \div Parts))

\* The next segment; the last one may end past the reported duration.
WhisperSegment(s) ==
    /\ call[s].pc \in InWhisper
    /\ call[s].part <= Parts
    /\ Become(s, Report([call[s] EXCEPT !.part = @ + 1], "transcribing",
                        Percent(call[s].part + 1), call[s].pc))
    /\ UNCHANGED <<disk, lock, loads, backend>>

\* The first attempt fails: cache emptied, model reloaded, and again from the
\* start, all under the lock.
WhisperRetry(s) ==
    /\ At(s, "whisper")
    /\ Become(s, [call[s] EXCEPT !.pc = "rewhisper", !.part = 0])
    /\ UNCHANGED <<disk, lock, loads, backend>>

\* Mutant: the lock is not released when the retry raises.
WhisperFailsHolding(s) ==
    /\ At(s, "rewhisper")
    /\ RaiseGpu(s)
    /\ UNCHANGED <<disk, lock, loads, backend>>

\* The reload or the second attempt raises, or what is done with the segments.
WhisperFails(s) ==
    /\ Release("whisper")
    /\ \/ At(s, "rewhisper") /\ RaiseGpu(s)
       \/ At(s, "whisper") /\ RaiseError(s)
    /\ UNCHANGED <<disk, loads, backend>>

\* Without segments alignment is skipped.
WhisperDone(s) ==
    /\ call[s].pc \in InWhisper
    /\ Release("whisper")
    /\ \/ Become(s, [call[s] EXCEPT !.pc = "synth", !.part = 0])
       \/ \E g \in Langs :
             Become(s, Report([call[s] EXCEPT !.lang = g, !.part = 0,
                                 !.segs = IF ForceAlign THEN "bare" ELSE "words"],
                              "aligning", 78, "wantalign"))
    /\ UNCHANGED <<disk, loads, backend>>

-----------------------------------------------------------------------------
(* Alignment, under _align_lock                                            *)

AcquireAlign(s) ==
    /\ At(s, "wantalign")
    /\ Acquire(s, "align")
    /\ Goto(s, "align")
    /\ UNCHANGED <<disk, loads, backend>>

\* Mutant: a model another call has loaded is not found under the key.
CheckAlignModelMisses(s) ==
    /\ At(s, "align")
    /\ Goto(s, "alignload")
    /\ UNCHANGED <<disk, lock, loads, backend>>

\* _get_cached_align_model: is the key there?
CheckAlignModel(s) ==
    /\ At(s, "align")
    /\ Goto(s, IF loads[call[s].lang] = 0 THEN "alignload" ELSE "alignrun")
    /\ UNCHANGED <<disk, lock, loads, backend>>

LoadAlignModel(s) ==
    /\ At(s, "alignload")
    /\ loads' = [loads EXCEPT ![call[s].lang] = @ + 1]
    /\ Goto(s, "alignrun")
    /\ UNCHANGED <<disk, lock, backend>>

\* Segments whose backtracking failed come back without words.
Aligned(s) ==
    /\ At(s, "alignrun")
    /\ Release("align")
    /\ \E g \in {"words", "bare"} :
          Become(s, [call[s] EXCEPT !.pc = "synth", !.segs = g, !.lang = "none"])
    /\ UNCHANGED <<disk, loads, backend>>

\* Mutant: a failed alignment is tried again, without a limit.
AlignFailsRetries(s) ==
    /\ call[s].pc \in InAlign
    /\ Release("align")
    /\ Goto(s, "wantalign")
    /\ UNCHANGED <<disk, loads, backend>>

\* Any error, whisperx not being installed included, keeps Whisper's segments.
AlignFails(s) ==
    /\ \/ At(s, "wantalign") /\ UNCHANGED lock
       \/ call[s].pc \in InAlign /\ Release("align")
    /\ Become(s, [call[s] EXCEPT !.pc = "synth", !.lang = "none"])
    /\ UNCHANGED <<disk, loads, backend>>

\* Every segment that still has no words gets evenly spaced ones.
WithWords(c) == [c EXCEPT !.segs = IF @ = "bare" THEN "words" ELSE @]

Synthesize(s) ==
    /\ At(s, "synth")
    /\ Become(s, IF backend # "none" /\ call[s].want
                 THEN Report(WithWords(call[s]), "diarizing", 85, "wantdiarize")
                 ELSE Report(WithWords(call[s]), "finalizing", 95, "final"))
    /\ UNCHANGED <<disk, lock, loads, backend>>

-----------------------------------------------------------------------------
(* Diarization, under _diarize_lock                                        *)

\* NeMo on the whole file, or in chunks at once when it is long or memory short.
AcquireDiarize(s) ==
    /\ At(s, "wantdiarize")
    /\ Acquire(s, "diarize")
    /\ \E pc \in IF backend = "nemo" THEN {"fullfile", "chunked"} ELSE {"pyannote"} :
          Goto(s, pc)
    /\ UNCHANGED <<disk, loads, backend>>

\* mkstemp makes a chunk file, and once it is written it enters tmp_paths.
CreateChunk(s) ==
    /\ call[s].pc \in {"chunked", "micro"}
    /\ Create(s, "fresh")
    /\ UNCHANGED <<call, lock, loads, backend>>

ListChunk(s) ==
    /\ "fresh" \in disk[s]
    /\ disk' = [disk EXCEPT ![s] = (@ \ {"fresh"}) \cup {"chunk"}]
    /\ UNCHANGED <<call, lock, loads, backend>>

\* The finally block of a batch: it unlinks what is in tmp_paths, and a file that
\* is not in it has no name any more.
Unlinked(D) ==
    (D \ {"chunk", "fresh"}) \cup (IF "fresh" \in D THEN {"lost"} ELSE {})
DropChunks(s) == disk' = [disk EXCEPT ![s] = Unlinked(@)]

\* A batch is through, and its files go before the next is written.
BatchDone(s) ==
    /\ "chunk" \in disk[s]
    /\ "fresh" \notin disk[s]
    /\ DropChunks(s)
    /\ UNCHANGED <<call, lock, loads, backend>>

\* The model found turns, or none; pyannote's errors all end up as none.
Diarized(s, found) ==
    /\ call[s].pc \in InDiarize
    /\ "fresh" \notin disk[s]
    /\ Release("diarize")
    /\ DropChunks(s)
    /\ Become(s, [call[s] EXCEPT !.pc = "stitch", !.turns = found])
    /\ UNCHANGED <<loads, backend>>

\* An attempt of NeMo raises: whole file, then chunks, then micro-windows.
NemoRetry(s) ==
    /\ \/ At(s, "fullfile") /\ Goto(s, "chunked")
       \/ At(s, "chunked") /\ Goto(s, "micro")
    /\ DropChunks(s)
    /\ UNCHANGED <<lock, loads, backend>>

\* The last attempt raises, or the WAV cannot be read before the first.
NemoFails(s) ==
    /\ \/ At(s, "micro") /\ RaiseGpu(s)
       \/ /\ call[s].pc \in {"fullfile", "chunked"}
          /\ disk[s] \cap {"chunk", "fresh"} = {}
          /\ RaiseError(s)
    /\ Release("diarize")
    /\ DropChunks(s)
    /\ UNCHANGED <<loads, backend>>

\* assign_word_speakers and reconstruct_speaker_turns, or assign_speakers when
\* whisperx is missing, or nothing when there are no turns.
Stitch(s) ==
    /\ At(s, "stitch")
    /\ Become(s, Report(call[s], "finalizing", 95, "final"))
    /\ UNCHANGED <<disk, lock, loads, backend>>

\* Only a missing whisperx is caught.
StitchFails(s) ==
    /\ At(s, "stitch")
    /\ call[s].turns
    /\ RaiseError(s)
    /\ UNCHANGED <<disk, lock, loads, backend>>

\* get_conn is outside the try of update_job_progress: without a connection
\* the progress report itself raises.  So does a disk that takes no new file.
ReportFails(s) ==
    /\ call[s].pc \in {"convert", "load", "synth", "stitch"}
    /\ RaiseError(s)
    /\ UNCHANGED <<disk, lock, loads, backend>>

Return(s) ==
    /\ At(s, "final")
    /\ Become(s, [call[s] EXCEPT !.pc = "finally", !.out = "result"])
    /\ UNCHANGED <<disk, lock, loads, backend>>

Referenced(c) == (IF c.raw THEN {"raw"} ELSE {}) \cup (IF c.wav THEN {"wav"} ELSE {})

\* The finally block.  After a CUDA error the slot loop may replace the process.
Finally(s) ==
    /\ At(s, "finally")
    /\ Remove(s, Referenced(call[s]))
    /\ \/ Become(s, NoCall)
       \/ call[s].out = "cuda" /\ Become(s, [NoCall EXCEPT !.pc = "execv"])
    /\ UNCHANGED <<lock, loads, backend>>

-----------------------------------------------------------------------------
(* The end of the process.  It starts again; the files its calls had on    *)
(* disk stay there and no later call refers to them.                       *)

Restart ==
    /\ call' = [s \in Slots |-> NoCall]
    /\ disk' = [s \in Slots |-> {}]
    /\ lock' = [l \in Locks |-> NoSlot]
    /\ loads' = [g \in Langs |-> 0]
    /\ backend' \in Loadable

\* os.execv, whatever the other slots are doing.
Execv(s) ==
    /\ At(s, "execv")
    /\ Restart

\* SIGTERM or SIGKILL: at best the main thread runs its finally blocks, the
\* daemon threads just end.
Kill == Restart

-----------------------------------------------------------------------------
Fetch(s) == DownloadRefused(s) \/ CreateDownload(s) \/ FetchFails(s) \/ Fetched(s)
Convert(s) == ConvertStart(s) \/ DecoderFails(s) \/ ConversionFails(s)
                  \/ Converted(s) \/ LoadAudio(s)
Whisper(s) == WhisperSegment(s) \/ WhisperRetry(s) \/ WhisperFails(s) \/ WhisperDone(s)
Align(s) == CheckAlignModel(s) \/ LoadAlignModel(s) \/ Aligned(s) \/ AlignFails(s)
                \/ Synthesize(s)
Diarize(s) == NemoRetry(s) \/ NemoFails(s) \/ \E b \in BOOLEAN : Diarized(s, b)
Finish(s) == Stitch(s) \/ StitchFails(s) \/ ReportFails(s) \/ Return(s)
                 \/ Finally(s) \/ Execv(s)

SlotNext(s) ==
    \/ \E want \in BOOLEAN : Begin(s, want)
    \/ Fetch(s) \/ Convert(s) \/ Whisper(s) \/ Align(s) \/ Diarize(s) \/ Finish(s)
    \/ CreateChunk(s) \/ ListChunk(s) \/ BatchDone(s)
    \/ AcquireWhisper(s) \/ AcquireAlign(s) \/ AcquireDiarize(s)

Next == Kill \/ \E s \in Slots : SlotNext(s)

Spec == Init /\ [][Next]_vars

(***************************************************************************)
(* Fairness.  Every model call and every transfer ends or raises (timeouts *)
(* bound the download and ffmpeg), and a thread that waits for a lock that *)
(* is released again and again gets it.  Process ends are not assumed.     *)
(***************************************************************************)
Fairness ==
    \A s \in Slots :
        /\ WF_vars(Fetch(s) \/ Convert(s) \/ Whisper(s) \/ Align(s) \/ Diarize(s)
                       \/ Finish(s))
        /\ SF_vars(AcquireWhisper(s) \/ AcquireAlign(s) \/ AcquireDiarize(s))

FairSpec == Spec /\ Fairness

-----------------------------------------------------------------------------
(* Correctness                                                             *)

\* Every variable stays in its type.
TypeOK ==
    /\ call \in [Slots -> Calls]
    /\ disk \in [Slots -> SUBSET Files]
    /\ lock \in [Locks -> Slots \cup {NoSlot}]
    /\ loads \in [Langs -> Nat]
    /\ backend \in Loadable

\* Whatever raised, and wherever: a scratch file on disk is one that the call's
\* own variables refer to, so that the finally block removes it, or one that
\* the function at work on it has not handed over yet and removes itself.  A
\* slot outside process() has none, and the raw download does not outlive the
\* conversion.  The one exception is a chunk file whose writing raised before it
\* was in tmp_paths ("lost"): only the chunks of NeMo leave such a file behind.
ScratchTracked ==
    \A s \in Slots :
        /\ "raw" \in disk[s] => call[s].raw \/ call[s].pc = "fetch"
        /\ "wav" \in disk[s] => call[s].wav \/ call[s].pc \in Decoders
        /\ disk[s] \cap {"chunk", "fresh"} # {} => call[s].pc \in {"chunked", "micro"}
        /\ call[s].wav => "raw" \notin disk[s]
        /\ call[s].pc \in {"idle", "execv"} => disk[s] \subseteq {"lost"}
        /\ "lost" \in disk[s] => backend = "nemo"

\* Each lock is held by exactly the slot that is inside its section: no two
\* slots drive the same model, the reload of Whisper is not seen by another,
\* and an exception never leaves a lock behind.
LocksMatch ==
    \A l \in Locks, s \in Slots : lock[l] = s <=> call[s].pc \in Section(l)

\* A process loads the alignment model of a language at most once, although
\* _get_cached_align_model checks its cache and fills it in two steps.
AlignLoadedOnce == \A g \in Langs : loads[g] <= 1

\* "every fallback segment still receives full word-level speaker diarization":
\* when speakers are assigned every segment has words.
WordsBeforeSpeakers == \A s \in Slots : call[s].pc = "stitch" => call[s].segs # "bare"

\* The stages in the order in which process() reports them.
Rank(st) == CASE st = "none" -> 0 [] st = "downloading" -> 1 [] st = "preprocessing" -> 2
              [] st = "transcribing" -> 3 [] st = "aligning" -> 4
              [] st = "diarizing" -> 5 [] OTHER -> 6

\* What a client sees that polls: within one call the stage never goes back in
\* this order, and the percentage falls at one point only, the first segment of
\* Whisper's second attempt, and there not below the 40% transcription began with.
ProgressForward ==
    [][\A s \in Slots :
          call[s].pc # "idle" /\ call'[s].pc \notin {"idle", "execv"} =>
              /\ Rank(call'[s].stage) >= Rank(call[s].stage)
              /\ \/ call'[s].pct >= call[s].pct
                 \/ /\ At(s, "rewhisper") /\ call[s].part = 0
                    /\ call'[s].part = 1 /\ call'[s].pct >= 40]_vars

\* The stages in the order the README lists for a client.
ListedRank(st) ==
    CASE st = "diarizing" -> 4 [] st = "aligning" -> 5 [] OTHER -> Rank(st)

\* "queued -> downloading -> preprocessing -> transcribing -> diarizing -> aligning
\* -> finalizing -> completed": within one call the stages come in that order.
StagesAsListed ==
    [][\A s \in Slots :
          call[s].pc # "idle" /\ call'[s].pc \notin {"idle", "execv"} =>
              ListedRank(call'[s].stage) >= ListedRank(call[s].stage)]_vars

\* Every call of process() comes to an end.
CallEnds == \A s \in Slots : call[s].pc # "idle" ~> call[s].pc = "idle"

\* "Guarantee scratch file cleanup", "immediate scratch audio disk cleanup": when
\* the worker replaces its own process no download or WAV is on disk.
ScratchCleaned ==
    [][\A s \in Slots : Execv(s) =>
           \A t \in Slots : disk[t] \cap {"raw", "wav"} = {}]_vars

=============================================================================
