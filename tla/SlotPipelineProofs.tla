------------------------- MODULE SlotPipelineProofs -------------------------
(***************************************************************************)
(* TLAPS proofs about SlotPipeline, for every number of slots and of       *)
(* languages, and for recordings of any length.                            *)
(*                                                                         *)
(* The inductive invariant adds to the properties of the model, for each   *)
(* call, which of its variables are set at which program counter, that     *)
(* only NeMo cuts chunks and leaves a file behind (CallInv), and that a    *)
(* slot about to load an alignment model found none (LoadsInv).            *)
(***************************************************************************)
EXTENDS SlotPipeline, TLAPS

Outs == {"none", "result", "error", "cuda"}
Pcts == 0..75 \cup {78, 85, 95}

-----------------------------------------------------------------------------
(* What the updates of a call produce                                      *)

\* transcribe_progress_cb stays in its band.
LEMMA PercentRange == ASSUME NEW n \in Nat PROVE Percent(n) \in Pcts
<1>1. (n * 35) \div Parts \in Nat
  BY PipelineAssumption
<1> QED
  BY <1>1 DEF Percent, Min2, Pcts

\* Each update of a call's local variables yields a call.
LEMMA CallGoes ==
    ASSUME NEW c \in Calls, NEW pc \in PCs
    PROVE  [c EXCEPT !.pc = pc] \in Calls
  BY DEF Calls, Outs, Pcts
LEMMA CallRaises ==
    ASSUME NEW c \in Calls, NEW pc \in PCs, NEW out \in Outs
    PROVE  [c EXCEPT !.pc = pc, !.out = out] \in Calls
  BY DEF Calls, Outs, Pcts
LEMMA CallReports ==
    ASSUME NEW c \in Calls, NEW st \in Stages, NEW pct \in Pcts, NEW pc \in PCs
    PROVE  Report(c, st, pct, pc) \in Calls
  BY DEF Calls, Outs, Pcts, Report
LEMMA CallStarts ==
    ASSUME NEW c \in Calls, NEW pc \in PCs, NEW n \in 0..(Parts + 1)
    PROVE  [c EXCEPT !.pc = pc, !.part = n] \in Calls
  BY DEF Calls, Outs, Pcts
LEMMA CallCounts ==
    ASSUME NEW c \in Calls, NEW n \in 0..(Parts + 1)
    PROVE  [c EXCEPT !.part = n] \in Calls
  BY DEF Calls, Outs, Pcts
LEMMA CallWants ==
    ASSUME NEW c \in Calls, NEW b \in BOOLEAN
    PROVE  [c EXCEPT !.want = b] \in Calls
  BY DEF Calls, Outs, Pcts
LEMMA CallFetches ==
    ASSUME NEW c \in Calls
    PROVE  [c EXCEPT !.raw = TRUE] \in Calls
  BY DEF Calls, Outs, Pcts
LEMMA CallConverts ==
    ASSUME NEW c \in Calls, NEW pc \in PCs
    PROVE  [c EXCEPT !.pc = pc, !.raw = FALSE, !.wav = TRUE] \in Calls
  BY DEF Calls, Outs, Pcts
LEMMA CallHears ==
    ASSUME NEW c \in Calls, NEW g \in Langs, NEW n \in 0..(Parts + 1),
           NEW w \in {"none", "bare", "words"}
    PROVE  [c EXCEPT !.lang = g, !.part = n, !.segs = w] \in Calls
  BY DEF Calls, Outs, Pcts
LEMMA CallAligns ==
    ASSUME NEW c \in Calls, NEW pc \in PCs, NEW w \in {"bare", "words"}
    PROVE  [c EXCEPT !.pc = pc, !.segs = w, !.lang = "none"] \in Calls
  BY DEF Calls, Outs, Pcts
LEMMA CallSkips ==
    ASSUME NEW c \in Calls, NEW pc \in PCs
    PROVE  [c EXCEPT !.pc = pc, !.lang = "none"] \in Calls
  BY DEF Calls, Outs, Pcts
LEMMA CallDiarizes ==
    ASSUME NEW c \in Calls, NEW pc \in PCs, NEW b \in BOOLEAN
    PROVE  [c EXCEPT !.pc = pc, !.turns = b] \in Calls
  BY DEF Calls, Outs, Pcts
LEMMA CallSpells == ASSUME NEW c \in Calls PROVE WithWords(c) \in Calls
  BY DEF Calls, Outs, Pcts, WithWords
LEMMA NoCallTyped == NoCall \in Calls
  BY PipelineAssumption DEF Calls, NoCall, Stages, PCs

\* What a call's program counter and segment count are.
LEMMA PartTyped ==
    ASSUME NEW c \in Calls
    PROVE  c.part \in 0..(Parts + 1) /\ c.pc \in PCs
  BY DEF Calls

-----------------------------------------------------------------------------
(* Types                                                                   *)


\* The program counters, stages, percentages and outcomes the actions name.
LEMMA Names ==
    /\ "idle" \in PCs /\ "download" \in PCs /\ "fetch" \in PCs /\ "convert" \in PCs
    /\ "load" \in PCs /\ "wantwhisper" \in PCs /\ "wantalign" \in PCs
    /\ "synth" \in PCs /\ "wantdiarize" \in PCs /\ "stitch" \in PCs /\ "final" \in PCs
    /\ "finally" \in PCs /\ "execv" \in PCs /\ "ffmpeg" \in PCs /\ "pyav" \in PCs
    /\ "soundfile" \in PCs /\ "whisper" \in PCs /\ "rewhisper" \in PCs
    /\ "align" \in PCs /\ "alignload" \in PCs /\ "alignrun" \in PCs
    /\ "fullfile" \in PCs /\ "chunked" \in PCs /\ "micro" \in PCs /\ "pyannote" \in PCs
    /\ "downloading" \in Stages /\ "preprocessing" \in Stages
    /\ "transcribing" \in Stages /\ "aligning" \in Stages /\ "diarizing" \in Stages
    /\ "finalizing" \in Stages
    /\ 10 \in Pcts /\ 25 \in Pcts /\ 40 \in Pcts /\ 78 \in Pcts /\ 85 \in Pcts
    /\ 95 \in Pcts
    /\ "result" \in Outs /\ "error" \in Outs /\ "cuda" \in Outs
    /\ 0 \in 0..(Parts + 1)
  BY PipelineAssumption
     DEF PCs, Decoders, InWhisper, InAlign, InDiarize, Stages, Pcts, Outs

\* Raising an exception, and going on, keep the calls typed.
LEMMA BecomesTyped ==
    ASSUME TypeOK, NEW s \in Slots, NEW c \in Calls, Become(s, c)
    PROVE  call' \in [Slots -> Calls]
  BY DEF TypeOK, Become
LEMMA GoesTyped ==
    ASSUME TypeOK, NEW s \in Slots, NEW pc \in PCs, Goto(s, pc)
    PROVE  call' \in [Slots -> Calls]
  BY CallGoes, BecomesTyped DEF TypeOK, Goto
LEMMA RaisesTyped ==
    ASSUME TypeOK, NEW s \in Slots, RaiseError(s) \/ RaiseGpu(s)
    PROVE  call' \in [Slots -> Calls]
<1>1. PICK out \in Outs : Become(s, [call[s] EXCEPT !.pc = "finally", !.out = out])
  BY DEF RaiseError, RaiseGpu, Raise, Outs
<1> QED
  BY <1>1, Names, CallRaises, BecomesTyped DEF TypeOK

\* Every step keeps the types.
LEMMA TypeStep == ASSUME TypeOK, [Next]_vars PROVE TypeOK'
<1> USE DEF TypeOK, Locks, Files
<1>1. ASSUME NEW s \in Slots, SlotNext(s) PROVE TypeOK'
  <2>1. CASE \E want \in BOOLEAN : Begin(s, want)
    <3>1. PICK want \in BOOLEAN : Begin(s, want)
      BY <2>1
    <3>2. [NoCall EXCEPT !.want = want] \in Calls
      BY NoCallTyped, CallWants
    <3> QED
      BY <3>1, <3>2, Names, CallReports DEF Begin, Become, At
  <2>2. CASE DownloadRefused(s)
    BY <2>2, Names, CallRaises
       DEF DownloadRefused, RaiseError, Raise, Become, At
  <2>3. CASE CreateDownload(s)
    BY <2>3, Names, CallGoes
       DEF CreateDownload, Goto, Become, Create, At
  <2>4. CASE FetchFails(s)
    BY <2>4, Names, CallRaises
       DEF FetchFails, RaiseError, Raise, Become, Remove, At
  <2>5. CASE Fetched(s)
    BY <2>5, Names, CallFetches, CallReports
       DEF Fetched, Become, At
  <2>6. CASE ConvertStart(s)
    BY <2>6, Names, CallGoes
       DEF ConvertStart, Goto, Become, Create, At
  <2>7. CASE DecoderFails(s)
    BY <2>7, Names, CallGoes
       DEF DecoderFails, Goto, Become, At
  <2>8. CASE ConversionFails(s)
    BY <2>8, Names, CallRaises
       DEF ConversionFails, RaiseError, Raise, Become, Remove
  <2>9. CASE Converted(s)
    BY <2>9, Names, CallConverts
       DEF Converted, Become, Remove
  <2>10. CASE LoadAudio(s)
    BY <2>10, Names, CallReports
       DEF LoadAudio, Become, At
  <2>11. CASE AcquireWhisper(s)
    BY <2>11, Names, CallStarts
       DEF AcquireWhisper, Become, Acquire, At
  <2>12. CASE WhisperSegment(s)
    <3>1. call[s].part + 1 \in 0..(Parts + 1) /\ call[s].pc \in PCs
      BY <2>12, PartTyped, PipelineAssumption DEF WhisperSegment
    <3>2. Percent(call[s].part + 1) \in Pcts
      BY <3>1, PercentRange, PipelineAssumption
    <3>3. [call[s] EXCEPT !.part = call[s].part + 1] \in Calls
      BY <3>1, CallCounts
    <3>4. Become(s, Report([call[s] EXCEPT !.part = call[s].part + 1],
                           "transcribing", Percent(call[s].part + 1), call[s].pc))
      BY <2>12 DEF WhisperSegment
    <3>5. call' \in [Slots -> Calls]
      BY <3>1, <3>2, <3>3, <3>4, Names, CallReports, BecomesTyped
    <3> QED
      BY <2>12, <3>5 DEF WhisperSegment
  <2>13. CASE WhisperRetry(s)
    BY <2>13, Names, CallStarts
       DEF WhisperRetry, Become, At
  <2>14. CASE WhisperFails(s)
    <3>1. call' \in [Slots -> Calls]
      BY <2>14, RaisesTyped DEF WhisperFails
    <3> QED
      BY <2>14, <3>1 DEF WhisperFails, Release
  <2>15. CASE WhisperDone(s)
    <3>1. CASE Become(s, [call[s] EXCEPT !.pc = "synth", !.part = 0])
      BY <2>15, <3>1, Names, CallStarts DEF WhisperDone, Release, Become
    <3>2. ASSUME NEW g \in Langs,
                 Become(s, Report([call[s] EXCEPT !.lang = g, !.part = 0,
                                     !.segs = IF ForceAlign THEN "bare" ELSE "words"],
                                  "aligning", 78, "wantalign"))
          PROVE  TypeOK'
      <4>1. call' \in [Slots -> Calls]
        BY <3>2, Names, CallHears, CallReports DEF Become
      <4> QED
        BY <2>15, <4>1 DEF WhisperDone, Release
    <3> QED
      BY <2>15, <3>1, <3>2 DEF WhisperDone
  <2>16. CASE AcquireAlign(s)
    BY <2>16, Names, CallGoes
       DEF AcquireAlign, Goto, Become, Acquire, At
  <2>17. CASE CheckAlignModel(s)
    BY <2>17, Names, CallGoes
       DEF CheckAlignModel, Goto, Become, At
  <2>18. CASE LoadAlignModel(s)
    <3>1. call' \in [Slots -> Calls]
      BY <2>18, Names, CallGoes DEF LoadAlignModel, Goto, Become
    <3>2. loads' \in [Langs -> Nat]
      <4>1. loads' = [loads EXCEPT ![call[s].lang] = loads[call[s].lang] + 1]
        BY <2>18 DEF LoadAlignModel
      <4>2. CASE call[s].lang \in Langs
        BY <4>1, <4>2
      <4>3. CASE call[s].lang \notin Langs
        BY <4>1, <4>3
      <4> QED
        BY <4>2, <4>3
    <3> QED
      BY <2>18, <3>1, <3>2 DEF LoadAlignModel
  <2>19. CASE Aligned(s)
    <3>1. PICK g \in {"words", "bare"} :
              Become(s, [call[s] EXCEPT !.pc = "synth", !.segs = g, !.lang = "none"])
      BY <2>19 DEF Aligned
    <3>2. call' \in [Slots -> Calls]
      BY <3>1, Names, CallAligns, BecomesTyped
    <3> QED
      BY <2>19, <3>2 DEF Aligned, Release
  <2>20. CASE AlignFails(s)
    BY <2>20, Names, CallSkips
       DEF AlignFails, Become, Release, At
  <2>21. CASE Synthesize(s)
    BY <2>21, Names, CallSpells, CallReports
       DEF Synthesize, Become, At
  <2>22. CASE AcquireDiarize(s)
    BY <2>22, Names, CallGoes
       DEF AcquireDiarize, Goto, Become, Acquire, At
  <2>23. CASE CreateChunk(s) \/ ListChunk(s) \/ BatchDone(s)
    BY <2>23
       DEF CreateChunk, ListChunk, BatchDone, Create, DropChunks, Unlinked
  <2>24. CASE \E b \in BOOLEAN : Diarized(s, b)
    <3>1. PICK b \in BOOLEAN : Diarized(s, b)
      BY <2>24
    <3>2. [call[s] EXCEPT !.pc = "stitch", !.turns = b] \in Calls
      BY Names, CallDiarizes
    <3>3. call' \in [Slots -> Calls]
      BY <3>1, <3>2, BecomesTyped DEF Diarized
    <3>4. lock' \in [Locks -> Slots \cup {NoSlot}]
      BY <2>24 DEF Diarized, Release
    <3> QED
      BY <2>24, <3>3, <3>4 DEF Diarized, DropChunks, Unlinked
  <2>25. CASE NemoRetry(s)
    <3>1. call' \in [Slots -> Calls]
      BY <2>25, Names, GoesTyped DEF NemoRetry
    <3>2. disk' \in [Slots -> SUBSET Files]
      BY <2>25 DEF NemoRetry, DropChunks, Unlinked
    <3> QED
      BY <2>25, <3>1, <3>2 DEF NemoRetry
  <2>26. CASE NemoFails(s)
    <3>1. call' \in [Slots -> Calls]
      BY <2>26, RaisesTyped DEF NemoFails
    <3>2. disk' \in [Slots -> SUBSET Files]
      BY <2>26 DEF NemoFails, DropChunks, Unlinked
    <3>3. lock' \in [Locks -> Slots \cup {NoSlot}]
      BY <2>26 DEF NemoFails, Release
    <3> QED
      BY <2>26, <3>1, <3>2, <3>3 DEF NemoFails
  <2>27. CASE Stitch(s)
    BY <2>27, Names, CallReports
       DEF Stitch, Become, At
  <2>28. CASE StitchFails(s)
    BY <2>28, Names, CallRaises
       DEF StitchFails, RaiseError, Raise, Become, At
  <2>29. CASE ReportFails(s)
    BY <2>29, Names, CallRaises
       DEF ReportFails, RaiseError, Raise, Become
  <2>30. CASE Return(s)
    BY <2>30, Names, CallRaises
       DEF Return, Become, At
  <2>31. CASE Finally(s)
    BY <2>31, Names, NoCallTyped, CallGoes
       DEF Finally, Become, Remove, At, Referenced
  <2>32. CASE Execv(s)
    BY <2>32, NoCallTyped DEF Execv, Restart
  <2> QED
    BY <1>1, <2>1, <2>2, <2>3, <2>4, <2>5, <2>6, <2>7, <2>8, <2>9, <2>10,
    <2>11, <2>12, <2>13, <2>14, <2>15, <2>16, <2>17, <2>18, <2>19, <2>20,
    <2>21, <2>22, <2>23, <2>24, <2>25, <2>26, <2>27, <2>28, <2>29, <2>30,
    <2>31, <2>32
       DEF SlotNext, Fetch, Convert, Whisper, Align, Diarize, Finish
<1>2. CASE Kill
  BY <1>2, NoCallTyped DEF Kill, Restart
<1>3. CASE UNCHANGED vars
  BY <1>3 DEF vars
<1> QED
  BY <1>1, <1>2, <1>3 DEF Next

-----------------------------------------------------------------------------
(* The calls and their files                                               *)

\* What holds of a call c whose files on disk are d, in a process whose diarizer
\* has the backend b.
CallInv(c, d, b) ==
    /\ "raw" \in d => c.raw \/ c.pc = "fetch"
    /\ "wav" \in d => c.wav \/ c.pc \in Decoders
    /\ d \cap {"chunk", "fresh"} # {} => c.pc \in {"chunked", "micro"}
    /\ c.wav => "raw" \notin d /\ ~c.raw
    /\ c.pc \in {"idle", "download", "fetch", "execv"} => ~c.raw /\ ~c.wav
    /\ c.pc \in {"idle", "download", "execv"} => d \subseteq {"lost"}
    /\ c.pc \in {"fullfile", "chunked", "micro"} \/ "lost" \in d => b = "nemo"
    /\ c.pc \in Decoders \cup {"convert"} => c.raw /\ ~c.wav
    /\ c.pc \in {"wantdiarize", "stitch"} \cup InDiarize => c.segs # "bare"
    /\ c.pc \in InAlign \cup {"wantalign"} => c.lang \in Langs

CallsInv == \A s \in Slots : CallInv(call[s], disk[s], backend)

USE DEF PCs, InWhisper, InAlign, InDiarize, Decoders

\* Short of the end of the process a step of slot s leaves the calls and the
\* files of the other slots alone.
LEMMA OthersIdle ==
    ASSUME TypeOK, NEW s \in Slots, SlotNext(s), ~Execv(s), NEW u \in Slots \ {s}
    PROVE  call'[u] = call[u] /\ disk'[u] = disk[u] /\ backend' = backend
  BY DEF TypeOK, SlotNext, Fetch, Convert, Whisper, Align, Diarize, Finish,
     Begin, Become, DownloadRefused, RaiseError, Raise, CreateDownload, Goto,
     Create, FetchFails, Remove, Fetched, ConvertStart, DecoderFails,
     ConversionFails, Converted, LoadAudio, AcquireWhisper, WhisperSegment,
     WhisperRetry, WhisperFails, RaiseGpu, WhisperDone, AcquireAlign,
     CheckAlignModel, LoadAlignModel, Aligned, AlignFails, Synthesize,
     AcquireDiarize, CreateChunk, ListChunk, BatchDone, DropChunks, Diarized,
     NemoRetry, NemoFails, Stitch,
     StitchFails, ReportFails, Return, Finally

\* An exception changes no variable of the call but the program counter.
LEMMA Raised ==
    ASSUME TypeOK, NEW s \in Slots, RaiseError(s) \/ RaiseGpu(s)
    PROVE  /\ call'[s].pc = "finally"
           /\ call'[s].raw = call[s].raw /\ call'[s].wav = call[s].wav
           /\ call'[s].stage = call[s].stage /\ call'[s].pct = call[s].pct
           /\ \A u \in Slots \ {s} : call'[u] = call[u]
<1>1. PICK out \in Outs : Become(s, [call[s] EXCEPT !.pc = "finally", !.out = out])
  BY DEF RaiseError, RaiseGpu, Raise, Outs
<1> QED
  BY <1>1 DEF TypeOK, Calls, Become

\* Every step keeps a call and its files together.
LEMMA CallStep == ASSUME TypeOK, CallsInv, [Next]_vars PROVE CallsInv'
<1>1. ASSUME NEW s \in Slots, SlotNext(s) PROVE CallInv(call[s], disk[s], backend)'
  <2> USE DEF TypeOK, Calls, Files, CallsInv, CallInv
  <2>1. CASE \E want \in BOOLEAN : Begin(s, want)
    BY <2>1
       DEF Begin, Become, Report, At, NoCall
  <2>2. CASE DownloadRefused(s)
    BY <2>2
       DEF DownloadRefused, RaiseError, Raise, Become, At
  <2>3. CASE CreateDownload(s)
    BY <2>3
       DEF CreateDownload, Goto, Become, Create, At
  <2>4. CASE FetchFails(s)
    BY <2>4
       DEF FetchFails, RaiseError, Raise, Become, Remove, At
  <2>5. CASE Fetched(s)
    BY <2>5
       DEF Fetched, Become, Report, At
  <2>6. CASE ConvertStart(s)
    BY <2>6
       DEF ConvertStart, Goto, Become, Create, At
  <2>7. CASE DecoderFails(s)
    BY <2>7
       DEF DecoderFails, Goto, Become, At
  <2>8. CASE ConversionFails(s)
    BY <2>8
       DEF ConversionFails, RaiseError, Raise, Become, Remove
  <2>9. CASE Converted(s)
    BY <2>9
       DEF Converted, Become, Remove
  <2>10. CASE LoadAudio(s)
    BY <2>10
       DEF LoadAudio, Become, Report, At
  <2>11. CASE AcquireWhisper(s)
    BY <2>11
       DEF AcquireWhisper, Become, Acquire, At
  <2>12. CASE WhisperSegment(s)
    BY <2>12
       DEF WhisperSegment, Become, Report
  <2>13. CASE WhisperRetry(s)
    BY <2>13
       DEF WhisperRetry, Become, At
  <2>14. CASE WhisperFails(s)
    BY <2>14, Raised DEF WhisperFails, At
  <2>15. CASE WhisperDone(s)
    <3>1. CASE Become(s, [call[s] EXCEPT !.pc = "synth", !.part = 0])
      BY <2>15, <3>1 DEF WhisperDone, Become
    <3>2. ASSUME NEW g \in Langs,
                 Become(s, Report([call[s] EXCEPT !.lang = g, !.part = 0,
                                     !.segs = IF ForceAlign THEN "bare" ELSE "words"],
                                  "aligning", 78, "wantalign"))
          PROVE  CallInv(call[s], disk[s], backend)'
      <4>1. /\ call'[s].pc = "wantalign" /\ call'[s].lang = g
            /\ call'[s].raw = call[s].raw /\ call'[s].wav = call[s].wav
        BY <3>2 DEF Become, Report
      <4> QED
        BY <2>15, <4>1 DEF WhisperDone
    <3> QED
      BY <2>15, <3>1, <3>2 DEF WhisperDone
  <2>16. CASE AcquireAlign(s)
    BY <2>16
       DEF AcquireAlign, Goto, Become, Acquire, At
  <2>17. CASE CheckAlignModel(s)
    BY <2>17
       DEF CheckAlignModel, Goto, Become, At
  <2>18. CASE LoadAlignModel(s)
    BY <2>18
       DEF LoadAlignModel, Goto, Become, At
  <2>19. CASE Aligned(s)
    BY <2>19
       DEF Aligned, Become, Release, At
  <2>20. CASE AlignFails(s)
    BY <2>20
       DEF AlignFails, Become, Release, At
  <2>21. CASE Synthesize(s)
    BY <2>21
       DEF Synthesize, Become, Report, At, WithWords
  <2>22. CASE AcquireDiarize(s)
    BY <2>22
       DEF AcquireDiarize, Goto, Become, Acquire, At
  <2>23. CASE CreateChunk(s) \/ ListChunk(s) \/ BatchDone(s)
    BY <2>23
       DEF CreateChunk, ListChunk, BatchDone, Create, DropChunks, Unlinked
  <2>24. CASE \E b \in BOOLEAN : Diarized(s, b)
    <3>1. /\ call[s].pc \in InDiarize /\ "fresh" \notin disk[s]
          /\ disk'[s] = Unlinked(disk[s]) /\ backend' = backend
      BY <2>24 DEF Diarized, DropChunks
    <3>2. disk'[s] = disk[s] \ {"chunk"}
      BY <3>1 DEF Unlinked
    <3>3. /\ call'[s].pc = "stitch" /\ call'[s].segs = call[s].segs
          /\ call'[s].raw = call[s].raw /\ call'[s].wav = call[s].wav
      BY <2>24 DEF Diarized, Become
    <3> QED
      BY <3>1, <3>2, <3>3
  <2>25. CASE NemoRetry(s)
    <3>1. PICK pc \in {"chunked", "micro"} : Goto(s, pc)
      BY <2>25 DEF NemoRetry
    <3>2. disk'[s] = Unlinked(disk[s]) /\ backend' = backend
      BY <2>25 DEF NemoRetry, DropChunks
    <3>3. call[s].pc \in {"fullfile", "chunked"}
      BY <2>25 DEF NemoRetry, At
    <3> QED
      BY <3>1, <3>2, <3>3 DEF Goto, Become, Unlinked
  <2>26. CASE NemoFails(s)
    <3>1. RaiseError(s) \/ RaiseGpu(s)
      BY <2>26 DEF NemoFails
    <3>2. disk'[s] = Unlinked(disk[s]) /\ backend' = backend
      BY <2>26 DEF NemoFails, DropChunks
    <3>3. call[s].pc \in {"fullfile", "chunked", "micro"}
      BY <2>26 DEF NemoFails, At
    <3> QED
      BY <3>1, <3>2, <3>3, Raised DEF Unlinked
  <2>27. CASE Stitch(s)
    BY <2>27
       DEF Stitch, Become, Report, At
  <2>28. CASE StitchFails(s)
    BY <2>28
       DEF StitchFails, RaiseError, Raise, Become, At
  <2>29. CASE ReportFails(s)
    BY <2>29
       DEF ReportFails, RaiseError, Raise, Become
  <2>30. CASE Return(s)
    BY <2>30
       DEF Return, Become, At
  <2>31. CASE Finally(s)
    BY <2>31
       DEF Finally, Become, Remove, At, Referenced, NoCall
  <2>32. CASE Execv(s)
    BY <2>32 DEF Execv, Restart, NoCall, CallsInv, CallInv
  <2> QED
    BY <1>1, <2>1, <2>2, <2>3, <2>4, <2>5, <2>6, <2>7, <2>8, <2>9, <2>10,
    <2>11, <2>12, <2>13, <2>14, <2>15, <2>16, <2>17, <2>18, <2>19, <2>20,
    <2>21, <2>22, <2>23, <2>24, <2>25, <2>26, <2>27, <2>28, <2>29, <2>30,
    <2>31, <2>32
       DEF SlotNext, Fetch, Convert, Whisper, Align, Diarize, Finish
<1>2. ASSUME NEW s \in Slots, SlotNext(s) PROVE CallsInv'
  <2>1. CASE Execv(s)
    BY <2>1 DEF Execv, Restart, NoCall, CallsInv, CallInv
  <2>2. CASE ~Execv(s)
    <3> SUFFICES ASSUME NEW u \in Slots \ {s} PROVE CallInv(call[u], disk[u], backend)'
      BY <1>1, <1>2 DEF CallsInv
    <3>1. call'[u] = call[u] /\ disk'[u] = disk[u] /\ backend' = backend
      BY <1>2, <2>2, OthersIdle
    <3> QED
      BY <3>1 DEF CallsInv, CallInv
  <2> QED
    BY <2>1, <2>2
<1>3. CASE Kill
  BY <1>3 DEF Kill, Restart, NoCall, CallsInv, CallInv
<1>4. CASE UNCHANGED vars
  BY <1>4 DEF vars, CallsInv, CallInv
<1> QED
  BY <1>2, <1>3, <1>4 DEF Next

-----------------------------------------------------------------------------
(* The locks                                                               *)

\* A slot takes a free lock as it enters the section ...
LEMMA Enters ==
    ASSUME TypeOK, LocksMatch, NEW s \in Slots, NEW l \in Locks, Acquire(s, l),
           \A k \in Locks : call[s].pc \notin Section(k),
           \A k \in Locks : call'[s].pc \in Section(k) <=> k = l,
           \A u \in Slots \ {s} : call'[u] = call[u]
    PROVE  LocksMatch'
  BY PipelineAssumption DEF TypeOK, LocksMatch, Acquire

\* ... and frees it as it leaves, normally or by an exception.
LEMMA Leaves ==
    ASSUME TypeOK, LocksMatch, NEW s \in Slots, NEW l \in Locks, Release(l),
           \A k \in Locks : call[s].pc \in Section(k) <=> k = l,
           \A k \in Locks : call'[s].pc \notin Section(k),
           \A u \in Slots \ {s} : call'[u] = call[u]
    PROVE  LocksMatch'
  BY PipelineAssumption DEF TypeOK, LocksMatch, Release

\* A step that crosses no border of a section keeps the locks as they are.
LEMMA Moves ==
    ASSUME TypeOK, LocksMatch, NEW s \in Slots, lock' = lock,
           \A k \in Locks : call[s].pc \in Section(k) <=> call'[s].pc \in Section(k),
           \A u \in Slots \ {s} : call'[u] = call[u]
    PROVE  LocksMatch'
  BY DEF LocksMatch

\* A new process has free locks and idle slots.
LEMMA RestartLocks == Restart => LocksMatch'
  BY PipelineAssumption DEF Restart, NoCall, LocksMatch, Locks, Section

\* Every step keeps each lock with the slot inside its section.
LEMMA LockStep == ASSUME TypeOK, LocksMatch, [Next]_vars PROVE LocksMatch'
<1> USE PipelineAssumption DEF Locks, Section
<1>1. ASSUME NEW s \in Slots, SlotNext(s) PROVE LocksMatch'
  <2> USE DEF TypeOK, Calls, LocksMatch
  <2>1. CASE \E want \in BOOLEAN : Begin(s, want)
    BY <2>1
       DEF Begin, Become, Report, At, NoCall
  <2>2. CASE DownloadRefused(s)
    <3>1. call[s].pc = "download" /\ lock' = lock
      BY <2>2 DEF DownloadRefused, At
    <3> QED
      BY <2>2, <3>1, Raised, Moves DEF DownloadRefused
  <2>3. CASE CreateDownload(s)
    BY <2>3
       DEF CreateDownload, Goto, Become, At
  <2>4. CASE FetchFails(s)
    <3>1. call[s].pc = "fetch" /\ lock' = lock
      BY <2>4 DEF FetchFails, At
    <3> QED
      BY <2>4, <3>1, Raised, Moves DEF FetchFails
  <2>5. CASE Fetched(s)
    <3>1. /\ call[s].pc = "fetch" /\ call'[s].pc = "convert"
          /\ lock' = lock /\ \A u \in Slots \ {s} : call'[u] = call[u]
      BY <2>5 DEF Fetched, At, Become, Report
    <3> QED
      BY <3>1, Moves
  <2>6. CASE ConvertStart(s)
    <3>1. /\ call[s].pc = "convert" /\ call'[s].pc \in Decoders
          /\ lock' = lock /\ \A u \in Slots \ {s} : call'[u] = call[u]
      BY <2>6 DEF ConvertStart, At, Goto, Become
    <3> QED
      BY <3>1, Moves
  <2>7. CASE DecoderFails(s)
    <3>1. /\ call[s].pc \in Decoders /\ call'[s].pc \in Decoders
          /\ lock' = lock /\ \A u \in Slots \ {s} : call'[u] = call[u]
      BY <2>7 DEF DecoderFails, At, Goto, Become
    <3> QED
      BY <3>1, Moves
  <2>8. CASE ConversionFails(s)
    <3>1. call[s].pc \in Decoders /\ lock' = lock
      BY <2>8 DEF ConversionFails, At
    <3> QED
      BY <2>8, <3>1, Raised, Moves DEF ConversionFails
  <2>9. CASE Converted(s)
    BY <2>9
       DEF Converted, Become
  <2>10. CASE LoadAudio(s)
    <3>1. /\ call[s].pc = "load" /\ call'[s].pc = "wantwhisper"
          /\ lock' = lock /\ \A u \in Slots \ {s} : call'[u] = call[u]
      BY <2>10 DEF LoadAudio, At, Become, Report
    <3> QED
      BY <3>1, Moves
  <2>11. CASE AcquireWhisper(s)
    BY <2>11
       DEF AcquireWhisper, Become, Acquire, At
  <2>12. CASE WhisperSegment(s)
    BY <2>12
       DEF WhisperSegment, Become, Report
  <2>13. CASE WhisperRetry(s)
    BY <2>13
       DEF WhisperRetry, Become, At
  <2>14. CASE WhisperFails(s)
    <3>1. /\ call[s].pc \in InWhisper /\ call'[s].pc = "finally"
          /\ \A u \in Slots \ {s} : call'[u] = call[u]
      BY <2>14, Raised DEF WhisperFails, At
    <3>2. "whisper" \in Locks /\ Release("whisper")
      BY <2>14 DEF WhisperFails
    <3> QED
      BY <3>1, <3>2, Leaves
  <2>15. CASE WhisperDone(s)
    <3>1. /\ call[s].pc \in InWhisper /\ call'[s].pc \in {"synth", "wantalign"}
          /\ \A u \in Slots \ {s} : call'[u] = call[u]
      <4>1. CASE Become(s, [call[s] EXCEPT !.pc = "synth", !.part = 0])
        BY <2>15, <4>1 DEF WhisperDone, Become
      <4>2. ASSUME NEW g \in Langs,
                   Become(s, Report([call[s] EXCEPT !.lang = g, !.part = 0,
                                       !.segs = IF ForceAlign THEN "bare" ELSE "words"],
                                    "aligning", 78, "wantalign"))
            PROVE  /\ call'[s].pc = "wantalign"
                   /\ \A u \in Slots \ {s} : call'[u] = call[u]
        BY <4>2 DEF Become, Report
      <4> QED
        BY <2>15, <4>1, <4>2 DEF WhisperDone
    <3>2. "whisper" \in Locks /\ Release("whisper")
      BY <2>15 DEF WhisperDone
    <3> QED
      BY <3>1, <3>2, Leaves
  <2>16. CASE AcquireAlign(s)
    <3>1. /\ call[s].pc = "wantalign" /\ call'[s].pc = "align"
          /\ \A u \in Slots \ {s} : call'[u] = call[u]
      BY <2>16 DEF AcquireAlign, At, Goto, Become
    <3>2. "align" \in Locks /\ Acquire(s, "align")
      BY <2>16 DEF AcquireAlign
    <3> QED
      BY <3>1, <3>2, Enters
  <2>17. CASE CheckAlignModel(s)
    <3>1. /\ call[s].pc \in InAlign /\ call'[s].pc \in InAlign
          /\ lock' = lock /\ \A u \in Slots \ {s} : call'[u] = call[u]
      BY <2>17 DEF CheckAlignModel, At, Goto, Become
    <3> QED
      BY <3>1, Moves
  <2>18. CASE LoadAlignModel(s)
    BY <2>18
       DEF LoadAlignModel, Goto, Become, At
  <2>19. CASE Aligned(s)
    BY <2>19
       DEF Aligned, Become, Release, At
  <2>20. CASE AlignFails(s)
    BY <2>20
       DEF AlignFails, Become, Release, At
  <2>21. CASE Synthesize(s)
    <3>1. PICK st \in {"diarizing", "finalizing"}, pct \in {85, 95},
               pc \in {"wantdiarize", "final"} :
                 Become(s, Report(WithWords(call[s]), st, pct, pc))
      BY <2>21 DEF Synthesize
    <3>2. call'[s].pc \in {"wantdiarize", "final"}
      BY <3>1 DEF Become, Report, WithWords
    <3>3. /\ call[s].pc = "synth" /\ lock' = lock
          /\ \A u \in Slots \ {s} : call'[u] = call[u]
      BY <2>21, <3>1 DEF Synthesize, At, Become
    <3> QED
      BY <3>2, <3>3, Moves
  <2>22. CASE AcquireDiarize(s)
    <3>1. PICK pc \in InDiarize : Goto(s, pc)
      BY <2>22 DEF AcquireDiarize
    <3>2. /\ call[s].pc = "wantdiarize" /\ call'[s].pc \in InDiarize
          /\ \A u \in Slots \ {s} : call'[u] = call[u]
      BY <2>22, <3>1 DEF AcquireDiarize, At, Goto, Become
    <3>3. "diarize" \in Locks /\ Acquire(s, "diarize")
      BY <2>22 DEF AcquireDiarize
    <3> QED
      BY <3>2, <3>3, Enters
  <2>23. CASE CreateChunk(s) \/ ListChunk(s) \/ BatchDone(s)
    BY <2>23
       DEF CreateChunk, ListChunk, BatchDone
  <2>24. CASE \E b \in BOOLEAN : Diarized(s, b)
    BY <2>24
       DEF Diarized, Become, Release
  <2>25. CASE NemoRetry(s)
    <3>1. PICK pc \in {"chunked", "micro"} : Goto(s, pc)
      BY <2>25 DEF NemoRetry
    <3>2. call'[s].pc \in InDiarize /\ \A u \in Slots \ {s} : call'[u] = call[u]
      BY <3>1 DEF Goto, Become
    <3>3. call[s].pc \in InDiarize /\ UNCHANGED lock
      BY <2>25 DEF NemoRetry, At
    <3> QED
      BY <3>2, <3>3
  <2>26. CASE NemoFails(s)
    <3>1. /\ call[s].pc \in InDiarize /\ call'[s].pc = "finally"
          /\ \A u \in Slots \ {s} : call'[u] = call[u]
      BY <2>26, Raised DEF NemoFails, At
    <3>2. "diarize" \in Locks /\ Release("diarize")
      BY <2>26 DEF NemoFails
    <3> QED
      BY <3>1, <3>2, Leaves
  <2>27. CASE Stitch(s)
    <3>1. /\ call[s].pc = "stitch" /\ call'[s].pc = "final"
          /\ lock' = lock /\ \A u \in Slots \ {s} : call'[u] = call[u]
      BY <2>27 DEF Stitch, At, Become, Report
    <3> QED
      BY <3>1, Moves
  <2>28. CASE StitchFails(s)
    <3>1. call[s].pc = "stitch" /\ lock' = lock
      BY <2>28 DEF StitchFails, At
    <3> QED
      BY <2>28, <3>1, Raised, Moves DEF StitchFails
  <2>29. CASE ReportFails(s)
    <3>1. call[s].pc \in {"convert", "load", "synth", "stitch"} /\ lock' = lock
      BY <2>29 DEF ReportFails, At
    <3> QED
      BY <2>29, <3>1, Raised, Moves DEF ReportFails
  <2>30. CASE Return(s)
    BY <2>30
       DEF Return, Become, At
  <2>31. CASE Finally(s)
    <3>1. /\ call[s].pc = "finally" /\ call'[s].pc \in {"idle", "execv"}
          /\ lock' = lock /\ \A u \in Slots \ {s} : call'[u] = call[u]
      BY <2>31 DEF Finally, At, Become, NoCall
    <3> QED
      BY <3>1, Moves
  <2>32. CASE Execv(s)
    BY <2>32, RestartLocks DEF Execv
  <2> QED
    BY <1>1, <2>1, <2>2, <2>3, <2>4, <2>5, <2>6, <2>7, <2>8, <2>9, <2>10,
    <2>11, <2>12, <2>13, <2>14, <2>15, <2>16, <2>17, <2>18, <2>19, <2>20,
    <2>21, <2>22, <2>23, <2>24, <2>25, <2>26, <2>27, <2>28, <2>29, <2>30,
    <2>31, <2>32
       DEF SlotNext, Fetch, Convert, Whisper, Align, Diarize, Finish
<1>2. CASE Kill
  BY <1>2, RestartLocks DEF Kill
<1>3. CASE UNCHANGED vars
  BY <1>3 DEF vars, LocksMatch
<1> QED
  BY <1>1, <1>2, <1>3 DEF Next

-----------------------------------------------------------------------------
(* The cache of alignment models                                           *)

\* A slot about to load a model has found the cache without it.
LoadsInv ==
    /\ AlignLoadedOnce
    /\ \A s \in Slots : call[s].pc = "alignload" => loads[call[s].lang] = 0

\* Only CheckAlignModel leads to the load, and only LoadAlignModel loads.
LEMMA OnlyAlignLoads ==
    ASSUME TypeOK, NEW s \in Slots, SlotNext(s), ~Execv(s), ~CheckAlignModel(s),
           ~LoadAlignModel(s)
    PROVE  loads' = loads /\ (call'[s].pc # "alignload" \/ call' = call)
<1> USE DEF TypeOK, Calls
<1>1. CASE \E want \in BOOLEAN : Begin(s, want)
  BY <1>1 DEF Begin, Become, Report, NoCall
<1>2. CASE Fetch(s)
  <2>1. CASE DownloadRefused(s)
    BY <2>1, Raised DEF DownloadRefused
  <2>2. CASE CreateDownload(s)
    BY <2>2 DEF CreateDownload, Goto, Become, At
  <2>3. CASE FetchFails(s)
    BY <2>3, Raised DEF FetchFails
  <2>4. CASE Fetched(s)
    BY <2>4 DEF Fetched, Become, Report, At
  <2> QED
    BY <1>2, <2>1, <2>2, <2>3, <2>4 DEF Fetch
<1>3. CASE Convert(s)
  <2>1. CASE ConvertStart(s)
    BY <2>1 DEF ConvertStart, Goto, Become, At
  <2>2. CASE DecoderFails(s)
    BY <2>2 DEF DecoderFails, Goto, Become, At
  <2>3. CASE ConversionFails(s)
    BY <2>3, Raised DEF ConversionFails
  <2>4. CASE Converted(s)
    BY <2>4 DEF Converted, Become
  <2>5. CASE LoadAudio(s)
    BY <2>5 DEF LoadAudio, Become, Report, At
  <2> QED
    BY <1>3, <2>1, <2>2, <2>3, <2>4, <2>5 DEF Convert
<1>4. CASE Whisper(s)
  <2>1. CASE WhisperSegment(s)
    BY <2>1 DEF WhisperSegment, Become, Report
  <2>2. CASE WhisperRetry(s)
    BY <2>2 DEF WhisperRetry, Become, At
  <2>3. CASE WhisperFails(s)
    BY <2>3, Raised DEF WhisperFails
  <2>4. CASE WhisperDone(s)
    <3>1. CASE Become(s, [call[s] EXCEPT !.pc = "synth", !.part = 0])
      BY <2>4, <3>1 DEF WhisperDone, Become
    <3>2. ASSUME NEW g \in Langs,
                 Become(s, Report([call[s] EXCEPT !.lang = g, !.part = 0,
                                     !.segs = IF ForceAlign THEN "bare" ELSE "words"],
                                  "aligning", 78, "wantalign"))
          PROVE  loads' = loads /\ call'[s].pc # "alignload"
      <4>1. call'[s].pc = "wantalign"
        BY <3>2 DEF Become, Report
      <4> QED
        BY <2>4, <4>1 DEF WhisperDone
    <3> QED
      BY <2>4, <3>1, <3>2 DEF WhisperDone
  <2> QED
    BY <1>4, <2>1, <2>2, <2>3, <2>4 DEF Whisper
<1>5. CASE Diarize(s)
  <2>1. CASE NemoRetry(s)
    <3>1. PICK pc \in {"chunked", "micro"} : Goto(s, pc)
      BY <2>1 DEF NemoRetry
    <3> QED
      BY <2>1, <3>1 DEF NemoRetry, Goto, Become
  <2>2. CASE NemoFails(s)
    BY <2>2, Raised DEF NemoFails
  <2>3. CASE \E b \in BOOLEAN : Diarized(s, b)
    BY <2>3 DEF Diarized, Become
  <2> QED
    BY <1>5, <2>1, <2>2, <2>3 DEF Diarize
<1>6. CASE Finish(s)
  <2>1. CASE Stitch(s)
    BY <2>1 DEF Stitch, Become, Report, At
  <2>2. CASE StitchFails(s)
    BY <2>2, Raised DEF StitchFails
  <2>3. CASE ReportFails(s)
    BY <2>3, Raised DEF ReportFails
  <2>4. CASE Return(s)
    BY <2>4 DEF Return, Become, At
  <2>5. CASE Finally(s)
    BY <2>5 DEF Finally, Become, At, NoCall
  <2> QED
    BY <1>6, <2>1, <2>2, <2>3, <2>4, <2>5, ~Execv(s) DEF Finish
<1>7. CASE Aligned(s)
  BY <1>7 DEF Aligned, Become
<1>8. CASE AlignFails(s)
  BY <1>8 DEF AlignFails, Become
<1>9. CASE Synthesize(s)
  BY <1>9 DEF Synthesize, Become, Report, WithWords
<1>10. CASE CreateChunk(s) \/ ListChunk(s) \/ BatchDone(s)
  BY <1>10 DEF CreateChunk, ListChunk, BatchDone
<1>11. CASE AcquireWhisper(s)
  BY <1>11 DEF AcquireWhisper, Become
<1>12. CASE AcquireAlign(s)
  BY <1>12 DEF AcquireAlign, Goto, Become
<1>13. CASE AcquireDiarize(s)
  BY <1>13 DEF AcquireDiarize, Goto, Become
<1> QED
  BY <1>1, <1>2, <1>3, <1>4, <1>5, <1>6, <1>7, <1>8, <1>9, <1>10, <1>11,
  <1>12, <1>13, SlotNext(s), ~CheckAlignModel(s), ~LoadAlignModel(s)
     DEF SlotNext, Align

\* Every step keeps it: a load happens under _align_lock, so no other slot is
\* about to load at the same time.
LEMMA LoadStep ==
    ASSUME TypeOK, CallsInv, LocksMatch, LoadsInv, [Next]_vars
    PROVE  LoadsInv'
<1>1. CASE Restart
  BY <1>1 DEF Restart, NoCall, LoadsInv, AlignLoadedOnce
<1>2. CASE UNCHANGED vars
  BY <1>2 DEF vars, LoadsInv, AlignLoadedOnce
<1>3. ASSUME NEW s \in Slots, SlotNext(s), ~Execv(s) PROVE LoadsInv'
  <2>1. \A u \in Slots \ {s} : call'[u] = call[u]
    BY <1>3, OthersIdle
  <2>2. CASE CheckAlignModel(s)
    <3>1. /\ loads' = loads /\ call'[s].lang = call[s].lang
          /\ call'[s].pc = "alignload" => loads[call[s].lang] = 0
      BY <2>2 DEF TypeOK, Calls, CheckAlignModel, Goto, Become
    <3> QED
      BY <2>1, <3>1 DEF LoadsInv, AlignLoadedOnce
  <2>3. CASE LoadAlignModel(s)
    <3>1. call[s].pc = "alignload" /\ call'[s].pc = "alignrun"
      BY <2>3 DEF TypeOK, Calls, LoadAlignModel, At, Goto, Become
    <3>2. call[s].lang \in Langs /\ loads[call[s].lang] = 0
      BY <3>1 DEF CallsInv, CallInv, LoadsInv
    <3>3. loads' = [loads EXCEPT ![call[s].lang] = loads[call[s].lang] + 1]
      BY <2>3 DEF LoadAlignModel
    <3>4. AlignLoadedOnce'
      BY <3>2, <3>3 DEF TypeOK, LoadsInv, AlignLoadedOnce
    <3>5. \A u \in Slots \ {s} : call'[u].pc # "alignload"
      BY <2>1, <3>1 DEF LocksMatch, Locks, Section
    <3> QED
      BY <3>1, <3>4, <3>5 DEF LoadsInv
  <2>4. CASE ~CheckAlignModel(s) /\ ~LoadAlignModel(s)
    <3>1. loads' = loads /\ (call'[s].pc # "alignload" \/ call' = call)
      BY <1>3, <2>4, OnlyAlignLoads
    <3> QED
      BY <2>1, <3>1 DEF LoadsInv, AlignLoadedOnce
  <2> QED
    BY <2>2, <2>3, <2>4
<1> QED
  BY <1>1, <1>2, <1>3 DEF Next, Kill, Execv

-----------------------------------------------------------------------------
(* Progress                                                                *)

\* The share of the recording grows with every segment, whatever the division rounds off.
LEMMA DivMonotone ==
    ASSUME NEW p \in Nat \ {0}, NEW a \in Nat, NEW b \in Nat, a <= b
    PROVE  a \div p <= b \div p
<1> DEFINE q == a \div p
           r == b \div p
<1>1. q \in Nat /\ r \in Nat
  OBVIOUS
<1>2. p * q <= a /\ b < p * (r + 1)
  OBVIOUS
<1> HIDE DEF q, r
<1>3. ASSUME q >= r + 1 PROVE FALSE
  <2>1. p * q >= p * (r + 1)
    BY <1>1, <1>3
  <2>2. p * q \in Nat /\ p * (r + 1) \in Nat
    BY <1>1
  <2> QED BY <1>2, <2>1, <2>2
<1>4. q <= r
  BY <1>1, <1>3
<1> QED BY <1>4 DEF q, r

LEMMA PercentMonotone ==
    ASSUME NEW n \in Nat
    PROVE  Percent(n) <= Percent(n + 1) /\ Percent(n) \in 40..75
<1> DEFINE q == (n * 35) \div Parts
           r == ((n + 1) * 35) \div Parts
<1>1. Parts \in Nat \ {0}
  BY PipelineAssumption
<1>2. n * 35 \in Nat /\ (n + 1) * 35 \in Nat /\ n * 35 <= (n + 1) * 35
  OBVIOUS
<1>3. q \in Nat /\ r \in Nat
  BY <1>1, <1>2
<1>4. q <= r
  BY <1>1, <1>2, DivMonotone
<1>5. Percent(n) = Min2(75, 40 + q) /\ Percent(n + 1) = Min2(75, 40 + r)
  BY DEF Percent
<1> HIDE DEF q, r
<1> QED BY <1>3, <1>4, <1>5 DEF Min2

LEMMA PercentStart == Percent(0) = 40
<1>1. (0 * 35) \div Parts = 0
  BY PipelineAssumption
<1> QED BY <1>1 DEF Percent, Min2

\* What a call has reported at each of its program counters.
StageInv(c) ==
    /\ c.pc \in {"download", "fetch"} => c.stage = "downloading" /\ c.pct = 10
    /\ c.pc \in Decoders \cup {"convert", "load"} => c.stage = "preprocessing" /\ c.pct = 25
    /\ c.pc = "wantwhisper" => c.stage = "transcribing" /\ c.pct = 40
    /\ c.pc = "whisper" => c.stage = "transcribing" /\ c.pct = Percent(c.part)
    /\ c.pc = "rewhisper" => /\ c.stage = "transcribing" /\ c.pct \in 40..75
                             /\ c.part # 0 => c.pct = Percent(c.part)
    /\ c.pc \in InAlign \cup {"wantalign"} => c.stage = "aligning" /\ c.pct = 78
    /\ c.pc = "synth" => \/ c.stage = "transcribing" /\ c.pct \in 40..75
                         \/ c.stage = "aligning" /\ c.pct = 78
    /\ c.pc \in InDiarize \cup {"wantdiarize", "stitch"} => c.stage = "diarizing" /\ c.pct = 85
    /\ c.pc = "final" => c.stage = "finalizing" /\ c.pct = 95

StagesInv == \A s \in Slots : StageInv(call[s])

\* What ProgressForward says of one call.
Forward(c, d) ==
    c.pc # "idle" /\ d.pc \notin {"idle", "execv"} =>
        /\ Rank(d.stage) >= Rank(c.stage)
        /\ \/ d.pct >= c.pct
           \/ c.pc = "rewhisper" /\ c.part = 0 /\ d.part = 1 /\ d.pct >= 40

LEMMA Ranks ==
    /\ Rank("none") = 0 /\ Rank("downloading") = 1 /\ Rank("preprocessing") = 2
    /\ Rank("transcribing") = 3 /\ Rank("aligning") = 4 /\ Rank("diarizing") = 5
    /\ Rank("finalizing") = 6
<1>1. Rank("none") = 0
  BY Zenon DEF Rank
<1>2. Rank("downloading") = 1
  BY Zenon DEF Rank
<1>3. Rank("preprocessing") = 2
  BY Zenon DEF Rank
<1>4. Rank("transcribing") = 3
  BY Zenon DEF Rank
<1>5. Rank("aligning") = 4
  BY Zenon DEF Rank
<1>6. Rank("diarizing") = 5
  BY Zenon DEF Rank
<1>7. Rank("finalizing") = 6
  BY Zenon DEF Rank
<1> QED BY <1>1, <1>2, <1>3, <1>4, <1>5, <1>6, <1>7

\* A step that reports nothing.
LEMMA SameForward ==
    ASSUME NEW c \in Calls, NEW d, d.stage = c.stage, d.pct = c.pct
    PROVE  Forward(c, d)
<1>1. Rank(c.stage) \in Int
  BY Ranks DEF Calls, Stages
<1>2. c.pct \in Int
  BY DEF Calls
<1> QED BY <1>1, <1>2 DEF Forward

LEMMA RaisedForward ==
    ASSUME NEW c \in Calls, NEW d, d.stage = c.stage, d.pct = c.pct, d.pc = "finally"
    PROVE  StageInv(d) /\ Forward(c, d)
BY SameForward DEF StageInv

\* Every step of a slot reports no less than was reported before.
LEMMA StageStep ==
    ASSUME TypeOK, StagesInv, NEW s \in Slots, SlotNext(s)
    PROVE  StageInv(call'[s]) /\ Forward(call[s], call'[s])
<1>0. call[s] \in Calls
  BY DEF TypeOK
<1>1. StageInv(call'[s]) /\ Forward(call[s], call'[s])
  <2> USE DEF TypeOK, Calls, StagesInv, StageInv
  <2>1. CASE \E want \in BOOLEAN : Begin(s, want)
    BY <2>1 DEF Begin, Become, Report, At, NoCall, Forward
  <2>2. CASE DownloadRefused(s)
    BY <2>2, <1>0, Raised, RaisedForward DEF DownloadRefused, RaiseGpu
  <2>3. CASE CreateDownload(s)
    <3>1. /\ call'[s].stage = call[s].stage /\ call'[s].pct = call[s].pct
          /\ StageInv(call'[s])
      BY <2>3, PercentStart DEF CreateDownload, Goto, Become, At
    <3> QED BY <1>0, <3>1, SameForward
  <2>4. CASE FetchFails(s)
    BY <2>4, <1>0, Raised, RaisedForward DEF FetchFails, RaiseGpu
  <2>5. CASE Fetched(s)
    BY <2>5, Ranks DEF Fetched, Become, Report, At, Forward
  <2>6. CASE ConvertStart(s)
    <3>1. /\ call'[s].stage = call[s].stage /\ call'[s].pct = call[s].pct
          /\ StageInv(call'[s])
      BY <2>6, PercentStart DEF ConvertStart, Goto, Become, At
    <3> QED BY <1>0, <3>1, SameForward
  <2>7. CASE DecoderFails(s)
    <3>1. /\ call'[s].stage = call[s].stage /\ call'[s].pct = call[s].pct
          /\ StageInv(call'[s])
      BY <2>7, PercentStart DEF DecoderFails, Goto, Become, At
    <3> QED BY <1>0, <3>1, SameForward
  <2>8. CASE ConversionFails(s)
    BY <2>8, <1>0, Raised, RaisedForward DEF ConversionFails, RaiseGpu
  <2>9. CASE Converted(s)
    <3>1. /\ call'[s].stage = call[s].stage /\ call'[s].pct = call[s].pct
          /\ StageInv(call'[s])
      BY <2>9, PercentStart DEF Converted, Become, At
    <3> QED BY <1>0, <3>1, SameForward
  <2>10. CASE LoadAudio(s)
    BY <2>10, Ranks DEF LoadAudio, Become, Report, At, Forward
  <2>11. CASE AcquireWhisper(s)
    <3>1. /\ call'[s].stage = call[s].stage /\ call'[s].pct = call[s].pct
          /\ StageInv(call'[s])
      BY <2>11, PercentStart DEF AcquireWhisper, Become, At
    <3> QED BY <1>0, <3>1, SameForward
  <2>12. CASE WhisperSegment(s)
    <3>1. /\ call[s].pc \in InWhisper
          /\ call'[s].pc = call[s].pc /\ call'[s].part = call[s].part + 1
          /\ call'[s].stage = "transcribing" /\ call'[s].pct = Percent(call[s].part + 1)
      BY <2>12 DEF WhisperSegment, Become, Report
    <3>2. call[s].part \in Nat /\ call[s].part + 1 \in Nat
      BY PipelineAssumption
    <3>3. /\ Percent(call[s].part) <= Percent(call[s].part + 1)
          /\ Percent(call[s].part + 1) \in 40..75
      BY <3>2, PercentMonotone
    <3>4. \/ call[s].pct = Percent(call[s].part)
          \/ call[s].pc = "rewhisper" /\ call[s].part = 0
      BY <3>1
    <3>5. StageInv(call'[s])
      BY <3>1, <3>3
    <3>6. Rank(call'[s].stage) >= Rank(call[s].stage)
      BY <3>1, Ranks
    <3> QED BY <3>1, <3>2, <3>3, <3>4, <3>5, <3>6 DEF Forward
  <2>13. CASE WhisperRetry(s)
    <3>0. call[s].stage = "transcribing" /\ call[s].pct \in 40..75
      <4>1. call[s].part \in Nat
        BY PipelineAssumption
      <4>2. Percent(call[s].part) \in 40..75
        BY <4>1, PercentMonotone
      <4> QED BY <2>13, <4>2 DEF WhisperRetry, At
    <3>1. /\ call'[s].stage = call[s].stage /\ call'[s].pct = call[s].pct
          /\ StageInv(call'[s])
      BY <2>13, <3>0 DEF WhisperRetry, Become, At
    <3> QED BY <1>0, <3>1, SameForward
  <2>14. CASE WhisperFails(s)
    BY <2>14, <1>0, Raised, RaisedForward DEF WhisperFails, RaiseGpu
  <2>15. CASE WhisperDone(s)
    <3>0. call[s].stage = "transcribing" /\ call[s].pct \in 40..75
      <4>1. call[s].part \in Nat
        BY PipelineAssumption
      <4>2. Percent(call[s].part) \in 40..75
        BY <4>1, PercentMonotone
      <4> QED BY <2>15, <4>2 DEF WhisperDone
    <3>1. CASE Become(s, [call[s] EXCEPT !.pc = "synth", !.part = 0])
      <4>1. /\ call'[s].pc = "synth"
            /\ call'[s].stage = call[s].stage /\ call'[s].pct = call[s].pct
        BY <3>1 DEF Become
      <4>2. StageInv(call'[s])
        BY <3>0, <4>1
      <4> QED BY <1>0, <4>1, <4>2, SameForward
    <3>2. ASSUME NEW g \in Langs,
                 Become(s, Report([call[s] EXCEPT !.lang = g, !.part = 0,
                                     !.segs = IF ForceAlign THEN "bare" ELSE "words"],
                                  "aligning", 78, "wantalign"))
          PROVE  StageInv(call'[s]) /\ Forward(call[s], call'[s])
      <4>1. /\ call'[s].pc = "wantalign"
            /\ call'[s].stage = "aligning" /\ call'[s].pct = 78
        BY <3>2 DEF Become, Report
      <4> QED BY <3>0, <4>1, Ranks DEF Forward
    <3> QED BY <2>15, <3>1, <3>2 DEF WhisperDone
  <2>16. CASE AcquireAlign(s)
    <3>1. /\ call'[s].stage = call[s].stage /\ call'[s].pct = call[s].pct
          /\ StageInv(call'[s])
      BY <2>16, PercentStart DEF AcquireAlign, Goto, Become, At
    <3> QED BY <1>0, <3>1, SameForward
  <2>17. CASE CheckAlignModel(s)
    <3>1. /\ call'[s].stage = call[s].stage /\ call'[s].pct = call[s].pct
          /\ StageInv(call'[s])
      BY <2>17, PercentStart DEF CheckAlignModel, Goto, Become, At
    <3> QED BY <1>0, <3>1, SameForward
  <2>18. CASE LoadAlignModel(s)
    <3>1. /\ call'[s].stage = call[s].stage /\ call'[s].pct = call[s].pct
          /\ StageInv(call'[s])
      BY <2>18, PercentStart DEF LoadAlignModel, Goto, Become, At
    <3> QED BY <1>0, <3>1, SameForward
  <2>19. CASE Aligned(s)
    <3>1. /\ call'[s].stage = call[s].stage /\ call'[s].pct = call[s].pct
          /\ StageInv(call'[s])
      BY <2>19, PercentStart DEF Aligned, Become, At
    <3> QED BY <1>0, <3>1, SameForward
  <2>20. CASE AlignFails(s)
    <3>1. /\ call'[s].stage = call[s].stage /\ call'[s].pct = call[s].pct
          /\ StageInv(call'[s])
      BY <2>20, PercentStart DEF AlignFails, Become, At
    <3> QED BY <1>0, <3>1, SameForward
  <2>21. CASE Synthesize(s)
    BY <2>21, Ranks DEF Synthesize, WithWords, Become, Report, At, Forward
  <2>22. CASE AcquireDiarize(s)
    <3>1. /\ call'[s].stage = call[s].stage /\ call'[s].pct = call[s].pct
          /\ StageInv(call'[s])
      BY <2>22, PercentStart DEF AcquireDiarize, Goto, Become, At
    <3> QED BY <1>0, <3>1, SameForward
  <2>23. CASE CreateChunk(s) \/ ListChunk(s) \/ BatchDone(s)
    BY <2>23, <1>0, SameForward DEF CreateChunk, ListChunk, BatchDone
  <2>24. CASE \E b \in BOOLEAN : Diarized(s, b)
    <3>1. /\ call'[s].stage = call[s].stage /\ call'[s].pct = call[s].pct
          /\ StageInv(call'[s])
      BY <2>24, PercentStart DEF Diarized, Become, At
    <3> QED BY <1>0, <3>1, SameForward
  <2>25. CASE NemoRetry(s)
    <3>0. PICK pc \in {"chunked", "micro"} : Goto(s, pc)
      BY <2>25 DEF NemoRetry
    <3>1. /\ call'[s].stage = call[s].stage /\ call'[s].pct = call[s].pct
          /\ call'[s].pc = pc
      BY <3>0 DEF Goto, Become
    <3>2. call[s].stage = "diarizing" /\ call[s].pct = 85
      BY <2>25 DEF NemoRetry, At
    <3>3. StageInv(call'[s])
      BY <3>1, <3>2
    <3> QED BY <1>0, <3>1, <3>3, SameForward
  <2>26. CASE NemoFails(s)
    BY <2>26, <1>0, Raised, RaisedForward DEF NemoFails, RaiseGpu
  <2>27. CASE Stitch(s)
    BY <2>27, Ranks DEF Stitch, Become, Report, At, Forward
  <2>28. CASE StitchFails(s)
    BY <2>28, <1>0, Raised, RaisedForward DEF StitchFails, RaiseGpu
  <2>29. CASE ReportFails(s)
    BY <2>29, <1>0, Raised, RaisedForward DEF ReportFails, RaiseGpu
  <2>30. CASE Return(s)
    <3>1. /\ call'[s].stage = call[s].stage /\ call'[s].pct = call[s].pct
          /\ StageInv(call'[s])
      BY <2>30, PercentStart DEF Return, Become, At
    <3> QED BY <1>0, <3>1, SameForward
  <2>31. CASE Finally(s)
    BY <2>31 DEF Finally, Become, At, NoCall, Forward
  <2>32. CASE Execv(s)
    BY <2>32 DEF Execv, Restart, NoCall, Forward
  <2> QED BY <2>1, <2>2, <2>3, <2>4, <2>5, <2>6, <2>7, <2>8, <2>9, <2>10, <2>11,
             <2>12, <2>13, <2>14, <2>15, <2>16, <2>17, <2>18, <2>19, <2>20, <2>21,
             <2>22, <2>23, <2>24, <2>25, <2>26, <2>27, <2>28, <2>29, <2>30, <2>31,
             <2>32
             DEF SlotNext, Fetch, Convert, Whisper, Align, Diarize, Finish
<1> QED BY <1>1

\* What ProgressForward says of one step.
AllForward == \A s \in Slots : Forward(call[s], call'[s])

LEMMA StagesStep ==
    ASSUME TypeOK, StagesInv, [Next]_vars
    PROVE  StagesInv' /\ AllForward
<1>1. ASSUME NEW s \in Slots, SlotNext(s), ~Execv(s) PROVE StagesInv' /\ AllForward
  <2>1. \A u \in Slots \ {s} : StageInv(call'[u]) /\ Forward(call[u], call'[u])
    <3> SUFFICES ASSUME NEW u \in Slots \ {s}
                 PROVE  StageInv(call'[u]) /\ Forward(call[u], call'[u])
      OBVIOUS
    <3>1. call'[u] = call[u] /\ call[u] \in Calls
      BY <1>1, OthersIdle DEF TypeOK
    <3> QED BY <3>1, SameForward DEF StagesInv
  <2> QED BY <1>1, <2>1, StageStep DEF StagesInv, AllForward
<1>2. CASE Restart
  BY <1>2 DEF Restart, StagesInv, StageInv, AllForward, Forward, NoCall
<1>3. CASE UNCHANGED vars
  BY <1>3, SameForward DEF vars, TypeOK, StagesInv, StageInv, AllForward
<1> QED BY <1>1, <1>2, <1>3 DEF Next, Kill, Execv

-----------------------------------------------------------------------------
(* The theorems                                                            *)

IInv == TypeOK /\ CallsInv /\ LocksMatch /\ LoadsInv

\* The inductive invariant holds in every reachable state.
THEOREM Inductive == Spec => []IInv
<1>1. Init => IInv
  <2> SUFFICES ASSUME Init PROVE IInv
    OBVIOUS
  <2>1. TypeOK
    BY NoCallTyped DEF Init, TypeOK
  <2>2. CallsInv
    BY DEF Init, CallsInv, CallInv, NoCall
  <2>3. LocksMatch
    BY PipelineAssumption DEF Init, LocksMatch, NoCall, Locks, Section
  <2>4. LoadsInv
    BY DEF Init, LoadsInv, AlignLoadedOnce, NoCall
  <2> QED
    BY <2>1, <2>2, <2>3, <2>4 DEF IInv
<1>2. IInv /\ [Next]_vars => IInv'
  BY TypeStep, CallStep, LockStep, LoadStep DEF IInv
<1> QED
  BY <1>1, <1>2, PTL DEF Spec

\* The variables of the pipeline keep their types; in particular the percentage
\* reported by transcribe_progress_cb stays in its band for every recording.
THEOREM TypeCorrect == Spec => []TypeOK
  BY Inductive, PTL DEF IInv

\* Wherever an exception is raised, a scratch file on disk is one that the code which
\* removes it still refers to.  The exception is the chunk file whose writing raised
\* before it was in tmp_paths: it stays behind, and only under the NeMo backend.
THEOREM ScratchSafe == Spec => []ScratchTracked
<1>1. IInv => ScratchTracked
  BY DEF IInv, CallsInv, CallInv, ScratchTracked
<1> QED
  BY <1>1, Inductive, PTL

\* The three locks of the pipeline are held by exactly the slots inside their
\* sections, so at most one slot drives each model.
THEOREM LocksSafe == Spec => []LocksMatch
  BY Inductive, PTL DEF IInv

\* _get_cached_align_model loads each model at most once per process.
THEOREM AlignSafe == Spec => []AlignLoadedOnce
<1>1. IInv => AlignLoadedOnce
  BY DEF IInv, LoadsInv
<1> QED
  BY <1>1, Inductive, PTL

\* Speakers are never assigned to a segment without words.
THEOREM WordsSafe == Spec => []WordsBeforeSpeakers
<1>1. IInv => WordsBeforeSpeakers
  BY DEF IInv, CallsInv, CallInv, WordsBeforeSpeakers
<1> QED
  BY <1>1, Inductive, PTL

\* progress_updater as a client that polls sees it, for recordings of any length and
\* whatever the other slots do: within one call the stage follows the order in which
\* process() reports the stages, and the percentage falls at one point only, the first
\* segment of Whisper's second attempt, and there not below 40.
THEOREM ProgressGoesForward == Spec => ProgressForward
<1>1. Init => StagesInv
  BY DEF Init, StagesInv, StageInv, NoCall
<1>2. IInv => TypeOK
  BY DEF IInv
<1>3. TypeOK /\ StagesInv /\ [Next]_vars => StagesInv' /\ AllForward
  BY StagesStep
<1>4. Spec => [][AllForward]_vars
  BY <1>1, <1>2, <1>3, Inductive, PTL DEF Spec
<1>5. [AllForward]_vars
         => [\A s \in Slots :
                call[s].pc # "idle" /\ call'[s].pc \notin {"idle", "execv"} =>
                    /\ Rank(call'[s].stage) >= Rank(call[s].stage)
                    /\ \/ call'[s].pct >= call[s].pct
                       \/ /\ At(s, "rewhisper") /\ call[s].part = 0
                          /\ call'[s].part = 1 /\ call'[s].pct >= 40]_vars
  BY DEF AllForward, Forward, At
<1> QED BY <1>4, <1>5, PTL DEF ProgressForward

=============================================================================
