---------------------------- MODULE SpeakerTurns ----------------------------
(***************************************************************************)
(* InferencePipeline.reconstruct_speaker_turns: the words of the Whisper   *)
(* segments, each with the speaker whisperx gave it, become the turns of   *)
(* the transcript.  One action per stage; segments are split one by one    *)
(* and the smoothing of runs is a loop of its own.                         *)
(***************************************************************************)
EXTENDS CourtPasses

CONSTANTS
    Transcripts,   \* what may come in: sequences of segments [spk, ws]
    SpeakerLimits  \* values of WorkerConfig.MAX_SPEAKERS, 0 for none

\* The words of the first n segments of t.
WordsUpTo(t, n) == FlattenSeq([i \in 1 .. n |-> t[i].ws])

\* A segment has a speaker, a word of it may have none.  The words are numbered
\* through, which is what the properties follow them by.
ASSUME TranscriptsAssumption ==
    \A t \in Transcripts :
        /\ t \in Seq([spk : Nat, ws : Seq(WordsBy(Nat \cup {NoSpeaker}))])
        /\ \A n \in DOMAIN t : \A j \in DOMAIN t[n].ws :
              LET number == Len(WordsUpTo(t, n - 1)) + j
              IN  t[n].ws[j].from = 10 * (number - 1) /\ t[n].ws[j].upto = 10 * number

VARIABLES
    pc,      \* the stage that is next
    raw,     \* raw_segments
    limit,   \* MAX_SPEAKERS
    k,       \* the segment of raw being split
    runs,    \* its runs
    segs,    \* processed_segments
    roles,   \* counsel_spk and judge_spk
    iter     \* _pass_iter of pass 1C

turnVars == <<pc, raw, limit, k, runs, segs, roles, iter>>

NoRoles == [counsel |-> NoSpeaker, judge |-> NoSpeaker]

TurnsInit ==
    /\ raw \in Transcripts /\ limit \in SpeakerLimits
    /\ pc = "split" /\ k = 1 /\ iter = 0
    /\ runs = <<>> /\ segs = <<>> /\ roles = NoRoles

\* Mutant: a word without a label stays so.
CleanWordTimes(seg, w) == [w EXCEPT !.en = IF @ < w.st THEN w.st + 50 ELSE @]

\* A word without a label takes its segment's, one that ends before it starts
\* lasts 50 ms.
CleanWord(seg, w) ==
    [w EXCEPT !.spk = IF @ = NoSpeaker THEN seg.spk ELSE @,
              !.en = IF @ < w.st THEN w.st + 50 ELSE @]

CleanWords(seg) == normalize_word_stream([i \in DOMAIN seg.ws |-> CleanWord(seg, seg.ws[i])])

SplitSegment ==
    /\ pc = "split" /\ k <= Len(raw)
    /\ runs' = Isolate(Group(Snap(CleanWords(raw[k]))))
    /\ pc' = "smooth"
    /\ UNCHANGED <<raw, limit, k, segs, roles, iter>>

SmoothRuns ==
    /\ pc = "smooth"
    /\ Len(runs) > 1 /\ SmoothPass(runs).changed
    /\ runs' = MergeRuns(SmoothPass(runs).new)
    /\ UNCHANGED <<pc, raw, limit, k, segs, roles, iter>>

\* One run: the whole segment is its speaker's.  More: one segment each.
KeepRuns ==
    /\ pc = "smooth"
    /\ Len(runs) <= 1 \/ ~ SmoothPass(runs).changed
    /\ segs' = segs \o (IF Len(runs) = 1 THEN <<rebuild_seg(runs[1])>> ELSE runs)
    /\ runs' = <<>> /\ k' = k + 1 /\ pc' = "split"
    /\ UNCHANGED <<raw, limit, roles, iter>>

Flat(ss) == FlattenSeq([i \in DOMAIN ss |-> ss[i].ws])

\* Words of one segment and one speaker stay together; a rebuilt phrase has
\* lost its segment and stays with what is before it.
RegroupWord(acc, w) ==
    IF acc # <<>> /\ Last(acc).spk = w.spk /\ w.seg \in {0, Last(acc).ws[1].seg}
    THEN Extend(acc, <<w>>)
    ELSE Append(acc, [spk |-> w.spk, ws |-> <<w>>])

\* _seg_idx
Numbered(ss) ==
    [i \in DOMAIN ss |-> [ss[i] EXCEPT !.ws = [j \in DOMAIN @ |-> [@[j] EXCEPT !.seg = i]]]]

Normalized(ss) == [i \in DOMAIN ss |-> [ss[i] EXCEPT !.ws = normalize_segment(@)]]

Regroup ==
    /\ pc = "split" /\ k > Len(raw) /\ segs # <<>>
    /\ segs' = Normalized(FoldLeft(RegroupWord, <<>>, normalize_word_stream(Flat(Numbered(segs)))))
    /\ pc' = "roles"
    /\ UNCHANGED <<raw, limit, k, runs, roles, iter>>

\* No segments: reconstruct_speaker_turns returns none.
NothingSaid ==
    /\ pc = "split" /\ k > Len(raw) /\ segs = <<>>
    /\ pc' = "done"
    /\ UNCHANGED <<raw, limit, k, runs, segs, roles, iter>>

DiscoverRoles ==
    /\ pc = "roles"
    /\ roles' = RolesOf(segs)
    /\ segs' = Prune(segs, roles', limit)
    /\ pc' = IF roles'.judge = NoSpeaker THEN "heal" ELSE "embedded"
    /\ UNCHANGED <<raw, limit, k, runs, iter>>

\* At most three times, until nothing is split.
SplitFormulas ==
    /\ pc = "embedded"
    /\ segs' = Pass1C(segs, roles)
    /\ iter' = iter + 1
    /\ pc' = IF iter' = 3 \/ segs' = segs THEN "whole" ELSE pc
    /\ UNCHANGED <<raw, limit, k, runs, roles>>

WholeSegments ==
    /\ pc = "whole"
    /\ segs' = Pass1B(Pass1(segs, roles), roles)
    /\ pc' = "heal"
    /\ UNCHANGED <<raw, limit, k, runs, roles, iter>>

\* Passes 1E, 1D, 1E.
Heal ==
    /\ pc = "heal"
    /\ segs' = run_pass_1e(NonEmpty(Pass1D(run_pass_1e(segs, roles))), roles)
    /\ pc' = "sandwich"
    /\ UNCHANGED <<raw, limit, k, runs, roles, iter>>

Sandwiches ==
    /\ pc = "sandwich"
    /\ segs' = IF roles.judge = NoSpeaker THEN segs ELSE Pass2(segs, roles)
    /\ pc' = "number"
    /\ UNCHANGED <<raw, limit, k, runs, roles, iter>>

Number ==
    /\ pc = "number"
    /\ segs' = Normalized(Renumber(Consolidate(segs)))
    /\ pc' = "done"
    /\ UNCHANGED <<raw, limit, k, runs, roles, iter>>

TurnsNext ==
    \/ SplitSegment \/ SmoothRuns \/ KeepRuns \/ Regroup \/ NothingSaid
    \/ DiscoverRoles \/ SplitFormulas \/ WholeSegments \/ Heal \/ Sandwiches \/ Number

TurnsSpec == TurnsInit /\ [][TurnsNext]_turnVars

-----------------------------------------------------------------------------
(* Properties                                                              *)

Stages == {"idle", "split", "smooth", "roles", "embedded", "whole", "heal", "sandwich",
           "number", "done"}

TurnsTypeOK ==
    /\ pc \in Stages
    /\ k \in 1 .. Len(raw) + 1 /\ iter \in 0 .. 3
    /\ runs # <<>> => pc = "smooth"
    /\ \A s \in ToSet(segs \o runs) :
          /\ s.spk \in Nat /\ s.ws # <<>>
          /\ \A w \in ToSet(s.ws) : w.spk \in Nat /\ w.mark \in Marks /\ w.from < w.upto

\* The words of the transcript so far, and how many words of the input they
\* should account for.
Output == Flat(segs) \o Flat(runs)
Taken == Len(WordsUpTo(raw, IF runs = <<>> THEN k - 1 ELSE k))

\* Through every split, trim, join, rewrite and move of a word to the segment
\* before or after it, the transcript keeps all words, once, in the order in
\* which they were said: what the words of the output stand for follows one on the
\* other, from the first word of the input to the last one taken.
WordsKept == pc # "idle" => Covers(Output, 0, 10 * Taken)

\* The loop that absorbs jitter ends: a pass that sets changed leaves fewer runs,
\* so the flag cannot be set for ever by a word that stays where it is.
SmoothingEnds ==
    pc = "smooth" /\ SmoothPass(runs).changed
    => Len(MergeRuns(SmoothPass(runs).new)) < Len(runs)

\* What is said after segment i, ten words at most.
Upcoming(i) ==
    LET ws == Flat(SubSeq(segs, i + 1, Len(segs))) IN SubSeq(Toks(ws), 1, Min({10, Len(ws)}))

\* When the healing passes are over no title is cut: the "my" or "your" that
\* ends a segment in mid-sentence is not followed by another speaker's "lord" or
\* "lordship", although pass 1D has moved words across boundaries in between.
\* Exempt is what comes before "as the court pleases" or an objection: for these
\* step 2 of pass 1E takes up to seven words along and looks at none.
HonorificWhole ==
    pc = "sandwich" =>
    \A i \in 1 .. Len(segs) - 1 :
        /\ segs[i].spk # segs[i + 1].spk
        /\ Last(segs[i].ws).tok \in {"my", "your"} /\ ~ EndsSentence(Last(segs[i].ws))
        /\ segs[i + 1].ws[1].tok \in {"lord", "lordship"}
        => \E p \in {<<"as", "the", "court", "pleases">>, <<"objection">>} : Holds(Upcoming(i), p)

\* "The Judge NEVER addresses themselves": after pass 2 the judge has a segment
\* with "my lord" in it only when it is bench language, or when "Sir?" follows
\* it and gave it back to the judge.
BenchNotAddressed ==
    pc = "number" /\ roles.judge # NoSpeaker =>
    \A i \in DOMAIN segs :
        segs[i].spk = roles.judge /\ Honorific(segs[i])
        => Authority(segs[i]) \/ (i < Len(segs) /\ Clarifies(segs[i + 1]))

\* Segments have words, every word labelled as its segment.
LabelsWhole ==
    \A i \in DOMAIN segs :
        segs[i].ws # <<>> /\ \A w \in ToSet(segs[i].ws) : w.spk = segs[i].spk

\* Labels count up in the order in which speakers are first heard.
LabelsCountUp == \A i \in DOMAIN segs : segs[i].spk \in 0 .. Cardinality({segs[j].spk : j \in 1 .. i - 1})

\* The speakers of the segments and words of t.
Came(t) == (Voices(t) \cup UNION {{w.spk : w \in ToSet(t[i].ws)} : i \in DOMAIN t}) \ {NoSpeaker}

\* There are no more speakers than came in.
NobodyMadeUp == Voices(segs) \subseteq 0 .. Cardinality(Came(raw)) - 1

\* A recording configured for two has no third speaker, provided a judge was found.
TwoSpeakers == limit = 2 /\ roles.judge # NoSpeaker => Cardinality(Voices(segs)) <= 2

\* The finished transcript: segments with words, every word labelled as its
\* segment, and labels that count up from SPEAKER_00 in the order in which
\* speakers are first heard, although passes relabelled, emptied and joined
\* segments before.  No pass made up a speaker, and a recording configured for
\* two has no third one, provided a judge was found.
FinalLabels == pc = "done" => LabelsWhole /\ LabelsCountUp /\ NobodyMadeUp /\ TwoSpeakers

=============================================================================
