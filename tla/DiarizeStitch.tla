--------------------------- MODULE DiarizeStitch ----------------------------
(***************************************************************************)
(* SpeakerDiarizer on a long recording: NeMo Sortformer labels overlapping *)
(* windows one by one (_diarize_nemo_chunked), the labels of a window are  *)
(* matched with those of the windows before it, the turns are joined and   *)
(* renumbered (_consolidate_fragmented_speakers), and words get the        *)
(* speaker of their turn (assign_speakers).  Times are in milliseconds,    *)
(* SPEAKER_00 is 0.  What Sortformer hears in a window and whose voice     *)
(* resembles whose is chosen freely.                                       *)
(***************************************************************************)
EXTENDS WordStream, Folds

CONSTANTS
    Recordings,   \* [total, chunk, overlap]
    Outputs,      \* what Sortformer may return: sequences of [st, en, spk] from the window's start
    SpokenWords   \* the words of the transcript, in order

\* diarize calls with windows of 120 s (20 s of overlap) or 240 to 480 s (30 s)
\* for a recording that is not empty.
ASSUME RecordingsAssumption ==
    /\ Recordings \subseteq [total : Nat \ {0}, chunk : Nat, overlap : Nat]
    /\ \A r \in Recordings : r.overlap <= 45000 /\ r.chunk >= r.overlap + 60000

\* A turn has times and one of Sortformer's speakers.
ASSUME OutputsAssumption == \A out \in Outputs : out \in Seq([st : Nat, en : Nat, spk : Nat])

\* -1 is no speaker.
ASSUME SpokenWordsAssumption == SpokenWords \in Seq(WordsBy(Nat \cup {-1}))

VARIABLES
    stage,    \* "chunks", "assign" or "labelled"
    rec,      \* the recording
    c,        \* the window that is next
    heard,    \* per window what Sortformer returned, with absolute times
    maps,     \* per window spk_map, the empty function where none was made
    turns,    \* global_turns
    words,    \* flat_words
    refined   \* refined_segments: sequences of words

stitchVars == <<stage, rec, c, heard, maps, turns, words, refined>>

LabelsOf(ts) == {ts[i].spk : i \in DOMAIN ts}

\* The elements of s at the places in keep, in their order.
Kept(s, keep) ==
    LET upto[n \in 0 .. Len(s)] ==
            IF n = 0 THEN <<>>
            ELSE IF n \in keep THEN Append(upto[n - 1], s[n]) ELSE upto[n - 1]
    IN  upto[Len(s)]

Least(a, b) == IF a <= b THEN a ELSE b
Most(a, b) == IF a >= b THEN a ELSE b

-----------------------------------------------------------------------------
(* Windows                                                                 *)

\* Mutant: a short remainder is no longer taken into the last window.
EndNotExtended(r, s) == Least(r.total, s + r.chunk)

\* A remainder of less than the overlap and 15 s is taken in.
EndOf(r, s) ==
    LET e == Least(r.total, s + r.chunk)
    IN  IF r.total - e < r.overlap + 15000 THEN r.total ELSE e

Step(r) == Most(60000, r.chunk - r.overlap)

\* The i-th round of the loop is the last: its window reaches the end, or the
\* next one would start behind it.
Stops(r, i) == EndOf(r, i * Step(r)) >= r.total \/ (i + 1) * Step(r) >= r.total

LastRound(r) ==
    CHOOSE i \in 0 .. r.total \div Step(r) : Stops(r, i) /\ \A j \in 0 .. i - 1 : ~ Stops(r, j)

chunk_specs(r) ==
    IF r.total = 0 THEN <<>>
    ELSE [i \in 1 .. LastRound(r) + 1 |->
             [st |-> (i - 1) * Step(r), en |-> EndOf(r, (i - 1) * Step(r))]]

-----------------------------------------------------------------------------
(* Matching the speakers of a window with those heard before               *)

Clip(t, lo, hi) == Least(t.en, hi) - Most(t.st, lo)

\* The time local speaker l talks inside the overlap [lo, hi].
TotalOverlap(ts, l, lo, hi) ==
    MapThenSumSet(LAMBDA i : Clip(ts[i], lo, hi),
                  {i \in DOMAIN ts : ts[i].spk = l /\ ts[i].en > lo /\ ts[i].st < hi})

\* The time l and g talk at once inside it.
CoOccurrence(ts, gs, l, g, lo, hi) ==
    LET pairs == {ij \in (DOMAIN ts) \X (DOMAIN gs) :
                     /\ ts[ij[1]].spk = l /\ gs[ij[2]].spk = g
                     /\ Clip(ts[ij[1]], Most(gs[ij[2]].st, lo), Least(gs[ij[2]].en, hi)) > 0}
    IN  MapThenSumSet(LAMBDA ij : Clip(ts[ij[1]], Most(gs[ij[2]].st, lo), Least(gs[ij[2]].en, hi)),
                      pairs)

\* 100 * total * combined; without 0.2 s of overlap the voice alone decides.
Combined(ts, gs, l, g, lo, hi, sim) ==
    LET total == TotalOverlap(ts, l, lo, hi)
        alike == IF sim[l] = g THEN 1 ELSE 0
    IN  IF total > 200
        THEN 65 * CoOccurrence(ts, gs, l, g, lo, hi) + 35 * alike * total
        ELSE 100 * alike

Needed(ts, l, lo, hi) ==
    LET total == TotalOverlap(ts, l, lo, hi) IN IF total > 200 THEN 45 * total ELSE 45

\* spk_map[l] = id
With(map, l, id) == [x \in DOMAIN map \cup {l} |-> IF x = l THEN id ELSE map[x]]

\* Mutant: a speaker heard before may be matched twice.
MapReuses(acc, l, ts, gs, lo, hi, sim) ==
    LET Score(g) == Combined(ts, gs, l, g, lo, hi, sim)
        best == CHOOSE g \in LabelsOf(gs) : \A h \in LabelsOf(gs) : Score(g) >= Score(h)
        id == IF Score(best) >= Needed(ts, l, lo, hi) THEN best
              ELSE Cardinality(LabelsOf(gs)) + Cardinality(DOMAIN acc.map)
    IN  [acc EXCEPT !.map = With(@, l, id)]

\* The best global speaker not yet taken, the first of equals; below 0.45 a new
\* label, counted from the speakers there are and those mapped so far.
MapSpeaker(acc, l, ts, gs, lo, hi, sim) ==
    LET free == LabelsOf(gs) \ acc.used
        Score(g) == Combined(ts, gs, l, g, lo, hi, sim)
        best == {g \in free : /\ Score(g) >= Needed(ts, l, lo, hi)
                              /\ \A h \in free : \/ Score(g) > Score(h)
                                                 \/ Score(g) = Score(h) /\ g <= h}
        new_id == Cardinality(LabelsOf(gs)) + Cardinality(DOMAIN acc.map)
        id == IF best # {} THEN CHOOSE g \in best : TRUE ELSE new_id
    IN  [map |-> With(acc.map, l, id), used |-> acc.used \cup best]

\* In the order of the labels: the last one mapped is the greatest.
spk_map(ts, gs, lo, hi, sim) ==
    MapThenFoldSet(LAMBDA l, acc : MapSpeaker(acc, l, ts, gs, lo, hi, sim),
                   [map |-> <<>>, used |-> {}], LAMBDA l : l, Max, LabelsOf(ts)).map

-----------------------------------------------------------------------------
(* Stitching                                                               *)

StitchTime(r, w) == w.st + r.overlap \div 2

\* Mutant: old turns are dropped where the new window starts being trusted,
\* new turns are kept from the window's start.
JoinUntrimmed(gs, ts, map, at) ==
    Kept(gs, {i \in DOMAIN gs : gs[i].en <= at}) \o [i \in DOMAIN ts |-> [ts[i] EXCEPT !.spk = map[@]]]

\* Old turns up to the midpoint of the overlap, new ones from there.
JoinAt(gs, ts, map, at) ==
    LET old == Kept(gs, {i \in DOMAIN gs : gs[i].st < at})
        new == Kept(ts, {i \in DOMAIN ts : ts[i].en > at})
    IN  [i \in DOMAIN old |-> [old[i] EXCEPT !.en = Least(@, at)]]
        \o [i \in DOMAIN new |-> [new[i] EXCEPT !.st = Most(@, at), !.spk = map[@]]]

StitchInit ==
    /\ stage = "chunks" /\ c = 1
    /\ rec \in Recordings
    /\ heard = <<>> /\ maps = <<>> /\ turns = <<>>
    /\ words = SpokenWords /\ refined = <<>>

\* Sortformer is given the samples of the window and marks nothing behind their end.
Audible(out, w) == [i \in DOMAIN out |-> [out[i] EXCEPT !.en = Least(@, w.en - w.st)]]

\* What parse_nemo_preds makes of an output: absolute times, nothing empty.
\* win, the window, is no part of the program.
parse_nemo_preds(out, n, w) ==
    LET ts == [i \in DOMAIN out |-> [st |-> w.st + out[i].st, en |-> w.st + out[i].en,
                                     spk |-> out[i].spk, win |-> n]]
    IN  Kept(ts, {i \in DOMAIN ts : ts[i].st < ts[i].en})

StitchChunk ==
    /\ stage = "chunks" /\ c <= Len(chunk_specs(rec))
    /\ \E out \in Outputs :
        LET w == chunk_specs(rec)[c]
            ts == parse_nemo_preds(Audible(out, w), c, w)
        IN  /\ heard' = Append(heard, ts)
            /\ IF ts = <<>> THEN turns' = turns /\ maps' = Append(maps, <<>>)
               ELSE IF c = 1 \/ turns = <<>>
               THEN turns' = turns \o ts /\ maps' = Append(maps, <<>>)
               ELSE \E sim \in [LabelsOf(ts) -> LabelsOf(turns) \cup {-1}] :
                        LET m == spk_map(ts, turns, w.st, w.st + rec.overlap, sim)
                        IN  /\ maps' = Append(maps, m)
                            /\ turns' = JoinAt(turns, ts, m, StitchTime(rec, w))
    /\ c' = c + 1
    /\ UNCHANGED <<stage, rec, words, refined>>

-----------------------------------------------------------------------------
(* Consolidation                                                           *)

\* Behind the turns that do not start later.
InsertByStart(acc, t) ==
    LET n == Cardinality({i \in DOMAIN acc : acc[i].st <= t.st})
    IN  SubSeq(acc, 1, n) \o <<t>> \o SubSeq(acc, n + 1, Len(acc))

\* sorted() by start, which keeps the order of equals.
ByStart(ts) == FoldLeft(InsertByStart, <<>>, ts)

\* Turns of one speaker at most gap apart become one.
JoinPause(acc, t, gap) ==
    IF acc # <<>> /\ Last(acc).spk = t.spk /\ t.st - Last(acc).en <= gap
    THEN [acc EXCEPT ![Len(acc)].en = Most(@, t.en)]
    ELSE Append(acc, t)

JoinPauses(ts, gap) == FoldLeft(LAMBDA acc, t : JoinPause(acc, t, gap), <<>>, ts)

\* Labels count up in the order in which they first occur.
Renumbered(xs) ==
    LET first(s) == Min({i \in DOMAIN xs : xs[i].spk = s})
        number(s) == Cardinality({t \in LabelsOf(xs) : first(t) < first(s)})
    IN  [i \in DOMAIN xs |-> [xs[i] EXCEPT !.spk = number(@)]]

\* With one speaker, or none, the turns stay as they are.
ConsolidateTurns ==
    /\ stage = "chunks" /\ c > Len(chunk_specs(rec))
    /\ turns' = IF Cardinality(LabelsOf(turns)) <= 1 THEN turns
                ELSE Renumbered(JoinPauses(ByStart(turns), 400))
    /\ stage' = "assign"
    /\ UNCHANGED <<rec, c, heard, maps, words, refined>>

-----------------------------------------------------------------------------
(* Words                                                                   *)

\* A word that would end before it starts is taken to last 0.1 s.
WordEnd(w) == IF w.en < w.st THEN w.st + 100 ELSE w.en

Overlap(w, t) == Most(0, Clip([w EXCEPT !.en = WordEnd(w)], t.st, t.en))

\* Turn j takes the word from turn i: as much overlap, no longer, and more or
\* shorter or earlier.  Between turns that do not compare the score
\* ov / dur^0.15 decides, either way here.
Beats(w, ts, j, i) ==
    LET more == Overlap(w, ts[j]) - Overlap(w, ts[i])
        longer == (ts[j].en - ts[j].st) - (ts[i].en - ts[i].st)
    IN  more >= 0 /\ longer <= 0 /\ (more > 0 \/ longer < 0 \/ j < i)

Winners(w, ts) ==
    {i \in DOMAIN ts : Overlap(w, ts[i]) > 0 /\ \A j \in (DOMAIN ts) \ {i} : ~ Beats(w, ts, j, i)}

Distance(w, t) == Most(0, Most(t.st - WordEnd(w), w.st - t.en))

\* Without an overlap the nearest turn, if it is at most 0.85 s away.
Nearest(w, ts) ==
    LET best == CHOOSE i \in DOMAIN ts : \A j \in DOMAIN ts :
                    \/ Distance(w, ts[i]) < Distance(w, ts[j])
                    \/ Distance(w, ts[i]) = Distance(w, ts[j]) /\ i <= j
    IN  IF Distance(w, ts[best]) <= 850 THEN ts[best].spk ELSE -1

LabelsFor(w, ts) ==
    IF Winners(w, ts) = {} THEN {Nearest(w, ts)} ELSE {ts[i].spk : i \in Winners(w, ts)}

Longer(lss, ls) == {Append(s, l) : s \in lss, l \in ls}

\* The labels the words may get from the turns, one after the other.
Labellings(ts) ==
    LET upto[n \in 0 .. Len(words)] ==
            IF n = 0 THEN {<<>>}
            ELSE Longer(upto[n - 1], LabelsFor(words[n], ts))
    IN  upto[Len(words)]

\* A word without a speaker takes the last known one, at first SPEAKER_00.
FillAt(ws, i) ==
    IF ws[i].spk # -1 THEN ws
    ELSE [ws EXCEPT ![i].spk = IF i = 1 THEN 0 ELSE ws[i - 1].spk]

HONORIFIC_LEADS == {"my", "your"}
HONORIFIC_TRAILS == {"lord", "lordship", "honour", "learned"}

HonorificPair(ws, i) ==
    /\ i < Len(ws)
    /\ ws[i].tok \in HONORIFIC_LEADS /\ ws[i + 1].tok \in HONORIFIC_TRAILS
    /\ ws[i + 1].st - ws[i].en <= 350

\* direct: the words that lie in a turn.
PairAt(ws, i, direct) ==
    IF ~ HonorificPair(ws, i) THEN ws
    ELSE IF i + 1 \in direct /\ i \notin direct THEN [ws EXCEPT ![i].spk = ws[i + 1].spk]
    ELSE [ws EXCEPT ![i + 1].spk = ws[i].spk]

Filled(ws) == FoldLeftDomain(FillAt, ws, ws)
Paired(ws, direct) == FoldLeftDomain(LAMBDA acc, i : PairAt(acc, i, direct), ws, ws)
Labelled(ws, direct) == Renumbered(Paired(Filled(ws), direct))

\* Mutant: the length is taken without the word that comes.
SplitsLate(seg, w) ==
    LET gap == w.st - Last(seg).en
        duration == Last(seg).en - seg[1].st
    IN  \/ w.spk # Last(seg).spk
        \/ gap >= 1200
        \/ EndsSentence(Last(seg)) /\ (duration >= 6000 \/ gap >= 400)
        \/ duration >= 20000

\* A segment ends with its speaker, at a pause of 1.2 s, at the end of a sentence
\* after 6 s or before a pause, and before it would last 20 s.
SplitsBefore(seg, w) ==
    LET gap == w.st - Last(seg).en
        duration == w.en - seg[1].st
    IN  \/ w.spk # Last(seg).spk
        \/ gap >= 1200
        \/ EndsSentence(Last(seg)) /\ (duration >= 6000 \/ gap >= 400)
        \/ duration >= 20000

RefineWord(acc, w) ==
    IF acc = <<>> \/ SplitsBefore(Last(acc), w) THEN Append(acc, <<w>>)
    ELSE [acc EXCEPT ![Len(acc)] = Append(@, w)]

Refined(ws) == FoldLeft(RefineWord, <<>>, ws)

AssignSpeakers ==
    /\ stage = "assign"
    /\ IF turns = <<>>
       THEN words' = Relabel(words, 0) /\ refined' = <<>>   \* the segments stay as they came
       ELSE LET ts == Renumbered(JoinPauses(ByStart(turns), 300))
                direct == {i \in DOMAIN words : Winners(words[i], ts) # {}}
            IN  /\ \E labels \in Labellings(ts) :
                    words' = Labelled([i \in DOMAIN words |->
                                          [words[i] EXCEPT !.spk = labels[i]]], direct)
                /\ refined' = Refined(words')
    /\ stage' = "labelled"
    /\ UNCHANGED <<rec, c, heard, maps, turns>>

StitchNext == StitchChunk \/ ConsolidateTurns \/ AssignSpeakers

StitchSpec == StitchInit /\ [][StitchNext]_stitchVars

-----------------------------------------------------------------------------
(* Properties                                                              *)

StitchTypeOK ==
    /\ stage \in {"idle", "chunks", "assign", "labelled"}
    /\ c \in Nat /\ Len(heard) = c - 1 /\ Len(maps) = c - 1
    /\ \A i \in DOMAIN turns : turns[i].spk \in Nat /\ turns[i].st < turns[i].en
    /\ \A i \in DOMAIN words : words[i].spk \in Nat \cup {-1}

\* The windows of chunk_specs start at 0, reach the end of the recording and
\* overlap; none is longer than a chunk with its overlap and 15 s (the bound on
\* GPU memory), and each after the first hears at least an overlap and 15 s that
\* the one before it does not.
WindowsCover ==
    stage # "idle" =>
    LET ws == chunk_specs(rec)
    IN  /\ ws[1].st = 0 /\ Last(ws).en = rec.total
        /\ \A i \in DOMAIN ws : ws[i].en - ws[i].st < rec.chunk + rec.overlap + 15000
        /\ \A i \in 2 .. Len(ws) :
              /\ ws[i].st = ws[i - 1].en - rec.overlap
              /\ ws[i].en - ws[i - 1].en >= rec.overlap + 15000

\* The part of the recording window n answers for: from the midpoint of its
\* overlap, unless nothing was heard before it, to that of the next window in
\* which anybody speaks.
TrustedFrom(n) == IF maps[n] = <<>> THEN 0 ELSE StitchTime(rec, chunk_specs(rec)[n])
TrustedUpTo(n) ==
    Min({rec.total} \cup {TrustedFrom(m) : m \in {m \in n + 1 .. Len(maps) : maps[m] # <<>>}})

\* Stitching in window after window keeps, of every turn Sortformer returned,
\* exactly the part its window answers for: no speech is there twice, under the
\* labels of two windows, and none of the rest is lost.
StitchedOnce ==
    stage = "chunks" =>
    ToSet([i \in DOMAIN turns |-> <<turns[i].st, turns[i].en, turns[i].win>>]) =
    UNION {LET lo == TrustedFrom(n)
               hi == TrustedUpTo(n)
           IN  {<<Most(heard[n][i].st, lo), Least(heard[n][i].en, hi), n>> :
                   i \in {i \in DOMAIN heard[n] : Clip(heard[n][i], lo, hi) > 0}} :
           n \in DOMAIN heard}

\* While the labels in use are SPEAKER_00 to SPEAKER_n without a gap, the
\* matching never gives two speakers of one window the same label, although new
\* labels are counted from the speakers there are and those mapped so far.
LabelsApart ==
    [][(c' = c + 1 /\ LabelsOf(turns) = 0 .. Cardinality(LabelsOf(turns)) - 1)
        => IsInjective(maps'[c])]_stitchVars

\* What assign_speakers promises.  No word is without a speaker, no speaker is
\* made up, and speakers are numbered in the order of their first words, whatever
\* was filled in and moved on the way.  "my" and "lord" said without a pause have
\* one label, although each word was labelled by itself.  refined_segments are
\* all the words in order, each segment of one speaker, and only a single word
\* lasts 20 s or more.
WordsAssigned ==
    stage = "labelled" =>
    /\ Cardinality(LabelsOf(words)) <= Max({1, Cardinality(LabelsOf(turns))})
    /\ \A i \in DOMAIN words :
          /\ words[i].spk \in 0 .. Cardinality({words[j].spk : j \in 1 .. i - 1})
          /\ HonorificPair(words, i) => words[i].spk = words[i + 1].spk
    /\ turns # <<>> => FlattenSeq(refined) = words
    /\ \A i \in DOMAIN refined :
          LET seg == refined[i]
          IN  /\ Cardinality(LabelsOf(seg)) = 1
              /\ Len(seg) > 1 => Last(seg).en - seg[1].st < 20000

=============================================================================
