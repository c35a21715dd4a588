---------------------------- MODULE CourtPasses -----------------------------
(***************************************************************************)
(* Stage 2 of InferencePipeline.reconstruct_speaker_turns: who is the      *)
(* judge, who is counsel, and the passes that move words and whole         *)
(* segments between them.  A segment is [spk, ws]; its text is its words,  *)
(* its times are those of its first and last word (_rebuild_seg).  Each    *)
(* table of regular expressions is represented by phrases it matches.      *)
(***************************************************************************)
EXTENDS SegmentRuns

NoSpeaker == -1   \* judge_spk is None

HONORIFICS == {<<"my", "lord">>, <<"your", "lordship">>, <<"court", "pleases">>}
JUDGE_DIRECTIVES == {<<"keep", "quiet">>}
BENCH_INQUIRY == {<<"can", "i", "see", "the">>}
JUDGE_AUTHORITY == {<<"learned", "counsel">>, <<"why", "did", "you", "say">>,
                    <<"the", "order", "you", "asked", "for">>} \cup BENCH_INQUIRY
SUBMISSION == {<<"court", "pleases">>}
COUNSEL_ARGUMENT == {<<"we", "filed">>}
CLARIFICATION == {<<"sir">>, <<"my", "lord">>, <<"pardon">>, <<"sorry">>}
SHORT_AFFIRMATIONS == {<<"sir">>, <<"yes", "sir">>, <<"yes", "my", "lord">>,
                       <<"no", "my", "lord">>, <<"as", "the", "court", "pleases">>}
DANGLING_CONJUNCTIONS == {"and", "or", "because", "which", "that", "but", "whether"}

Honorific(seg) == Says(seg.ws, HONORIFICS)
Directive(seg) == Says(seg.ws, JUDGE_DIRECTIVES)
Inquiry(seg) == Says(seg.ws, BENCH_INQUIRY)
Authority(seg) == Says(seg.ws, JUDGE_AUTHORITY)

\* No punctuation but around the text.
Plain(ws) == \A k \in 1 .. Len(ws) - 1 : ws[k].mark = ""
Whole(seg, phrases) == Toks(seg.ws) \in phrases /\ Plain(seg.ws)

\* The words of phrase p are found one after the other, whatever ends them.
Holds(toks, p) == \E i \in 1 .. Len(toks) - Len(p) + 1 : SubSeq(toks, i, i + Len(p) - 1) = p

Start(seg) == seg.ws[1].st
End(seg) == Last(seg.ws).en
MkSeg(ws, spk) == [spk |-> spk, ws |-> Relabel(ws, spk)]
rebuild_seg(seg) == MkSeg(seg.ws, seg.spk)
KeepSpoken(acc, seg) == IF seg.ws = <<>> THEN acc ELSE Append(acc, seg)
NonEmpty(segs) == FoldLeft(KeepSpoken, <<>>, segs)
Label(segs, i, spk) == [segs EXCEPT ![i].spk = spk]

-----------------------------------------------------------------------------
(* Roles                                                                   *)

BenchTalk(seg) == Authority(seg) \/ Directive(seg)
Voices(segs) == {segs[i].spk : i \in DOMAIN segs}
Heard(segs, spk, P(_)) == {i \in DOMAIN segs : segs[i].spk = spk /\ P(segs[i])}
Votes(segs, spk, P(_)) == Cardinality(Heard(segs, spk, P))
CounselVotes(segs, spk) == Votes(segs, spk, Honorific)
JudgeVotes(segs, spk) == Votes(segs, spk, BenchTalk)

\* At least 50 ms for each segment.
AddDur(sum, seg, spk) == IF seg.spk = spk THEN sum + Max({50, End(seg) - Start(seg)}) ELSE sum
TotalDur(segs, spk) == FoldLeft(LAMBDA sum, seg : AddDur(sum, seg, spk), 0, segs)

\* max() over a dictionary: the first of the best, in the order of first entry.
Leader(segs, cands, P(_), Score(_)) ==
    CHOOSE s \in cands : \A t \in cands :
        \/ Score(s) > Score(t)
        \/ Score(s) = Score(t) /\ Min(Heard(segs, s, P)) <= Min(Heard(segs, t, P))

CounselOf(segs) ==
    LET cands == {s \in Voices(segs) : CounselVotes(segs, s) > 0}
    IN  IF cands = {} THEN segs[1].spk
        ELSE Leader(segs, cands, Honorific, LAMBDA s : CounselVotes(segs, s))

\* Without bench language: who spoke longest for the honorifics used.
JudgeOf(segs, counsel) ==
    LET voted == {s \in Voices(segs) \ {counsel} : JudgeVotes(segs, s) > 0}
        others == {s \in Voices(segs) \ {counsel} : TotalDur(segs, s) >= 1000}
        judge_score(s) == (1000 * TotalDur(segs, s)) \div (1 + 5 * CounselVotes(segs, s))
    IN  IF voted # {} THEN Leader(segs, voted, BenchTalk, LAMBDA s : JudgeVotes(segs, s))
        ELSE IF others # {} THEN Leader(segs, others, LAMBDA s : TRUE, judge_score)
        ELSE NoSpeaker

RolesOf(segs) ==
    LET counsel == CounselOf(segs) IN [counsel |-> counsel, judge |-> JudgeOf(segs, counsel)]

\* Speakers without a role that are a click, or one too many; limit is
\* WorkerConfig.MAX_SPEAKERS, 0 when it is not set.
Phantom(segs, spk, roles, limit) ==
    /\ spk \notin {roles.counsel, roles.judge}
    /\ \/ /\ TotalDur(segs, spk) < 800
          /\ \A i \in Heard(segs, spk, LAMBDA s : TRUE) : Len(segs[i].ws) <= 1
          /\ Votes(segs, spk, LAMBDA s : TRUE) <= 1
       \/ limit = 2 /\ Cardinality(Voices(segs)) > 2

cluster_remap(segs, spk, roles, limit) ==
    IF ~ Phantom(segs, spk, roles, limit) THEN spk
    ELSE IF CounselVotes(segs, spk) > JudgeVotes(segs, spk) THEN roles.counsel
    ELSE IF roles.judge # NoSpeaker THEN roles.judge
    ELSE spk

Prune(segs, roles, limit) ==
    [i \in DOMAIN segs |-> MkSeg(segs[i].ws, cluster_remap(segs, segs[i].spk, roles, limit))]

-----------------------------------------------------------------------------
(* Pass 1C: formulas of counsel inside a segment of the judge.             *)

EMBEDDED_COUNSEL_SPANS ==
    << <<"no", "no", "no", "my", "lord">>, <<"no", "no", "my", "lord">>,
       <<"yes", "my", "lord", "lord">>, <<"yes", "my", "lord">>, <<"no", "my", "lord">>,
       <<"as", "the", "court", "pleases">>, <<"i'm", "grateful", "my", "lord">>,
       <<"am", "grateful", "my", "lord">>, <<"i'm", "grateful">>, <<"am", "grateful">>,
       <<"my", "lord">> >>

\* The pieces of seg when it is cut at the n-th span at word i: none if it may not be.
SpanSplit(seg, roles, n, i) ==
    LET p == EMBEDDED_COUNSEL_SPANS[n]
        ws == seg.ws
        j == i + Len(p)   \* behind the span
        lead == SubSeq(ws, 1, i - 1)
        rest == IF p = <<"yes", "my", "lord", "lord">>   \* the first lord stands for both
                THEN <<ws[i], ws[i + 1], [ws[i + 2] EXCEPT !.upto = ws[i + 3].upto]>>
                     \o SubSeq(ws, j, Len(ws))
                ELSE SubSeq(ws, i, Len(ws))
        bench == seg.spk = roles.judge
        Judge(w) == MkSeg(w, roles.judge)
        Counsel(w) == MkSeg(w, roles.counsel)
    IN  IF p = <<"my", "lord">>
        THEN IF j > Len(ws) /\ bench
                /\ ws[i - 1].tok \notin {"yes", "no", "grateful", "sorry", "objection"}
             THEN <<Judge(lead), Counsel(rest)>> ELSE <<>>
        ELSE IF p[1] = "yes" /\ \E q \in BENCH_INQUIRY : Holds(Toks(lead), q)
        THEN <<Judge(lead), Counsel(rest)>>
        ELSE IF j <= Len(ws) /\ (bench \/ Holds(Toks(lead), <<"file", "a", "motion">>))
        THEN <<Judge(lead), Counsel(SubSeq(ws, i, j - 1)), Judge(SubSeq(ws, j, Len(ws)))>>
        ELSE <<>>

\* "Sir?" between two questions of the judge.
SirAt(seg, roles) ==
    {i \in 2 .. Len(seg.ws) - 1 :
        /\ seg.spk = roles.judge
        /\ seg.ws[i].tok = "sir"
        /\ EndsSentence(seg.ws[i]) /\ EndsSentence(seg.ws[i - 1])}

\* Spans are tried in their order, each from the second word on.
SplitEmbedded(seg, roles) ==
    LET ws == seg.ws
        Cuts(n) == {i \in 2 .. Len(ws) : PhraseAt(ws, i, EMBEDDED_COUNSEL_SPANS[n])
                                          /\ SpanSplit(seg, roles, n, i) # <<>>}
        usable == {n \in DOMAIN EMBEDDED_COUNSEL_SPANS : Cuts(n) # {}}
        sir == SirAt(seg, roles)
    IN  IF Len(ws) < 4 THEN <<seg>>
        ELSE IF sir # {}
        THEN LET i == Min(sir)
             IN  <<MkSeg(SubSeq(ws, 1, i - 1), roles.judge), MkSeg(<<ws[i]>>, roles.counsel),
                   MkSeg(SubSeq(ws, i + 1, Len(ws)), roles.judge)>>
        ELSE IF usable = {} THEN <<seg>>
        ELSE SpanSplit(seg, roles, Min(usable), Min(Cuts(Min(usable))))

Pass1C(segs, roles) == FlattenSeq([i \in DOMAIN segs |-> SplitEmbedded(segs[i], roles)])

-----------------------------------------------------------------------------
(* Passes 1 and 1B: the judge addresses nobody as lord, and only the judge *)
(* gives directives.                                                       *)

\* The words of a segment have its label here, so that orig_speakers is empty.
Pass1(segs, roles) ==
    [i \in DOMAIN segs |->
        IF segs[i].spk = roles.judge /\ Honorific(segs[i]) /\ ~ Inquiry(segs[i])
        THEN MkSeg(segs[i].ws, roles.counsel) ELSE segs[i]]

Pass1B(segs, roles) ==
    [i \in DOMAIN segs |->
        IF roles.judge # NoSpeaker /\ Directive(segs[i])
        THEN MkSeg(segs[i].ws, roles.judge) ELSE segs[i]]

-----------------------------------------------------------------------------
(* Pass 1E: what belongs to the neighbour on the other side of a boundary. *)
(* b is a boundary: [prev, curr], two segments of different speakers.      *)

\* Move the first word of curr, as w, to the end of prev.
Pull(b, w) ==
    [prev |-> rebuild_seg([b.prev EXCEPT !.ws = Append(@, w)]),
     curr |-> rebuild_seg([b.curr EXCEPT !.ws = Tail(@)])]

Open(b) == b.prev.ws # <<>> /\ b.curr.ws # <<>>

\* Mutant: only "my" is looked for, and a sentence that ends is left alone.
HealHonorificMy(b) ==
    IF Last(b.prev.ws).tok = "my" /\ b.curr.ws[1].tok = "lord" /\ ~ EndsSentence(b.curr.ws[1])
    THEN Pull(b, b.curr.ws[1]) ELSE b

\* Step 0: "... my" | "Lord ..."
HealHonorific(b) ==
    LET p == b.prev.ws
        w == b.curr.ws[1]
    IN  IF Last(p).tok \in {"my", "your"} /\ w.tok \in {"lord", "lordship"}
        THEN Pull([b EXCEPT !.prev.ws[Len(p)].mark = "", !.prev.ws[Len(p)].cap = TRUE],
                  IF w.tok = "lord" /\ ~ EndsSentence(w)
                  THEN [w EXCEPT !.mark = ".", !.cap = TRUE] ELSE w)
        ELSE b

DanglingPrep(p, c) == (p \in {"asked", "apply"} /\ c = "for") \/ (p \in {"address", "copy"} /\ c = "of")

\* Step 1: "... you asked" | "for yes"
HealPreposition(b) ==
    LET p == b.prev.ws
        c == b.curr.ws
    IN  IF /\ Open(b)
           /\ ~ EndsSentence(Last(p)) /\ Len(c) >= 2
           /\ DanglingPrep(Last(p).tok, c[1].tok)
           /\ \/ c[2].tok \in PURE_BC_WORDS \cup {"my", "as", "i'm", "file", "put"}
              \/ EndsSentence(c[1])
        THEN Pull(b, c[1])
        ELSE b

Severed(b, trail, roles) ==
    LET head == Toks(SubSeq(b.curr.ws, 1, Min({3, Len(b.curr.ws)})))
        both == trail \o head
    IN  \/ Holds(both, <<"as", "the", "court", "pleases">>)
        \/ Contains(trail, "objection") /\ Holds(both, <<"my", "lord">>)
        \/ trail \in {<<"as">>, <<"as", "the">>} /\ Contains(head, "court")
        \/ /\ b.prev.spk = roles.judge
           /\ IsPrefix(<<"my", "lord">>, trail) \/ IsPrefix(<<"may", "i">>, trail)

ONSET_WORDS == {"can", "so", "and", "but", "is", "what", "why", "my", "may", "i", "we",
                "you", "put", "file", "no", "yes"}

\* The last cut words of prev were said by the next speaker.
OnsetBleed(b, cut, roles) ==
    LET p == b.prev.ws
        c == b.curr.ws
        n == Len(p) - cut   \* words that stay
    IN  /\ ~ EndsSentence(Last(p))
        /\ \/ /\ p[n].tok \in FORMULA_END_WORDS
              /\ b.prev.spk = roles.counsel /\ b.curr.spk = roles.judge
              /\ n <= 6
           \/ /\ EndsSentence(p[n])
              /\ cut <= 5
              /\ Len(c) <= 4 \/ ~ c[1].cap \/ p[n + 1].tok \in ONSET_WORDS

\* Step 2: the longest such cut, of at most seven words.
HealBleed(b, roles) ==
    LET p == b.prev.ws
        Trail(cut) == SubSeq(p, Len(p) - cut + 1, Len(p))
        cuts == {cut \in 1 .. Min({7, Len(p) - 1}) :
                    Severed(b, Toks(Trail(cut)), roles) \/ OnsetBleed(b, cut, roles)}
    IN  IF ~ Open(b) \/ cuts = {} THEN b
        ELSE [prev |-> MkSeg(SubSeq(p, 1, Len(p) - Max(cuts)), b.prev.spk),
              curr |-> MkSeg(Trail(Max(cuts)) \o b.curr.ws, b.curr.spk)]

HealAt(segs, i, roles) ==
    IF i = 1 \/ segs[i - 1].ws = <<>> \/ segs[i].ws = <<>> \/ segs[i - 1].spk = segs[i].spk
    THEN segs
    ELSE LET b == HealBleed(HealPreposition(HealHonorific(
                      [prev |-> segs[i - 1], curr |-> segs[i]])), roles)
         IN  [segs EXCEPT ![i - 1] = b.prev, ![i] = b.curr]

HealBoundaries(segs, roles) == FoldLeftDomain(LAMBDA acc, i : HealAt(acc, i, roles), segs, segs)

run_pass_1e(segs, roles) == NonEmpty(HealBoundaries(segs, roles))

-----------------------------------------------------------------------------
(* Pass 1D: a short segment between two segments of one other speaker.     *)

\* "Yes" and then words of the next speaker.
YesBleed(ws) ==
    /\ ws[1].tok \in {"says", "yes", "yeah"}
    /\ Len(ws) >= 4
    /\ ~ EndsSentence(Last(ws))
    /\ find_bc_span(Tail(ws)) = {}

TrimAt(segs, i) ==
    LET prev == segs[i - 1]
        curr == segs[i]
        next == segs[i + 1]
        ws == curr.ws
        bc == find_bc_span(ws)
        lead == SubSeq(ws, 1, Min(bc) - 1)
        trail == SubSeq(ws, Max(bc) + 1, Len(ws))
        out == lead # <<>> /\ lead[1].st - End(prev) <= 1200        \* lead goes to prev
        on == trail # <<>> /\ Start(next) - Last(trail).en <= 1200  \* trail goes to next
        core == SubSeq(ws, IF out THEN Min(bc) ELSE 1, IF on THEN Max(bc) ELSE Len(ws))
        said == IF ws[1].tok = "says" THEN [ws[1] EXCEPT !.tok = "yes", !.mark = ".", !.cap = TRUE]
                ELSE ws[1]
    IN  IF ~ (1 < i /\ i < Len(segs)) THEN segs
        ELSE IF prev.spk # next.spk \/ curr.spk = prev.spk \/ Len(ws) > 9 THEN segs
        ELSE IF YesBleed(ws)
        THEN [segs EXCEPT ![i] = MkSeg(<<said>>, curr.spk), ![i + 1] = MkSeg(Tail(ws) \o next.ws, next.spk)]
        ELSE IF Len(ws) > 5 THEN segs
        ELSE IF bc # {}
        THEN [segs EXCEPT ![i - 1] = IF out THEN MkSeg(prev.ws \o lead, prev.spk) ELSE @,
                          ![i] = MkSeg(core, curr.spk),
                          ![i + 1] = IF on THEN MkSeg(trail \o next.ws, next.spk) ELSE @]
        ELSE IF Len(ws) <= 3 /\ ~ EndsSentence(Last(prev.ws)) /\ Start(curr) - End(prev) <= 600
        THEN [segs EXCEPT ![i] = MkSeg(ws, prev.spk)]
        ELSE segs

Pass1D(segs) == FoldLeftDomain(TrimAt, segs, segs)

-----------------------------------------------------------------------------
(* Pass 2: whole segments, from what is said before and after them.        *)

Submits(seg) ==
    \/ Says(seg.ws, SUBMISSION)
    \/ Whole(seg, {<<"yes", "sir">>, <<"no", "sir">>})
    \/ /\ Toks(seg.ws) \in {<<"yes", "my", "lord">>, <<"no", "my", "lord">>}
       /\ seg.ws[1].mark = "," /\ seg.ws[2].mark = ""

Clarifies(seg) == Whole(seg, CLARIFICATION)

\* Cases B and C: before a submission, or before "Sir?", the judge spoke.
AnswersBench(segs, i, roles) ==
    /\ i > 1
    /\ \/ Submits(segs[i]) /\ ~ Honorific(segs[i - 1])
       \/ Clarifies(segs[i]) /\ segs[i - 1].spk = roles.counsel

\* Case E: the judge goes on after "... keep quiet and".
Continues(segs, i, roles) ==
    /\ i > 1
    /\ Start(segs[i]) - End(segs[i - 1]) <= 400
    /\ Last(segs[i - 1].ws).tok \in DANGLING_CONJUNCTIONS
    /\ segs[i - 1].spk = roles.judge
    /\ Directive(segs[i - 1])

\* Mutant: case F is left out.
Pass2SpeakerNoF(segs, i, roles) ==
    IF Continues(segs, i, roles) THEN roles.judge
    ELSE IF segs[i].spk = roles.judge /\ Says(segs[i].ws, COUNSEL_ARGUMENT) THEN roles.counsel
    ELSE segs[i].spk

\* Cases D, E and F, in this order.
Pass2Speaker(segs, i, roles) ==
    LET seg == segs[i]
        argued == IF seg.spk = roles.judge /\ Says(seg.ws, COUNSEL_ARGUMENT) THEN roles.counsel
                  ELSE seg.spk
        going_on == IF Continues(segs, i, roles) THEN roles.judge ELSE argued
    IN  IF /\ going_on = roles.judge
           /\ Whole(seg, SHORT_AFFIRMATIONS) \/ (Honorific(seg) /\ ~ Inquiry(seg))
        THEN roles.counsel ELSE going_on

Pass2At(segs, i, roles) ==
    LET before == IF AnswersBench(segs, i, roles) THEN Label(segs, i - 1, roles.judge) ELSE segs
    IN  IF Authority(segs[i]) THEN Label(segs, i, roles.judge)
        ELSE Label(before, i, Pass2Speaker(before, i, roles))

Pass2(segs, roles) == FoldLeftDomain(LAMBDA acc, i : Pass2At(acc, i, roles), segs, segs)

-----------------------------------------------------------------------------
(* Consolidation and stage 3                                               *)

Joins(prev, seg) ==
    /\ prev.spk = seg.spk
    /\ \/ Start(seg) - End(prev) <= 850 /\ ~ EndsSentence(Last(prev.ws))
       \/ Start(seg) - End(prev) <= 450 /\ (Len(prev.ws) <= 4 \/ Len(seg.ws) <= 4)

Stitch(acc, seg) ==
    IF acc # <<>> /\ Joins(Last(acc), seg)
    THEN [acc EXCEPT ![Len(acc)] = MkSeg(@.ws \o seg.ws, @.spk)]
    ELSE Append(acc, rebuild_seg(seg))

Consolidate(segs) == FoldLeft(Stitch, <<>>, segs)

\* Mutant: labels keep their order.
ChronoByLabel(segs) == [s \in Voices(segs) |-> Cardinality({t \in Voices(segs) : t < s})]

\* Labels count up in the order in which speakers are first heard.
ChronoMap(segs) ==
    LET first(s) == Min(Heard(segs, s, LAMBDA x : TRUE))
        Earlier(s, t) == \/ Start(segs[first(s)]) < Start(segs[first(t)])
                         \/ Start(segs[first(s)]) = Start(segs[first(t)]) /\ first(s) < first(t)
    IN  [s \in Voices(segs) |-> Cardinality({t \in Voices(segs) : Earlier(t, s)})]

Renumber(segs) == [i \in DOMAIN segs |-> MkSeg(segs[i].ws, ChronoMap(segs)[segs[i].spk])]

=============================================================================
