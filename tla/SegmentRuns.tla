---------------------------- MODULE SegmentRuns -----------------------------
(***************************************************************************)
(* InferencePipeline._split_segment_runs: the words of one Whisper segment *)
(* become runs of one speaker each.  A run is [spk, ws].                   *)
(***************************************************************************)
EXTENDS WordStream

FORMULA_END_WORDS == {"pleases", "grateful", "obliged", "lord", "lordship", "sir"}

STANDALONE_AFFIRMATIONS == {"yes", "no", "yeah", "sure", "correct", "sir", "true"}

PURE_BC_WORDS == STANDALONE_AFFIRMATIONS \cup
    {"milord", "pleases", "grateful", "okay", "sorry", "pardon"}

BC_PHRASES == {<<"my", "lord">>, <<"your", "lord">>, <<"my", "lordship">>, <<"your", "lordship">>,
               <<"i'm", "grateful">>, <<"as", "the", "court", "pleases">>}

\* The positions of backchannel words.
find_bc_span(ws) ==
    {i \in DOMAIN ws : ws[i].tok \in PURE_BC_WORDS} \cup
    {k \in DOMAIN ws :
        \E p \in BC_PHRASES, i \in DOMAIN ws : PhraseAt(ws, i, p) /\ k \in i .. i + Len(p) - 1}

-----------------------------------------------------------------------------
(* Step 0: a change of speaker inside a sentence moves back to where the   *)
(* sentence or the formula before it ended, at most six words.             *)

SnapPoints(ws, k) ==
    {s \in Max({2, k - 6}) .. k - 1 :
        /\ EndsSentence(ws[s - 1]) \/ ws[s - 1].tok \in FORMULA_END_WORDS
        /\ \A m \in s .. k - 1 : ~ EndsSentence(ws[m])}

SnapAt(ws, k) ==
    IF /\ k > 1
       /\ ws[k - 1].spk # ws[k].spk
       /\ ~ EndsSentence(ws[k - 1])
       /\ SnapPoints(ws, k) # {}
    THEN [m \in DOMAIN ws |->
             IF m \in Max(SnapPoints(ws, k)) .. k - 1
             THEN [ws[m] EXCEPT !.spk = ws[k].spk] ELSE ws[m]]
    ELSE ws

Snap(ws) == FoldLeftDomain(SnapAt, ws, ws)

-----------------------------------------------------------------------------
(* Steps 1 and 1b: runs of one speaker, and backchannels between two runs  *)
(* of somebody else freed of the words that are not theirs.                *)

\* The last run of rs grows by ws.
Extend(rs, ws) == [rs EXCEPT ![Len(rs)].ws = @ \o ws]

\* r joins the run before it when the speaker is the same.
AddRun(rs, r) ==
    IF rs # <<>> /\ Last(rs).spk = r.spk THEN Extend(rs, r.ws) ELSE Append(rs, r)

Group(ws) ==
    FoldLeft(AddRun, <<>>, [i \in DOMAIN ws |-> [spk |-> ws[i].spk, ws |-> <<ws[i]>>]])

\* Mutant: what follows the backchannel goes nowhere.
IsolateLosesTail(rs, r) ==
    IF 1 < r /\ r < Len(rs) /\ rs[r - 1].spk = rs[r + 1].spk /\ find_bc_span(rs[r].ws) # {}
    THEN [rs EXCEPT ![r].ws = SubSeq(@, 1, Max(find_bc_span(@)))]
    ELSE rs

IsolateAt(rs, r) ==
    IF /\ 1 < r /\ r < Len(rs)
       /\ rs[r - 1].spk = rs[r + 1].spk
       /\ rs[r].spk # rs[r - 1].spk
       /\ Len(rs[r].ws) <= 5
       /\ find_bc_span(rs[r].ws) # {}
    THEN LET ws == rs[r].ws
             bc == find_bc_span(ws)
             lead == Relabel(SubSeq(ws, 1, Min(bc) - 1), rs[r - 1].spk)
             trail == Relabel(SubSeq(ws, Max(bc) + 1, Len(ws)), rs[r + 1].spk)
         IN  [rs EXCEPT ![r - 1].ws = @ \o lead,
                        ![r].ws = SubSeq(ws, Min(bc), Max(bc)),
                        ![r + 1].ws = trail \o @]
    ELSE rs

Isolate(rs) == FoldLeftDomain(IsolateAt, rs, rs)

-----------------------------------------------------------------------------
(* Step 2: single words of less than 0.35 s are jitter, unless they answer *)
(* or follow a pause or the end of a sentence.                             *)

IsStandalone(rs, i) ==
    \/ Len(rs[i].ws) = 1 /\ rs[i].ws[1].tok \in STANDALONE_AFFIRMATIONS
    \/ /\ i > 1
       /\ LET w == Last(rs[i - 1].ws)
          IN  EndsSentence(w) \/ rs[i].ws[1].st - w.en >= 300

Jitter(rs, i) ==
    /\ Len(rs[i].ws) = 1
    /\ rs[i].ws[1].en - rs[i].ws[1].st < 350
    /\ ~ IsStandalone(rs, i)

\* Mutant: jitter counts as a change whether or not it is absorbed.
SmoothFlags(acc, i) ==
    [acc EXCEPT !.new = Append(@, acc.runs[i]), !.changed = @ \/ Jitter(acc.runs, i)]

\* One run of a pass; acc.runs is what is still to be read, acc.new what is kept.
SmoothAt(acc, i) ==
    LET rs == acc.runs
        n == Len(rs)
        r == rs[i]
        Absorb(spk) == [acc EXCEPT !.new = Extend(@, Relabel(r.ws, spk)), !.changed = TRUE]
    IN  CASE ~ Jitter(rs, i) -> [acc EXCEPT !.new = Append(@, r)]
          [] Jitter(rs, i) /\ 1 < i /\ i < n /\ rs[i - 1].spk = rs[i + 1].spk ->
                Absorb(rs[i - 1].spk)
          [] Jitter(rs, i) /\ i = 1 /\ n > 1 ->
                [acc EXCEPT !.runs[2].ws = Relabel(r.ws, rs[2].spk) \o @, !.changed = TRUE]
          [] Jitter(rs, i) /\ 1 < i /\ i = n -> Absorb(Last(acc.new).spk)
          [] OTHER -> [acc EXCEPT !.new = Append(@, r)]

SmoothPass(rs) == FoldLeftDomain(SmoothAt, [runs |-> rs, new |-> <<>>, changed |-> FALSE], rs)

MergeRuns(rs) == FoldLeft(AddRun, <<>>, rs)

=============================================================================
