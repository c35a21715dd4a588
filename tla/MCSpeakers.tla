----------------------------- MODULE MCSpeakers -----------------------------
(* Transcripts and recordings for TLC.  The two specifications share no    *)
(* state and no action; a behaviour is one of the one or of the other.     *)
EXTENDS SpeakerTurns, DiarizeStitch

\* Words of 300 ms, 50 ms apart, the first after n others and at time t; the
\* first word of a segment has a capital.
Say(x, spk, n, t) ==
    [spk |-> spk, ws |-> [i \in DOMAIN x.toks |->
        [MkWord(n + i, x.toks[i], x.marks[i], spk, t + 350 * (i - 1), t + 350 * (i - 1) + 300)
            EXCEPT !.cap = (i = 1 /\ x.toks[1] \notin {"for", "a", "as"})]]]

Texts ==
    { [toks |-> <<"the", "order", "you", "asked">>, marks |-> <<"", "", "", "">>],
      [toks |-> <<"for", "yes">>, marks |-> <<"", "">>],
      [toks |-> <<"for", "yes", "my">>, marks |-> <<"", "", "">>],
      [toks |-> <<"yes", "my", "lord">>, marks |-> <<",", "", ".">>],
      [toks |-> <<"yes", "sir">>, marks |-> <<"", ".">>],
      [toks |-> <<"sir">>, marks |-> <<".">>],
      [toks |-> <<"we", "filed", "it">>, marks |-> <<"", "", ".">>],
      [toks |-> <<"keep", "quiet", "and">>, marks |-> <<"", "", "">>],
      [toks |-> <<"learned", "counsel", "yes", "my", "lord", "sit">>, marks |-> <<"", "", "", "", "", ".">>],
      [toks |-> <<"can", "i", "see", "the", "order">>, marks |-> <<"", "", "", "", ".">>],
      [toks |-> <<"it", "is", "so", "my">>, marks |-> <<"", "", "", "">>],
      [toks |-> <<"lord", "the", "date">>, marks |-> <<".", "", ".">>],
      [toks |-> <<"says", "put", "it", "in">>, marks |-> <<"", "", "", "">>],
      [toks |-> <<"my", "exhibit", "is", "in">>, marks |-> <<"", "", "", "">>],
      [toks |-> <<"as">>, marks |-> <<"">>],
      [toks |-> <<"a", "copy">>, marks |-> <<"", "">>],
      [toks |-> <<"click">>, marks |-> <<"">>],
      [toks |-> <<"no", "as", "the", "court", "pleases">>, marks |-> <<".", "", "", "", ".">>],
      [toks |-> <<"e", "slash", "five", "a">>, marks |-> <<"", "", "", "">>] }

\* Three segments, 200 ms apart, the first speaker not SPEAKER_00.
Dialogue(x, y, z, spks) ==
    LET s1 == Say(x, spks[1], 0, 1000)
        n1 == Len(x.toks)
        s2 == Say(y, spks[2], n1, End(s1) + 200)
        s3 == Say(z, spks[3], n1 + Len(y.toks), End(s2) + 200)
    IN  <<s1, s2, s3>>

Dialogues == {Dialogue(x, y, z, spks) : x \in Texts, y \in Texts, z \in Texts,
                 spks \in {<<1, 0, 1>>, <<1, 0, 2>>, <<1, 1, 0>>}}

\* One segment of words of two speakers, some without a label.
Kinds == { [tok |-> "w", mark |-> "", dur |-> 200], [tok |-> "w", mark |-> "", dur |-> 400],
           [tok |-> "w", mark |-> ".", dur |-> 200], [tok |-> "yes", mark |-> "", dur |-> 200] }

Mixed(ks, spks) ==
    << [spk |-> spks[1], ws |-> [i \in DOMAIN ks |->
          MkWord(i, ks[i].tok, ks[i].mark, spks[i], 500 * i, 500 * i + ks[i].dur)]] >>

Mixtures == {Mixed(ks, <<1>> \o spks) : ks \in [1 .. 4 -> Kinds], spks \in [1 .. 3 -> {-1, 0, 1}]}

\* A phrase that is joined with what follows it, and a title that step 2 of pass
\* 1E cuts before it takes the rest of the segment on.
Plainly(toks, spk, n, t) == Say([toks |-> toks, marks |-> [i \in DOMAIN toks |-> ""]], spk, n, t)

Joined == << Plainly(<<"as", "a", "copy", "slash", "five">>, 0, 0, 1000) >>

TakenOn == << Plainly(<<"my", "lord", "as", "the", "court", "pleases", "my">>, 0, 0, 1000),
              Plainly(<<"lord">>, 1, 7, 4000), Plainly(<<"w">>, 2, 8, 6000),
              Plainly(<<"w", "w">>, 0, 9, 8000) >>

MCTranscripts == Dialogues \cup Mixtures \cup {<<>>, Joined, TakenOn}

TurnsIdle ==
    /\ pc = "idle" /\ raw = <<>> /\ limit = 0 /\ k = 1 /\ iter = 0
    /\ runs = <<>> /\ segs = <<>> /\ roles = NoRoles

-----------------------------------------------------------------------------
Rec(total, chunk, overlap) == [total |-> total, chunk |-> chunk, overlap |-> overlap]

\* 240 s windows with 30 s of overlap, 120 s windows with 20 s: one window, two, and
\* three with a remainder just above and just below what is taken in.
MCRecordings == { Rec(230000, 240000, 30000), Rec(400000, 240000, 30000),
                  Rec(494000, 240000, 30000), Rec(496000, 240000, 30000),
                  Rec(250000, 120000, 20000) }

T(st, en, spk) == [st |-> st, en |-> en, spk |-> spk]

MCOutputs == { <<>>,
               <<T(2000, 25000, 0)>>,
               <<T(2000, 25000, 0), T(25200, 110000, 1), T(215000, 239000, 0)>>,
               <<T(5000, 12000, 1), T(11000, 28000, 0)>>,
               <<T(50000, 90000, 0), T(105000, 230000, 2)>>,
               <<T(1000, 15000, 0), T(16000, 17000, 1), T(225000, 226000, 2)>>,
               <<T(0, 9000, 2), T(8000, 20000, 0), T(20100, 40000, 1), T(213000, 236000, 1)>> }

MCSpokenWords == << MkWord(1, "w", "", 0, 1000, 1100), MkWord(2, "my", "", 0, 24800, 25100),
                    MkWord(3, "lord", "", 0, 25150, 25600), MkWord(4, "w", ".", 0, 25700, 34000),
                    MkWord(5, "w", "", 0, 34100, 41000), MkWord(6, "w", "", 0, 41100, 46500),
                    MkWord(7, "w", "", 0, 46600, 53900), MkWord(8, "w", "", 0, 54000, 54500),
                    MkWord(9, "w", "", 0, 99000, 98900) >>

StitchIdle ==
    /\ stage = "idle" /\ c = 1 /\ rec = Rec(1000, 240000, 30000)
    /\ heard = <<>> /\ maps = <<>> /\ turns = <<>> /\ words = <<>> /\ refined = <<>>

-----------------------------------------------------------------------------
Init == (TurnsInit /\ StitchIdle) \/ (StitchInit /\ TurnsIdle)
Next == (TurnsNext /\ UNCHANGED stitchVars) \/ (StitchNext /\ UNCHANGED turnVars)
Spec == Init /\ [][Next]_<<turnVars, stitchVars>>

\* Every variable stays in its type: no segment is empty, no word without a
\* label, no turn without length, at any point between two passes.
TypeOK == TurnsTypeOK /\ StitchTypeOK

=============================================================================
