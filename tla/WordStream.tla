----------------------------- MODULE WordStream -----------------------------
(***************************************************************************)
(* Words of a transcript, and the functions of normalizer.py that join or  *)
(* replace words.  A word keeps its lower-case text without punctuation    *)
(* (clean_token), the mark it ends with, whether it starts with a capital, *)
(* its speaker (SPEAKER_00 is 0) and its times in milliseconds; seg is the *)
(* _seg_idx of the regrouping, 0 when there is none.  from to upto is the  *)
(* stretch of the input it stands for: no part of the program, but what    *)
(* the properties follow words by.  Word n of the input stretches from     *)
(* 10 (n - 1) to 10 n; a word put together from others has their           *)
(* stretches, and the words of a phrase share what the phrase was heard    *)
(* for.                                                                    *)
(***************************************************************************)
EXTENDS Integers, Sequences, SequencesExt, FiniteSetsExt

Marks == {"", ",", "."}   \* "." stands for the three that end a sentence

MkWord(n, tok, mark, spk, st, en) ==
    [from |-> 10 * (n - 1), upto |-> 10 * n, tok |-> tok, mark |-> mark, cap |-> FALSE,
     spk |-> spk, st |-> st, en |-> en, seg |-> 0]

\* All words with a speaker of spks.
WordsBy(spks) ==
    [from : Nat, upto : Nat, tok : STRING, mark : Marks, cap : BOOLEAN,
     spk : spks, st : Int, en : Int, seg : Nat]

\* The words ws stand for the stretch from a to z, each for the part that follows
\* on that of the one before.
Covers(ws, a, z) ==
    IF ws = <<>> THEN a = z
    ELSE /\ ws[1].from = a /\ Last(ws).upto = z
         /\ \A i \in 1 .. Len(ws) - 1 : ws[i + 1].from = ws[i].upto

EndsSentence(w) == w.mark = "."

Toks(ws) == [i \in DOMAIN ws |-> ws[i].tok]

\* The phrase p, token by token, at position i.
PhraseAt(ws, i, p) ==
    i + Len(p) - 1 <= Len(ws) /\ \A k \in DOMAIN p : ws[i + k - 1].tok = p[k]

\* What a regular expression of the phrase finds: nothing but blanks inside.
SaidAt(ws, i, p) ==
    /\ PhraseAt(ws, i, p)
    /\ \A k \in i .. i + Len(p) - 2 : ws[k].mark = ""

Says(ws, phrases) == \E p \in phrases, i \in DOMAIN ws : SaidAt(ws, i, p)

Relabel(ws, spk) == [i \in DOMAIN ws |-> [ws[i] EXCEPT !.spk = spk]]

\* round(a / b)
Round(a, b) == (2 * a + b) \div (2 * b)

-----------------------------------------------------------------------------
(* Joining.  The joined word spans its parts and is the first one's else.  *)

Join(ws, i, j, tok) ==
    [ws[i] EXCEPT !.tok = tok, !.mark = ws[j].mark, !.en = ws[j].en, !.upto = ws[j].upto]

NumberWords == {"five", "5", "two", "2024"}
Letters == {"a", "b", "e"}
RateNouns == {"day"}

\* "five" "a" is an identifier unless a rate follows ("five a day").
NumberLetterAt(ws, i) ==
    /\ i < Len(ws)
    /\ ws[i].tok \in NumberWords
    /\ ws[i + 1].tok \in Letters
    /\ ~ (ws[i + 1].tok = "a" /\ i + 2 <= Len(ws) /\ ws[i + 2].tok \in RateNouns)

merge_number_letter_words(ws) ==
    LET rest[i \in 1 .. Len(ws) + 1] ==
            IF i > Len(ws) THEN <<>>
            ELSE IF NumberLetterAt(ws, i) THEN <<Join(ws, i, i + 1, "5A")>> \o rest[i + 2]
            ELSE <<ws[i]>> \o rest[i + 1]
    IN  rest[1]

\* A joined token keeps a slash at its start or end.
SlashTok(led, ended) ==
    CASE led /\ ended -> "/5/" [] led /\ ~ ended -> "/5" [] ~ led /\ ended -> "E/" [] OTHER -> "E/5"

Slash(ws, i) == i <= Len(ws) /\ ws[i].tok = "/"
SlashLed(w) == w.tok \in {"/", "/5", "/5/"}
SlashEnded(w) == w.tok \in {"/", "E/", "/5/"}

\* A slash to the right with something behind it, or one at the end of the word.
SlashStart(ws, i) ==
    \/ i + 2 <= Len(ws) /\ Slash(ws, i + 1)
    \/ i + 1 <= Len(ws) /\ SlashEnded(ws[i])

\* The last word of the chain begun at i.
SlashEnd(ws, i) ==
    LET Taken(j) == SlashEnded(ws[j - 1]) \/ SlashLed(ws[j]) \/ Slash(ws, j + 1)
    IN  Max({j \in i .. Len(ws) : \A m \in i + 1 .. j : Taken(m)})

JoinSlashed(ws, i, j) ==
    [Join(ws, i, j, SlashTok(SlashLed(ws[i]), SlashEnded(ws[j]))) EXCEPT !.cap = ~ SlashLed(ws[i])]

merge_slashed_words(ws) ==
    LET rest[i \in 1 .. Len(ws) + 1] ==
            IF i > Len(ws) THEN <<>>
            ELSE IF SlashStart(ws, i)
            THEN <<JoinSlashed(ws, i, SlashEnd(ws, i))>> \o rest[SlashEnd(ws, i) + 1]
            ELSE <<ws[i]>> \o rest[i + 1]
    IN  rest[1]

-----------------------------------------------------------------------------
(* Phonetic phrases.  One rule of each shape of PHONETIC_WORD_SEQ_RULES:   *)
(* longer, shorter and as long as what was heard.                          *)

PhoneticRules ==
    << [heard |-> <<"as", "a", "copy">>, said |-> <<"as", "the", "court", "pleases">>,
        marks |-> <<"", "", "", ".">>, caps |-> {1, 3}],
       [heard |-> <<"yes", "my", "lord", "lord">>, said |-> <<"yes", "my", "lord">>,
        marks |-> <<",", "", ".">>, caps |-> {1, 2, 3}],
       [heard |-> <<"already", "apply">>, said |-> <<"orally", "apply">>,
        marks |-> <<"", "">>, caps |-> {}] >>

\* The rules that match at i, the words being at most 1.5 s apart.
Matching(ws, i) ==
    {r \in DOMAIN PhoneticRules :
        LET p == PhoneticRules[r].heard
        IN  /\ PhraseAt(ws, i, p)
            /\ \A k \in i .. i + Len(p) - 2 : ws[k + 1].st - ws[k].en <= 1500}

\* The replacement shares the time of the words heard evenly, and is the first
\* one's.
Replace(ws, i, rule) ==
    LET first == ws[i]
        last == ws[i + Len(rule.heard) - 1]
        n == Len(rule.said)
        dur == Max({50, last.en - first.st})
    IN  [d \in 1 .. n |->
            [first EXCEPT !.tok = rule.said[d], !.seg = 0,
                          !.from = first.from + d - 1,
                          !.upto = IF d = n THEN last.upto ELSE first.from + d,
                          !.mark = IF d = n /\ last.mark # "" THEN last.mark
                                   ELSE rule.marks[d],
                          !.cap = d \in rule.caps,
                          !.st = first.st + Round((d - 1) * dur, n),
                          !.en = first.st + Round(d * dur, n)]]

normalize_word_stream(ws) ==
    LET rest[i \in 1 .. Len(ws) + 1] ==
            IF i > Len(ws) THEN <<>>
            ELSE IF Matching(ws, i) = {} THEN <<ws[i]>> \o rest[i + 1]
            ELSE LET rule == PhoneticRules[Min(Matching(ws, i))]
                 IN  Replace(ws, i, rule) \o rest[i + Len(rule.heard)]
    IN  rest[1]

-----------------------------------------------------------------------------
(* A whole segment                                                         *)

\* Spoken slashes become "/"; pronoun, months and titles have a capital.
clean_word_token(w) ==
    IF w.tok = "slash" /\ w.mark = "" THEN [w EXCEPT !.tok = "/"]
    ELSE [w EXCEPT !.cap = @ \/ w.tok \in {"i", "i'm", "may", "lord", "lordship", "counsel"}]

\* Pairs of words that are written with a capital together.
Titles == {<<"my", "lord">>, <<"me", "lord">>, <<"my", "lordship">>, <<"your", "lordship">>,
           <<"learned", "counsel">>, <<"suit", "no">>, <<"suit", "number">>}

COURT_MY_TRAILS == {"lord", "lordship"}

\* "Mr" before a name, "number" after a suit or before a figure.
Abbreviated(ws, i) ==
    \/ i < Len(ws) /\ ws[i].tok = "mr" /\ ws[i + 1].tok \notin Letters
    \/ i > 1 /\ ws[i].tok \in {"no", "number"} /\ ws[i - 1].tok = "suit"
    \/ i < Len(ws) /\ ws[i].tok \in {"no", "number"} /\ ws[i + 1].tok \in NumberWords

\* "Me Lord" is "My Lord", and an abbreviation is written out no longer.
ProperTok(ws, i) ==
    CASE PhraseAt(ws, i, <<"me", "lord">>) -> "my"
      [] Abbreviated(ws, i) /\ ws[i].tok = "number" -> "no"
      [] OTHER -> ws[i].tok

\* Titles and abbreviations: capitals, and a full stop.  Figures stay as heard.
ProperCase(ws) ==
    [i \in DOMAIN ws |->
        [ws[i] EXCEPT !.cap = @ \/ Abbreviated(ws, i)
                                \/ \E k \in {i - 1, i} \ {0}, t \in Titles : PhraseAt(ws, k, t),
                      !.mark = IF Abbreviated(ws, i) /\ @ # "," THEN "." ELSE @,
                      !.tok = ProperTok(ws, i)]]

\* An exhibit has a capital when a name follows, and loses it when none does,
\* unless it is the first word.
ExhibitCase(ws) ==
    [i \in DOMAIN ws |->
        LET named == i < Len(ws) /\ ws[i + 1].tok \notin {"is", "in", "/"}
        IN  [ws[i] EXCEPT !.cap = IF ws[i].tok # "exhibit" THEN @ ELSE named \/ (i = 1 /\ @)]]

\* Inside a sentence only the "My" of an honorific has a capital.
MyCase(ws) ==
    [i \in DOMAIN ws |->
        LET starts == i = 1 \/ EndsSentence(ws[i - 1])
            honours == i < Len(ws) /\ ws[i + 1].tok \in COURT_MY_TRAILS
        IN  [ws[i] EXCEPT !.cap = @ /\ (ws[i].tok = "my" => starts \/ honours)]]

normalize_segment(ws) ==
    MyCase(ExhibitCase(ProperCase(
        normalize_word_stream(merge_slashed_words(merge_number_letter_words(
            [i \in DOMAIN ws |-> clean_word_token(ws[i])]))))))

=============================================================================
