------------------------ MODULE DiarizeStitchProofs -------------------------
(***************************************************************************)
(* Proofs about the windows of a long recording, how what is heard in them *)
(* is stitched together, and the labels the words get from it.             *)
(***************************************************************************)
EXTENDS DiarizeStitch, WordStreamProofs

-----------------------------------------------------------------------------
(* Natural numbers                                                         *)

\* A set of natural numbers has a least element.
LEMMA LeastElement ==
    ASSUME NEW S \in SUBSET Nat, S # {}
    PROVE  \E x \in S : \A y \in S : x <= y
<1>1. IsWellFoundedOn(OpToRel(<, Nat), Nat)
  BY NatLessThanWellFounded
<1>2. PICK x \in S : \A y \in S : ~ (<<y, x>> \in OpToRel(<, Nat))
  BY <1>1, WFMin
<1>3. \A y \in S : ~ (y < x)
  BY <1>2 DEF OpToRel
<1> QED BY <1>3

\* Induction, for the set of the numbers that have a property.
LEMMA SetInduction ==
    ASSUME NEW S \in SUBSET Nat, 0 \in S, \A n \in S : n + 1 \in S
    PROVE  S = Nat
<1> SUFFICES ASSUME Nat \ S # {} PROVE FALSE
  OBVIOUS
<1>1. PICK x \in Nat \ S : \A y \in Nat \ S : x <= y
  BY LeastElement
<1>2. x # 0 /\ x - 1 \in Nat
  BY <1>1
<1>3. x - 1 \in S
  BY <1>1, <1>2
<1> QED BY <1>1, <1>2, <1>3

-----------------------------------------------------------------------------
(* Sequences                                                               *)

\* A function on 1 .. n is a sequence of length n.
LEMMA FunctionIsSeq ==
    ASSUME NEW S, NEW n \in Nat, NEW f \in [1 .. n -> S]
    PROVE  f \in Seq(S) /\ Len(f) = n /\ DOMAIN f = 1 .. n
<1>1. f \in Seq(S)
  BY SeqDef
<1>2. DOMAIN f = 1 .. n
  OBVIOUS
<1>3. DOMAIN f = 1 .. Len(f) /\ Len(f) \in Nat
  BY <1>1, LenProperties
<1> QED BY <1>1, <1>2, <1>3

LEMMA ToSetAppend ==
    ASSUME NEW T, NEW q \in Seq(T), NEW x \in T
    PROVE  ToSet(Append(q, x)) = ToSet(q) \cup {x}
<1> DEFINE p == Append(q, x)
           n == Len(q)
<1>1. /\ n \in Nat /\ DOMAIN q = 1 .. n /\ DOMAIN p = 1 .. n + 1
      /\ \A i \in 1 .. n : p[i] = q[i]
      /\ p[n + 1] = x
  OBVIOUS
<1>2. 1 .. n + 1 = (1 .. n) \cup {n + 1}
  BY <1>1
<1> HIDE DEF p, n
<1>3. ASSUME NEW i \in 1 .. n + 1 PROVE p[i] \in ToSet(q) \cup {x}
  <2>1. i \in 1 .. n \/ i = n + 1
    BY <1>2
  <2> QED BY <2>1, <1>1 DEF ToSet
<1>4. ASSUME NEW i \in 1 .. n PROVE q[i] \in ToSet(p)
  <2>1. i \in 1 .. n + 1
    BY <1>2
  <2> QED BY <2>1, <1>1, Zenon DEF ToSet
<1>5. x \in ToSet(p)
  <2>1. n + 1 \in 1 .. n + 1
    BY <1>2
  <2> QED BY <2>1, <1>1, Zenon DEF ToSet
<1>6. ToSet(p) \subseteq ToSet(q) \cup {x}
  BY <1>1, <1>3 DEF ToSet
<1>7. ToSet(q) \subseteq ToSet(p)
  <2> SUFFICES ASSUME NEW y \in ToSet(q) PROVE y \in ToSet(p)
    OBVIOUS
  <2>1. PICK i \in 1 .. n : y = q[i]
    BY <1>1 DEF ToSet
  <2> QED BY <1>4, <2>1
<1> QED BY <1>5, <1>6, <1>7 DEF p

-----------------------------------------------------------------------------
(* Windows                                                                 *)

\* What a recording is like, and how far windows are apart.
LEMMA StepIs ==
    ASSUME NEW r \in Recordings
    PROVE  /\ r.total \in Nat \ {0} /\ r.overlap \in Nat /\ r.overlap <= 45000 /\ r.chunk \in Nat
           /\ Step(r) = r.chunk - r.overlap /\ Step(r) \in Nat /\ Step(r) >= 60000
<1>1. r \in [total : Nat \ {0}, chunk : Nat, overlap : Nat] /\ r.overlap <= 45000 /\ r.chunk >= r.overlap + 60000
  BY RecordingsAssumption
<1> QED BY <1>1 DEF Step, Most

\* A window ends at the end of the recording, or a chunk behind its start with an
\* overlap and 15 s to come.
LEMMA EndIs ==
    ASSUME NEW r \in Recordings, NEW s \in Nat
    PROVE  /\ EndOf(r, s) \in Nat /\ EndOf(r, s) <= r.total
           /\ \/ EndOf(r, s) = r.total /\ r.total < s + r.chunk + r.overlap + 15000
              \/ EndOf(r, s) = s + r.chunk /\ r.total >= s + r.chunk + r.overlap + 15000
<1>1. r.total \in Nat /\ r.overlap \in Nat /\ r.chunk \in Nat
  BY StepIs
<1>2. CASE r.total <= s + r.chunk
  <2>1. EndOf(r, s) = r.total
    BY <1>1, <1>2 DEF EndOf, Least
  <2> QED BY <1>1, <1>2, <2>1
<1>3. CASE s + r.chunk < r.total
  <2>1. EndOf(r, s) = IF r.total - (s + r.chunk) < r.overlap + 15000 THEN r.total ELSE s + r.chunk
    BY <1>1, <1>3 DEF EndOf, Least
  <2> QED BY <1>1, <1>3, <2>1
<1> QED BY <1>1, <1>2, <1>3

\* The loop ends: one of its rounds is the first that stops it.
LEMMA LastRoundIs ==
    ASSUME NEW r \in Recordings
    PROVE  /\ LastRound(r) \in Nat /\ Stops(r, LastRound(r))
           /\ \A j \in Nat : j < LastRound(r) => ~ Stops(r, j)
<1> DEFINE all == {i \in Nat : Stops(r, i)}
           q == r.total \div Step(r)
<1>0. r.total \in Nat /\ Step(r) \in Nat \ {0}
  BY StepIs
<1>1. q \in Nat /\ (q + 1) * Step(r) >= r.total
  BY <1>0
<1>2. q \in all
  BY <1>1 DEF Stops
<1>3. PICK i \in all : \A j \in all : i <= j
  BY <1>2, LeastElement
<1>4. i \in 0 .. q /\ Stops(r, i) /\ \A j \in 0 .. i - 1 : ~ Stops(r, j)
  BY <1>1, <1>2, <1>3
<1>5. /\ LastRound(r) \in 0 .. q /\ Stops(r, LastRound(r))
      /\ \A j \in 0 .. LastRound(r) - 1 : ~ Stops(r, j)
  <2> HIDE DEF q
  <2> QED BY <1>4 DEF LastRound, q
<1> QED BY <1>1, <1>5


Windows(r) == LastRound(r) + 1

\* What chunk_specs returns: windows at multiples of the step, each but the last
\* as long as a chunk, the last up to the end.
LEMMA WindowsAre ==
    ASSUME NEW r \in Recordings
    PROVE  LET ws == chunk_specs(r)
           IN  /\ ws \in Seq([st : Nat, en : Nat])
               /\ Windows(r) \in Nat \ {0} /\ Len(ws) = Windows(r) /\ DOMAIN ws = 1 .. Windows(r)
               /\ \A i \in DOMAIN ws : /\ ws[i].st = (i - 1) * Step(r) /\ ws[i].st \in Nat
                                       /\ ws[i].en = EndOf(r, ws[i].st) /\ ws[i].en \in Nat
                                       /\ ws[i].en <= r.total
               /\ \A i \in 1 .. Windows(r) - 1 :
                     /\ ws[i].en = ws[i].st + r.chunk
                     /\ ws[i + 1].st = ws[i].st + Step(r)
                     /\ r.total >= ws[i].en + r.overlap + 15000
               /\ ws[Windows(r)].en = r.total
<1> DEFINE ws == chunk_specs(r)
           At(i) == (i - 1) * Step(r)
           n == Windows(r)
<1>1. /\ r.total \in Nat \ {0} /\ r.overlap \in Nat /\ r.chunk \in Nat /\ r.overlap <= 45000
      /\ Step(r) = r.chunk - r.overlap /\ Step(r) \in Nat /\ Step(r) >= 60000
  BY StepIs
<1>2. n \in Nat \ {0} /\ n - 1 = LastRound(r)
  BY LastRoundIs DEF Windows
<1>3. ws = [i \in 1 .. n |-> [st |-> At(i), en |-> EndOf(r, At(i))]]
  BY <1>1 DEF chunk_specs, Windows
<1>4. ASSUME NEW i \in 1 .. n
      PROVE  At(i) \in Nat /\ At(i + 1) = At(i) + Step(r)
  <2>1. i - 1 \in Nat /\ i \in Nat
    BY <1>2
  <2>2. At(i) \in Nat
    BY <2>1, <1>1
  <2>3. ((i - 1) + 1) * Step(r) = (i - 1) * Step(r) + Step(r)
    BY <2>1, <1>1
  <2> QED BY <2>1, <2>2, <2>3
<1>5. ASSUME NEW i \in 1 .. n - 1
      PROVE  /\ EndOf(r, At(i)) = At(i) + r.chunk
             /\ r.total >= At(i) + r.chunk + r.overlap + 15000
  <2>1. i - 1 \in Nat /\ i - 1 < LastRound(r) /\ i \in 1 .. n
    BY <1>2
  <2>2. ~ Stops(r, i - 1)
    BY <2>1, LastRoundIs
  <2>3. EndOf(r, At(i)) # r.total
    <3>1. EndOf(r, At(i)) \in Nat
      BY <2>1, <1>4, EndIs
    <3> QED BY <2>2, <3>1, <1>1 DEF Stops
  <2> QED BY <2>1, <2>3, <1>4, EndIs
<1>6. EndOf(r, At(n)) = r.total
  <2>1. n \in 1 .. n /\ Stops(r, n - 1)
    BY <1>2, LastRoundIs
  <2>2. At(n) \in Nat /\ At(n + 1) = At(n) + Step(r)
    BY <2>1, <1>4
  <2>3. \/ EndOf(r, At(n)) >= r.total
        \/ At(n) + Step(r) >= r.total
    <3>1. (n - 1) + 1 = (n + 1) - 1
      BY <1>2
    <3> QED BY <2>1, <2>2, <3>1 DEF Stops
  <2> HIDE DEF At
  <2> QED BY <1>1, <2>2, <2>3, EndIs
<1> HIDE DEF At
<1>7. ASSUME NEW i \in 1 .. n
      PROVE  At(i) \in Nat /\ EndOf(r, At(i)) \in Nat /\ EndOf(r, At(i)) <= r.total
  BY <1>4, EndIs
<1>8. ws \in Seq([st : Nat, en : Nat]) /\ Len(ws) = n /\ DOMAIN ws = 1 .. n
  <2>1. \A i \in 1 .. n : [st |-> At(i), en |-> EndOf(r, At(i))] \in [st : Nat, en : Nat]
    BY <1>7
  <2>2. ws \in [1 .. n -> [st : Nat, en : Nat]]
    BY <1>3, <2>1, Zenon
  <2> HIDE DEF ws, n
  <2> QED BY <1>2, <2>2, FunctionIsSeq
<1>9. \A i \in 1 .. n : ws[i].st = At(i) /\ ws[i].en = EndOf(r, At(i))
  BY <1>3
<1>10. \A i \in 1 .. n - 1 : i \in 1 .. n /\ i + 1 \in 1 .. n
  BY <1>2
<1>11. \A i \in DOMAIN ws : /\ ws[i].st = (i - 1) * Step(r) /\ ws[i].st \in Nat
                            /\ ws[i].en = EndOf(r, ws[i].st) /\ ws[i].en \in Nat
                            /\ ws[i].en <= r.total
  BY <1>7, <1>8, <1>9 DEF At
<1>12. \A i \in 1 .. n - 1 : /\ ws[i].en = ws[i].st + r.chunk
                             /\ ws[i + 1].st = ws[i].st + Step(r)
                             /\ r.total >= ws[i].en + r.overlap + 15000
  BY <1>4, <1>5, <1>9, <1>10
<1>13. ws[n].en = r.total
  BY <1>2, <1>6, <1>9
<1> HIDE DEF ws, n
<1> QED BY <1>2, <1>8, <1>11, <1>12, <1>13 DEF ws, n

RecordingOK == rec \in Recordings

LEMMA RecordingStays == StitchSpec => []RecordingOK
<1>1. StitchInit => RecordingOK
  BY DEF StitchInit, RecordingOK
<1>2. RecordingOK /\ [StitchNext]_stitchVars => RecordingOK'
  BY DEF RecordingOK, StitchNext, stitchVars, StitchChunk, ConsolidateTurns, AssignSpeakers
<1> QED BY <1>1, <1>2, PTL DEF StitchSpec

LEMMA WindowsFromRecording ==
    ASSUME RecordingOK
    PROVE  WindowsCover
<1> DEFINE ws == chunk_specs(rec)
           n == Windows(rec)
<1>1. /\ rec.total \in Nat \ {0} /\ rec.overlap \in Nat /\ rec.chunk \in Nat
      /\ rec.overlap <= 45000 /\ rec.chunk >= rec.overlap + 60000
      /\ Step(rec) = rec.chunk - rec.overlap /\ Step(rec) \in Nat
  BY StepIs, RecordingsAssumption DEF RecordingOK
<1>2. /\ n \in Nat \ {0} /\ Len(ws) = n /\ DOMAIN ws = 1 .. n
      /\ \A i \in 1 .. n : /\ ws[i].st = (i - 1) * Step(rec) /\ ws[i].st \in Nat
                           /\ ws[i].en = EndOf(rec, ws[i].st) /\ ws[i].en \in Nat
                           /\ ws[i].en <= rec.total
      /\ \A i \in 1 .. n - 1 :
            /\ ws[i].en = ws[i].st + rec.chunk
            /\ ws[i + 1].st = ws[i].st + Step(rec)
            /\ rec.total >= ws[i].en + rec.overlap + 15000
      /\ ws[n].en = rec.total
  <2>1. rec \in Recordings
    BY DEF RecordingOK
  <2> QED BY <2>1, WindowsAre
<1> HIDE DEF ws, n
<1>3. ws[1].st = 0
  <2>1. 1 \in 1 .. n
    BY <1>2
  <2>2. (1 - 1) * Step(rec) = 0
    BY <1>1
  <2> QED BY <1>2, <2>1, <2>2
<1>4. Last(ws).en = rec.total
  BY <1>2 DEF Last
<1>5. ASSUME NEW i \in DOMAIN ws
      PROVE  ws[i].en - ws[i].st < rec.chunk + rec.overlap + 15000
  <2>1. i \in 1 .. n /\ ws[i].st \in Nat /\ ws[i].en = EndOf(rec, ws[i].st)
    BY <1>2
  <2>2. \/ EndOf(rec, ws[i].st) = rec.total /\ rec.total < ws[i].st + rec.chunk + rec.overlap + 15000
        \/ EndOf(rec, ws[i].st) = ws[i].st + rec.chunk
    BY <2>1, EndIs DEF RecordingOK
  <2> QED BY <1>1, <2>1, <2>2
<1>6. ASSUME NEW i \in 2 .. Len(ws)
      PROVE  /\ ws[i].st = ws[i - 1].en - rec.overlap
             /\ ws[i].en - ws[i - 1].en >= rec.overlap + 15000
  <2> DEFINE j == i - 1
  <2>1. j \in 1 .. n - 1 /\ j \in 1 .. n /\ i \in 1 .. n /\ i = j + 1
    BY <1>2
  <2> HIDE DEF j
  <2>2. /\ ws[j].en = ws[j].st + rec.chunk /\ ws[i].st = ws[j].st + Step(rec)
        /\ rec.total >= ws[j].en + rec.overlap + 15000
        /\ ws[j].st \in Nat /\ ws[i].st \in Nat /\ ws[i].en = EndOf(rec, ws[i].st)
    BY <1>2, <2>1
  <2>3. \/ EndOf(rec, ws[i].st) = rec.total
        \/ EndOf(rec, ws[i].st) = ws[i].st + rec.chunk
    BY <2>2, EndIs DEF RecordingOK
  <2>4. ws[i].st = ws[j].en - rec.overlap /\ ws[i].en - ws[j].en >= rec.overlap + 15000
    <3>1. ws[j].en \in Nat /\ ws[i].en \in Nat
      BY <1>2, <2>1
    <3>2. ws[i].st = ws[j].en - rec.overlap
      <4>1. \A s \in Nat : s + Step(rec) = (s + rec.chunk) - rec.overlap
        BY <1>1
      <4> QED BY <2>2, <4>1
    <3>3. ws[i].en = rec.total \/ ws[i].en = (ws[j].en - rec.overlap) + rec.chunk
      BY <2>2, <2>3, <3>2
    <3> DEFINE e == ws[j].en
               x == ws[i].en
               o == rec.overlap
               h == rec.chunk
               t == rec.total
    <3>4. /\ e \in Nat /\ x \in Nat /\ o \in Nat /\ h \in Nat /\ t \in Nat
          /\ o <= 45000 /\ h >= o + 60000
      BY <1>1, <3>1
    <3>5. t >= e + o + 15000
      BY <2>2
    <3>6. x = t \/ x = (e - o) + h
      BY <3>3
    <3>7. x - e >= o + 15000
      <4> HIDE DEF e, x, o, h, t
      <4> QED BY <3>4, <3>5, <3>6
    <3> QED BY <3>2, <3>7
  <2> QED BY <2>4 DEF j
<1> QED BY <1>3, <1>4, <1>5, <1>6 DEF WindowsCover, ws

\* The windows of a recording of any length, of every size of chunk and overlap
\* the code may be called with, cover it: the loop of _diarize_nemo_chunked stops,
\* leaves no gap and no window longer than the memory allows.
THEOREM WindowsCovered == StitchSpec => []WindowsCover
<1>1. RecordingOK => WindowsCover
  BY WindowsFromRecording
<1> QED BY <1>1, RecordingStays, PTL

-----------------------------------------------------------------------------
(* Keeping some of the elements of a sequence                              *)

\* One step of the function in Kept.
KeptStep(f, s, keep, n) ==
    IF n = 0 THEN <<>> ELSE IF n \in keep THEN Append(f[n - 1], s[n]) ELSE f[n - 1]

\* The recursive function in Kept exists.
LEMMA KeptExists ==
    ASSUME NEW s, NEW keep, NEW k \in Nat
    PROVE  \E f : f = [n \in 0 .. k |-> KeptStep(f, s, keep, n)]
<1> DEFINE S == {m \in Nat : \E f : f = [n \in 0 .. m |-> KeptStep(f, s, keep, n)]}
<1>1. 0 \in S
  <2> DEFINE g == [n \in 0 .. 0 |-> <<>>]
  <2>1. g = [n \in 0 .. 0 |-> KeptStep(g, s, keep, n)]
    BY DEF KeptStep
  <2> QED BY <2>1
<1>2. ASSUME NEW m \in S PROVE m + 1 \in S
  <2>1. m \in Nat
    OBVIOUS
  <2>2. PICK f : f = [n \in 0 .. m |-> KeptStep(f, s, keep, n)]
    OBVIOUS
  <2> DEFINE g == [n \in 0 .. m + 1 |-> KeptStep(f, s, keep, n)]
  <2>3. ASSUME NEW n \in 0 .. m + 1
        PROVE  KeptStep(g, s, keep, n) = KeptStep(f, s, keep, n)
    <3>1. CASE n = 0
      BY <3>1 DEF KeptStep
    <3>2. CASE n # 0
      <4>1. n - 1 \in 0 .. m /\ n - 1 \in 0 .. m + 1
        BY <2>1, <3>2
      <4>2. f[n - 1] = KeptStep(f, s, keep, n - 1)
        BY <2>2, <4>1, Zenon
      <4>3. g[n - 1] = KeptStep(f, s, keep, n - 1)
        BY <4>1, Zenon
      <4> HIDE DEF g
      <4> QED BY <3>2, <4>2, <4>3, Zenon DEF KeptStep
    <3> QED BY <3>1, <3>2
  <2>4. g = [n \in 0 .. m + 1 |-> KeptStep(g, s, keep, n)]
    BY <2>3, Zenon
  <2>5. m + 1 \in Nat
    BY <2>1
  <2> HIDE DEF g
  <2> QED BY <2>4, <2>5, Zenon
<1>3. S = Nat
  <2> HIDE DEF S
  <2>1. S \in SUBSET Nat
    BY DEF S
  <2> QED BY <1>1, <1>2, <2>1, SetInduction
<1> QED BY <1>3

\* Kept keeps the elements at the places in keep, and nothing else.
LEMMA KeptIs ==
    ASSUME NEW T, NEW s \in Seq(T), NEW keep
    PROVE  /\ Kept(s, keep) \in Seq(T)
           /\ ToSet(Kept(s, keep)) = {s[i] : i \in keep \cap DOMAIN s}
<1> DEFINE f == CHOOSE f : f = [n \in 0 .. Len(s) |-> KeptStep(f, s, keep, n)]
<1>1. Kept(s, keep) = f[Len(s)]
  BY Zenon DEF Kept, KeptStep
<1>2. Len(s) \in Nat /\ DOMAIN s = 1 .. Len(s)
  OBVIOUS
<1>3. f = [n \in 0 .. Len(s) |-> KeptStep(f, s, keep, n)]
  <2>1. \E g : g = [n \in 0 .. Len(s) |-> KeptStep(g, s, keep, n)]
    BY <1>2, KeptExists
  <2> QED BY <2>1, Zenon
<1> HIDE DEF f
<1> DEFINE Good(n) == f[n] \in Seq(T) /\ ToSet(f[n]) = {s[i] : i \in keep \cap 1 .. n}
           S == {n \in Nat : n <= Len(s) => Good(n)}
<1>4. 0 \in S
  <2>1. f[0] = <<>>
    BY <1>2, <1>3 DEF KeptStep
  <2>2. ToSet(<<>>) = {} /\ 1 .. 0 = {}
    BY DEF ToSet
  <2>3. {s[i] : i \in keep \cap 1 .. 0} = {}
    BY <2>2
  <2>4. Good(0)
    BY <2>1, <2>2, <2>3
  <2> HIDE DEF Good
  <2> QED BY <2>4
<1>5. ASSUME NEW n \in S PROVE n + 1 \in S
  <2> SUFFICES ASSUME n + 1 <= Len(s) PROVE Good(n + 1)
    OBVIOUS
  <2>1. n \in Nat /\ n <= Len(s) /\ Good(n)
    BY <1>2
  <2>2. f[n + 1] = IF n + 1 \in keep THEN Append(f[n], s[n + 1]) ELSE f[n]
    <3>1. n + 1 \in 0 .. Len(s) /\ n + 1 # 0 /\ (n + 1) - 1 = n
      BY <1>2, <2>1
    <3>2. f[n + 1] = KeptStep(f, s, keep, n + 1)
      BY <1>3, <3>1, Zenon
    <3> QED BY <3>1, <3>2 DEF KeptStep
  <2>3. s[n + 1] \in T
    BY <1>2, <2>1
  <2>4. 1 .. n + 1 = (1 .. n) \cup {n + 1}
    BY <2>1
  <2>5. CASE n + 1 \in keep
    <3>1. f[n + 1] = Append(f[n], s[n + 1])
      BY <2>2, <2>5
    <3>2. ToSet(Append(f[n], s[n + 1])) = ToSet(f[n]) \cup {s[n + 1]}
      BY <2>1, <2>3, ToSetAppend
    <3>3. keep \cap 1 .. n + 1 = (keep \cap 1 .. n) \cup {n + 1}
      BY <2>4, <2>5
    <3>4. {s[i] : i \in keep \cap 1 .. n + 1} = {s[i] : i \in keep \cap 1 .. n} \cup {s[n + 1]}
      BY <3>3, Zenon
    <3>5. f[n + 1] \in Seq(T)
      BY <2>1, <2>3, <3>1
    <3> QED BY <2>1, <3>1, <3>2, <3>4, <3>5, Zenon
  <2>6. CASE n + 1 \notin keep
    <3>1. f[n + 1] = f[n]
      BY <2>2, <2>6
    <3>2. keep \cap 1 .. n + 1 = keep \cap 1 .. n
      BY <2>4, <2>6
    <3> QED BY <2>1, <3>1, <3>2
  <2> QED BY <2>5, <2>6
<1>6. S = Nat
  <2> HIDE DEF S
  <2>1. S \in SUBSET Nat
    BY DEF S
  <2> QED BY <1>4, <1>5, <2>1, SetInduction
<1>7. Good(Len(s))
  <2> HIDE DEF Good
  <2> QED BY <1>2, <1>6
<1> QED BY <1>1, <1>2, <1>7

-----------------------------------------------------------------------------
(* Labels                                                                  *)

\* A finite set of natural numbers has a greatest one.
LEMMA MaxIs ==
    ASSUME NEW X \in SUBSET Nat, IsFiniteSet(X), X # {}
    PROVE  Max(X) \in X /\ \A y \in X : Max(X) >= y
<1> DEFINE HasMax(Y) == \E x \in Y : \A y \in Y : x >= y
           S == {n \in Nat : \A Y \in SUBSET Nat :
                    IsFiniteSet(Y) /\ Cardinality(Y) = n + 1 => HasMax(Y)}
<1>1. 0 \in S
  <2> SUFFICES ASSUME NEW Y \in SUBSET Nat, IsFiniteSet(Y), Cardinality(Y) = 1 PROVE HasMax(Y)
    OBVIOUS
  <2>1. PICK x : Y = {x}
    BY FS_Singleton
  <2> QED BY <2>1
<1>2. ASSUME NEW n \in S PROVE n + 1 \in S
  <2> SUFFICES ASSUME NEW Y \in SUBSET Nat, IsFiniteSet(Y), Cardinality(Y) = n + 1 + 1
               PROVE  HasMax(Y)
    OBVIOUS
  <2>1. n \in Nat /\ Y # {}
    BY FS_EmptySet
  <2>2. PICK z \in Y : TRUE
    BY <2>1
  <2>3. IsFiniteSet(Y \ {z}) /\ Cardinality(Y \ {z}) = n + 1 /\ Y \ {z} \in SUBSET Nat
    BY <2>1, <2>2, FS_RemoveElement
  <2>4. HasMax(Y \ {z})
    BY <2>1, <2>3
  <2>5. PICK x \in Y \ {z} : \A y \in Y \ {z} : x >= y
    BY <2>4
  <2>6. CASE x >= z
    BY <2>5, <2>6
  <2>7. CASE ~ (x >= z)
    <3>1. \A y \in Y : z >= y
      BY <2>2, <2>5, <2>7
    <3> QED BY <2>2, <3>1
  <2> QED BY <2>6, <2>7
<1>3. S = Nat
  <2> HIDE DEF S
  <2>1. S \in SUBSET Nat
    BY DEF S
  <2> QED BY <1>1, <1>2, <2>1, SetInduction
<1>4. Cardinality(X) \in Nat /\ Cardinality(X) # 0
  BY FS_CardinalityType, FS_EmptySet
<1>5. HasMax(X)
  <2>1. Cardinality(X) - 1 \in S
    BY <1>3, <1>4
  <2>2. (Cardinality(X) - 1) + 1 = Cardinality(X)
    BY <1>4
  <2> HIDE DEF HasMax
  <2> QED BY <2>1, <2>2
<1> QED BY <1>5 DEF Max

Turn == [st : Nat, en : Nat, spk : Nat, win : Nat]

LEMMA LabelsAre ==
    ASSUME NEW ts \in Seq(Turn)
    PROVE  /\ LabelsOf(ts) \in SUBSET Nat /\ IsFiniteSet(LabelsOf(ts))
           /\ Cardinality(LabelsOf(ts)) \in Nat
           /\ \A i \in DOMAIN ts : ts[i].spk \in LabelsOf(ts)
<1>1. Len(ts) \in Nat /\ DOMAIN ts = 1 .. Len(ts) /\ \A i \in DOMAIN ts : ts[i] \in Turn
  OBVIOUS
<1>2. LabelsOf(ts) \in SUBSET Nat
  BY <1>1 DEF LabelsOf, Turn
<1>3. IsFiniteSet(LabelsOf(ts))
  <2> DEFINE f == [i \in DOMAIN ts |-> ts[i].spk]
  <2>1. f \in Surjection(DOMAIN ts, LabelsOf(ts))
    BY Zenon DEF LabelsOf, Surjection
  <2>2. IsFiniteSet(DOMAIN ts)
    BY <1>1, FS_Interval
  <2> HIDE DEF f
  <2> QED BY <2>1, <2>2, FS_Surjection
<1> QED BY <1>2, <1>3, FS_CardinalityType DEF LabelsOf

-----------------------------------------------------------------------------
(* Matching the speakers of a window                                       *)

\* m is acc with l mapped to a free label from before, or to a new one.
MappedTo(m, acc, l, gs) ==
    \E id, best :
       /\ m = [map |-> With(acc.map, l, id), used |-> acc.used \cup best]
       /\ best \subseteq LabelsOf(gs) \ acc.used
       /\ IF best # {} THEN id \in best
          ELSE id = Cardinality(LabelsOf(gs)) + Cardinality(DOMAIN acc.map)

\* A speaker gets a free label from before, or a new one.
LEMMA MapSpeakerIs ==
    ASSUME NEW acc, NEW l, NEW ts, NEW gs, NEW lo, NEW hi, NEW sim
    PROVE  MappedTo(MapSpeaker(acc, l, ts, gs, lo, hi, sim), acc, l, gs)
<1> DEFINE free == LabelsOf(gs) \ acc.used
           Score(g) == Combined(ts, gs, l, g, lo, hi, sim)
           best == {g \in free : /\ Score(g) >= Needed(ts, l, lo, hi)
                                 /\ \A h \in free : \/ Score(g) > Score(h)
                                                    \/ Score(g) = Score(h) /\ g <= h}
           new_id == Cardinality(LabelsOf(gs)) + Cardinality(DOMAIN acc.map)
           id == IF best # {} THEN CHOOSE g \in best : TRUE ELSE new_id
<1>1. MapSpeaker(acc, l, ts, gs, lo, hi, sim)
         = [map |-> With(acc.map, l, id), used |-> acc.used \cup best]
  BY DEF MapSpeaker
<1>2. best \subseteq free
  BY Zenon
<1>3. IF best # {} THEN id \in best ELSE id = new_id
  <2> HIDE DEF best, new_id
  <2> QED BY Zenon
<1> HIDE DEF best, id
<1> QED BY <1>1, <1>2, <1>3, Zenon DEF MappedTo

\* What holds of the mapping m of the speakers in x.
Mapped(m, x, gs) ==
    LET n == Cardinality(LabelsOf(gs))
    IN  /\ m \in [map : [x -> Nat], used : SUBSET LabelsOf(gs)]
        /\ LabelsOf(gs) = 0 .. n - 1
           => /\ \A l \in x : m.map[l] \in m.used \cup (n .. n + Cardinality(x) - 1)
              /\ IsInjective(m.map)

LEMMA MappedOne ==
    ASSUME NEW ts, NEW gs \in Seq(Turn), NEW lo, NEW hi, NEW sim,
           NEW x \in SUBSET Nat, IsFiniteSet(x), NEW l \in Nat \ x, NEW acc, Mapped(acc, x, gs)
    PROVE  Mapped(MapSpeaker(acc, l, ts, gs, lo, hi, sim), x \cup {l}, gs)
<1> DEFINE G == LabelsOf(gs)
           n == Cardinality(G)
           k == Cardinality(x)
<1>1. G \in SUBSET Nat /\ n \in Nat
  BY LabelsAre
<1>2. k \in Nat /\ Cardinality(x \cup {l}) = k + 1
  BY FS_CardinalityType, FS_AddElement
<1>3. /\ acc.map \in [x -> Nat] /\ acc.used \in SUBSET G /\ DOMAIN acc.map = x
      /\ G = 0 .. n - 1 => /\ \A y \in x : acc.map[y] \in acc.used \cup (n .. n + k - 1)
                           /\ IsInjective(acc.map)
  BY DEF Mapped
<1>4. PICK id, best :
        /\ MapSpeaker(acc, l, ts, gs, lo, hi, sim)
              = [map |-> With(acc.map, l, id), used |-> acc.used \cup best]
        /\ best \subseteq G \ acc.used
        /\ IF best # {} THEN id \in best ELSE id = n + Cardinality(DOMAIN acc.map)
  <2>1. MappedTo(MapSpeaker(acc, l, ts, gs, lo, hi, sim), acc, l, gs)
    BY MapSpeakerIs
  <2> QED BY <2>1, Zenon DEF MappedTo
<1> DEFINE m == With(acc.map, l, id)
           u == acc.used \cup best
<1> HIDE DEF G, n, k
<1>5. id \in Nat /\ (id \in best \/ id = n + k)
  <2>1. CASE best # {}
    BY <1>1, <1>4, <2>1
  <2>2. CASE best = {}
    <3>1. id = n + k
      BY <1>3, <1>4, <2>2 DEF k
    <3> QED BY <1>1, <1>2, <3>1
  <2> QED BY <2>1, <2>2
<1>6. m \in [x \cup {l} -> Nat] /\ m[l] = id /\ \A y \in x : m[y] = acc.map[y]
  BY <1>3, <1>5 DEF With
<1>7. u \in SUBSET G
  BY <1>3, <1>4
<1> HIDE DEF m, u
<1>8. ASSUME G = 0 .. n - 1
      PROVE  /\ \A y \in x \cup {l} : m[y] \in u \cup (n .. n + (k + 1) - 1)
             /\ IsInjective(m)
  <2>1. \A y \in x : acc.map[y] \in Nat /\ acc.map[y] \in acc.used \cup (n .. n + k - 1)
    BY <1>3, <1>8
  <2>2. \A y \in x \cup {l} : m[y] \in u \cup (n .. n + (k + 1) - 1)
    BY <1>1, <1>2, <1>5, <1>6, <2>1 DEF u
  <2>3. \A y \in x : acc.map[y] # id
    <3>1. CASE id \in best
      <4>1. id \notin acc.used /\ id \in 0 .. n - 1
        BY <1>4, <1>8, <3>1 DEF G
      <4> QED BY <1>1, <1>2, <2>1, <4>1
    <3>2. CASE id = n + k
      <4>1. acc.used \subseteq 0 .. n - 1
        BY <1>3, <1>8
      <4>2. ASSUME NEW y \in x, acc.map[y] = n + k PROVE FALSE
        <5>1. acc.map[y] \in 0 .. n - 1 \/ acc.map[y] \in n .. n + k - 1
          BY <2>1, <4>1
        <5> QED BY <1>1, <1>2, <4>2, <5>1
      <4> QED BY <3>2, <4>2
    <3> QED BY <1>5, <3>1, <3>2
  <2>4. IsInjective(m)
    <3>1. \A a, b \in x : acc.map[a] = acc.map[b] => a = b
      BY <1>3, <1>8 DEF IsInjective
    <3>2. DOMAIN m = x \cup {l}
      BY <1>6
    <3> QED BY <1>6, <2>3, <3>1, <3>2 DEF IsInjective
  <2> QED BY <2>2, <2>4
<1>9. [map |-> m, used |-> u] \in [map : [x \cup {l} -> Nat], used : SUBSET G]
  BY <1>6, <1>7
<1>10. MapSpeaker(acc, l, ts, gs, lo, hi, sim) = [map |-> m, used |-> u]
  BY <1>4 DEF m, u
<1> QED BY <1>2, <1>8, <1>9, <1>10 DEF Mapped, G, n, k

\* One step of the fold in spk_map: the mapping of the speakers in x, from those
\* of fewer speakers.
MapStep(h, x, ts, gs, lo, hi, sim) ==
    IF x = {} THEN [map |-> <<>>, used |-> {}]
    ELSE MapSpeaker(h[x \ {Max(x)}], Max(x), ts, gs, lo, hi, sim)

MapFold(h, L, ts, gs, lo, hi, sim) ==
    h = [x \in SUBSET L |-> MapStep(h, x, ts, gs, lo, hi, sim)]

\* The function folded in spk_map exists.
LEMMA MapFoldExists ==
    ASSUME NEW L \in SUBSET Nat, IsFiniteSet(L), NEW ts, NEW gs, NEW lo, NEW hi, NEW sim
    PROVE  \E h : MapFold(h, L, ts, gs, lo, hi, sim)
<1> DEFINE Small(n) == {x \in SUBSET L : Cardinality(x) <= n}
           S == {n \in Nat : \E h : h = [x \in Small(n) |-> MapStep(h, x, ts, gs, lo, hi, sim)]}
<1>1. \A x \in SUBSET L : IsFiniteSet(x) /\ Cardinality(x) \in Nat /\ Cardinality(x) <= Cardinality(L)
  BY FS_Subset, FS_CardinalityType
<1>2. ASSUME NEW x \in SUBSET L, x # {}
      PROVE  x \ {Max(x)} \in SUBSET L /\ Cardinality(x \ {Max(x)}) = Cardinality(x) - 1
  <2>1. IsFiniteSet(x) /\ x \in SUBSET Nat
    BY <1>1
  <2>2. Max(x) \in x
    BY <1>2, <2>1, MaxIs
  <2> QED BY <2>1, <2>2, FS_RemoveElement
<1>3. 0 \in S
  <2> DEFINE g == [x \in Small(0) |-> [map |-> <<>>, used |-> {}]]
  <2>1. \A x \in Small(0) : x = {}
    <3> SUFFICES ASSUME NEW x \in Small(0) PROVE x = {}
      OBVIOUS
    <3>1. x \in SUBSET L /\ Cardinality(x) <= 0
      OBVIOUS
    <3> QED BY <1>1, <3>1, FS_EmptySet
  <2>2. g = [x \in Small(0) |-> MapStep(g, x, ts, gs, lo, hi, sim)]
    <3>1. \A x \in Small(0) : MapStep(g, x, ts, gs, lo, hi, sim) = [map |-> <<>>, used |-> {}]
      BY <2>1, Zenon DEF MapStep
    <3> HIDE DEF Small
    <3> QED BY <3>1, Zenon
  <2> HIDE DEF g, Small
  <2> QED BY <2>2
<1>4. ASSUME NEW n \in S PROVE n + 1 \in S
  <2>1. n \in Nat /\ n + 1 \in Nat
    OBVIOUS
  <2>2. PICK h : h = [x \in Small(n) |-> MapStep(h, x, ts, gs, lo, hi, sim)]
    BY Zenon
  <2> DEFINE g == [x \in Small(n + 1) |-> MapStep(h, x, ts, gs, lo, hi, sim)]
  <2>3. ASSUME NEW x \in Small(n + 1)
        PROVE  MapStep(g, x, ts, gs, lo, hi, sim) = MapStep(h, x, ts, gs, lo, hi, sim)
    <3>1. CASE x = {}
      BY <3>1, Zenon DEF MapStep
    <3>2. CASE x # {}
      <4> DEFINE y == x \ {Max(x)}
      <4>1. x \in SUBSET L /\ Cardinality(x) <= n + 1
        BY Zenon
      <4>2. y \in SUBSET L /\ Cardinality(y) <= n
        BY <1>1, <1>2, <2>1, <3>2, <4>1
      <4>3. y \in Small(n) /\ y \in Small(n + 1)
        <5>1. Cardinality(y) <= n + 1
          BY <1>1, <2>1, <4>2
        <5> HIDE DEF y
        <5> QED BY <4>2, <5>1
      <4> HIDE DEF Small
      <4>4. h[y] = MapStep(h, y, ts, gs, lo, hi, sim)
        BY <2>2, <4>3, Zenon
      <4>5. g[y] = MapStep(h, y, ts, gs, lo, hi, sim)
        BY <4>3, Zenon
      <4> HIDE DEF g
      <4> QED BY <3>2, <4>4, <4>5, Zenon DEF MapStep
    <3> QED BY <3>1, <3>2
  <2> HIDE DEF Small
  <2>4. g = [x \in Small(n + 1) |-> MapStep(g, x, ts, gs, lo, hi, sim)]
    BY <2>3, Zenon
  <2> HIDE DEF g
  <2> QED BY <2>1, <2>4, Zenon
<1>5. S = Nat
  <2> HIDE DEF S
  <2>1. S \in SUBSET Nat
    BY DEF S
  <2> QED BY <1>3, <1>4, <2>1, SetInduction
<1>6. Cardinality(L) \in S /\ Small(Cardinality(L)) = SUBSET L
  <2>1. Cardinality(L) \in Nat
    BY FS_CardinalityType
  <2>2. Cardinality(L) \in S
    BY <1>5, <2>1
  <2> QED BY <1>1, <2>2
<1> HIDE DEF Small
<1> QED BY <1>6, Zenon DEF MapFold

\* What spk_map returns: a label for every speaker of the window, and two labels
\* for two speakers while those in use are numbered without a gap.
LEMMA SpkMapIs ==
    ASSUME NEW ts \in Seq(Turn), NEW gs \in Seq(Turn), NEW lo, NEW hi, NEW sim
    PROVE  LET m == spk_map(ts, gs, lo, hi, sim)
           IN  /\ m \in [LabelsOf(ts) -> Nat]
               /\ LabelsOf(gs) = 0 .. Cardinality(LabelsOf(gs)) - 1 => IsInjective(m)
<1> DEFINE L == LabelsOf(ts)
           h == CHOOSE h : MapFold(h, L, ts, gs, lo, hi, sim)
<1>1. spk_map(ts, gs, lo, hi, sim) = h[L].map
  BY Zenon DEF spk_map, MapThenFoldSet, MapFold, MapStep
<1>2. L \in SUBSET Nat /\ IsFiniteSet(L)
  BY LabelsAre
<1>3. h = [x \in SUBSET L |-> MapStep(h, x, ts, gs, lo, hi, sim)]
  <2> HIDE DEF L
  <2>1. \E g : MapFold(g, L, ts, gs, lo, hi, sim)
    BY <1>2, MapFoldExists
  <2>2. MapFold(h, L, ts, gs, lo, hi, sim)
    BY <2>1, Zenon
  <2> QED BY <2>2, Zenon DEF MapFold
<1> HIDE DEF h, L
<1> DEFINE S == {n \in Nat : \A x \in SUBSET L : Cardinality(x) = n => Mapped(h[x], x, gs)}
<1>4. \A x \in SUBSET L : IsFiniteSet(x) /\ Cardinality(x) \in Nat
  BY <1>2, FS_Subset, FS_CardinalityType
<1>5. 0 \in S
  <2> SUFFICES ASSUME NEW x \in SUBSET L, Cardinality(x) = 0 PROVE Mapped(h[x], x, gs)
    OBVIOUS
  <2>1. x = {}
    BY <1>4, FS_EmptySet
  <2>2. h[x] = [map |-> <<>>, used |-> {}]
    BY <1>3, <2>1 DEF MapStep
  <2>3. <<>> \in [{} -> Nat] /\ IsInjective(<<>>)
    BY DEF IsInjective
  <2> QED BY <2>1, <2>2, <2>3 DEF Mapped
<1>6. ASSUME NEW n \in S PROVE n + 1 \in S
  <2> SUFFICES ASSUME NEW x \in SUBSET L, Cardinality(x) = n + 1 PROVE Mapped(h[x], x, gs)
    OBVIOUS
  <2> DEFINE l == Max(x)
             y == x \ {l}
  <2>1. n \in Nat /\ x # {} /\ IsFiniteSet(x) /\ x \in SUBSET Nat
    <3>1. n \in Nat /\ Cardinality({}) = 0
      BY FS_EmptySet
    <3>2. n + 1 # 0
      BY <3>1
    <3>3. x # {}
      BY <3>1, <3>2, Zenon
    <3> QED BY <1>2, <1>4, <3>1, <3>3
  <2>2. l \in x
    BY <2>1, MaxIs
  <2>3. y \in SUBSET L /\ IsFiniteSet(y) /\ Cardinality(y) = n
    <3>1. IsFiniteSet(y) /\ Cardinality(y) = Cardinality(x) - 1
      BY <2>1, <2>2, FS_RemoveElement
    <3>2. Cardinality(y) = n
      BY <2>1, <3>1
    <3> QED BY <3>1, <3>2
  <2>4. Mapped(h[y], y, gs)
    BY <2>3
  <2>5. h[x] = MapSpeaker(h[y], l, ts, gs, lo, hi, sim)
    <3>1. h[x] = MapStep(h, x, ts, gs, lo, hi, sim)
      BY <1>3, Zenon
    <3> QED BY <2>1, <3>1, Zenon DEF MapStep
  <2>6. l \in Nat \ y /\ y \in SUBSET Nat /\ x = y \cup {l}
    BY <2>1, <2>2
  <2> HIDE DEF l, y
  <2>7. Mapped(MapSpeaker(h[y], l, ts, gs, lo, hi, sim), y \cup {l}, gs)
    BY <2>3, <2>4, <2>6, MappedOne
  <2> QED BY <2>5, <2>6, <2>7
<1>7. S = Nat
  <2> HIDE DEF S
  <2>1. S \in SUBSET Nat
    BY DEF S
  <2> QED BY <1>5, <1>6, <2>1, SetInduction
<1>8. Mapped(h[L], L, gs)
  BY <1>4, <1>7
<1> QED BY <1>1, <1>8 DEF Mapped, L

-----------------------------------------------------------------------------
(* Stitching                                                               *)

Mark(t) == <<t.st, t.en, t.win>>
Marked(ts) == {Mark(ts[i]) : i \in DOMAIN ts}

\* What window n, which heard ts, has in the part from lo to hi.
Part(ts, n, lo, hi) ==
    {<<Most(ts[i].st, lo), Least(ts[i].en, hi), n>> : i \in {i \in DOMAIN ts : Clip(ts[i], lo, hi) > 0}}

LEMMA MarkedKept ==
    ASSUME NEW s \in Seq(Turn), NEW keep \in SUBSET DOMAIN s
    PROVE  /\ Kept(s, keep) \in Seq(Turn)
           /\ \A j \in DOMAIN Kept(s, keep) : \E i \in keep : Kept(s, keep)[j] = s[i]
           /\ \A i \in keep : \E j \in DOMAIN Kept(s, keep) : Kept(s, keep)[j] = s[i]
<1>1. Kept(s, keep) \in Seq(Turn)
  BY KeptIs
<1>2. ToSet(Kept(s, keep)) = {s[i] : i \in keep}
  <2>1. keep \cap DOMAIN s = keep
    OBVIOUS
  <2> QED BY <2>1, KeptIs
<1> QED BY <1>1, <1>2, Zenon DEF ToSet

\* What Sortformer returns for a window lies in the recording.
LEMMA ParseIs ==
    ASSUME NEW out \in Outputs, NEW n \in Nat, NEW w \in [st : Nat, en : Nat]
    PROVE  LET ts == parse_nemo_preds(Audible(out, w), n, w)
           IN  /\ ts \in Seq(Turn)
               /\ \A i \in DOMAIN ts : ts[i].st < ts[i].en /\ ts[i].en <= w.en /\ ts[i].win = n
<1> DEFINE all == [i \in DOMAIN out |-> [st |-> w.st + out[i].st, en |-> Least(w.st + out[i].en, w.en),
                                         spk |-> out[i].spk, win |-> n]]
           keep == {i \in DOMAIN all : all[i].st < all[i].en}
<1>1. out \in Seq([st : Nat, en : Nat, spk : Nat])
  BY OutputsAssumption
<1>2. Len(out) \in Nat /\ DOMAIN out = 1 .. Len(out)
  BY <1>1
<1>3. ASSUME NEW i \in DOMAIN out
      PROVE  /\ [st |-> w.st + out[i].st, en |-> Least(w.st + out[i].en, w.en),
                 spk |-> out[i].spk, win |-> n] \in Turn
             /\ Least(w.st + out[i].en, w.en) <= w.en
  <2>1. out[i] \in [st : Nat, en : Nat, spk : Nat]
    BY <1>1, <1>2, ElementOfSeq
  <2>2. w.st \in Nat /\ w.en \in Nat
    OBVIOUS
  <2>3. Least(w.st + out[i].en, w.en) \in Nat /\ Least(w.st + out[i].en, w.en) <= w.en
    BY <2>1, <2>2 DEF Least
  <2> QED BY <2>1, <2>2, <2>3 DEF Turn
<1>4. all \in [1 .. Len(out) -> Turn] /\ \A i \in DOMAIN all : all[i].en <= w.en /\ all[i].win = n
  BY <1>2, <1>3
<1>5. all \in Seq(Turn)
  BY <1>2, <1>4, FunctionIsSeq
<1>6. parse_nemo_preds(Audible(out, w), n, w) = Kept(all, keep)
  <2> DEFINE part == Audible(out, w)
             ts == [i \in DOMAIN part |-> [st |-> w.st + part[i].st, en |-> w.st + part[i].en,
                                           spk |-> part[i].spk, win |-> n]]
  <2>1. DOMAIN part = DOMAIN out
    BY DEF Audible
  <2>2. ASSUME NEW i \in DOMAIN out
        PROVE  [st |-> w.st + part[i].st, en |-> w.st + part[i].en,
                spk |-> part[i].spk, win |-> n]
                 = [st |-> w.st + out[i].st, en |-> Least(w.st + out[i].en, w.en),
                    spk |-> out[i].spk, win |-> n]
    <3>1. out[i] \in [st : Nat, en : Nat, spk : Nat] /\ w.st \in Nat /\ w.en \in Nat
      BY <1>1, <1>2, ElementOfSeq
    <3>2. part[i] = [out[i] EXCEPT !.en = Least(@, w.en - w.st)]
      BY DEF Audible
    <3>3. w.st + Least(out[i].en, w.en - w.st) = Least(w.st + out[i].en, w.en)
      BY <3>1 DEF Least
    <3> QED BY <3>1, <3>2, <3>3
  <2>3. ts = all
    BY <2>1, <2>2, Zenon
  <2>4. parse_nemo_preds(part, n, w) = Kept(ts, {i \in DOMAIN ts : ts[i].st < ts[i].en})
    BY DEF parse_nemo_preds
  <2> QED BY <2>3, <2>4
<1>7. keep \in SUBSET DOMAIN all /\ \A i \in keep : all[i].st < all[i].en
  OBVIOUS
<1> HIDE DEF all, keep
<1>8. /\ Kept(all, keep) \in Seq(Turn)
      /\ \A j \in DOMAIN Kept(all, keep) : \E i \in keep : Kept(all, keep)[j] = all[i]
  BY <1>5, <1>7, MarkedKept
<1> QED BY <1>4, <1>6, <1>7, <1>8

LEMMA MarkedConcat ==
    ASSUME NEW p \in Seq(Turn), NEW q \in Seq(Turn)
    PROVE  p \o q \in Seq(Turn) /\ Marked(p \o q) = Marked(p) \cup Marked(q)
<1> DEFINE r == p \o q
           m == Len(p)
           n == Len(q)
<1>1. /\ m \in Nat /\ n \in Nat /\ DOMAIN p = 1 .. m /\ DOMAIN q = 1 .. n
      /\ r \in Seq(Turn) /\ DOMAIN r = 1 .. m + n
      /\ \A i \in 1 .. m : r[i] = p[i]
      /\ \A i \in 1 .. n : r[m + i] = q[i]
  OBVIOUS
<1> HIDE DEF r, m, n
<1>2. ASSUME NEW i \in 1 .. m + n
      PROVE  \/ \E j \in DOMAIN p : r[i] = p[j]
             \/ \E j \in DOMAIN q : r[i] = q[j]
  <2>1. CASE i <= m
    <3>1. i \in 1 .. m
      BY <1>1, <2>1
    <3> QED BY <1>1, <3>1, Zenon
  <2>2. CASE i > m
    <3>1. i - m \in 1 .. n /\ m + (i - m) = i
      BY <1>1, <2>2
    <3>2. r[m + (i - m)] = q[i - m]
      BY <1>1, <3>1, Zenon
    <3> QED BY <1>1, <3>1, <3>2
  <2> QED BY <1>1, <2>1, <2>2
<1>3. ASSUME NEW j \in DOMAIN p PROVE \E i \in DOMAIN r : r[i] = p[j]
  BY <1>1
<1>4. ASSUME NEW j \in DOMAIN q PROVE \E i \in DOMAIN r : r[i] = q[j]
  <2>1. m + j \in 1 .. m + n /\ j \in 1 .. n
    BY <1>1
  <2> QED BY <1>1, <2>1
<1>5. Marked(r) = Marked(p) \cup Marked(q)
  <2>1. ASSUME NEW x \in Marked(r) PROVE x \in Marked(p) \cup Marked(q)
    <3>1. PICK i \in 1 .. m + n : x = Mark(r[i])
      BY <1>1, <2>1 DEF Marked
    <3> QED BY <1>2, <3>1, Zenon DEF Marked
  <2>2. ASSUME NEW x \in Marked(p) PROVE x \in Marked(r)
    BY <1>3, <2>2, Zenon DEF Marked
  <2>3. ASSUME NEW x \in Marked(q) PROVE x \in Marked(r)
    BY <1>4, <2>3, Zenon DEF Marked
  <2> QED BY <2>1, <2>2, <2>3
<1> QED BY <1>1, <1>5 DEF r

\* What JoinAt keeps of the old turns and of the new ones.
OldPieces(gs, at) ==
    {<<gs[i].st, Least(gs[i].en, at), gs[i].win>> : i \in {i \in DOMAIN gs : gs[i].st < at}}
NewPieces(ts, at) ==
    {<<Most(ts[i].st, at), ts[i].en, ts[i].win>> : i \in {i \in DOMAIN ts : ts[i].en > at}}

LEMMA JoinAtIs ==
    ASSUME NEW gs \in Seq(Turn), NEW ts \in Seq(Turn), NEW map \in [LabelsOf(ts) -> Nat],
           NEW at \in Nat
    PROVE  /\ JoinAt(gs, ts, map, at) \in Seq(Turn)
           /\ Marked(JoinAt(gs, ts, map, at)) = OldPieces(gs, at) \cup NewPieces(ts, at)
<1> DEFINE ok == {i \in DOMAIN gs : gs[i].st < at}
           nk == {i \in DOMAIN ts : ts[i].en > at}
           old == Kept(gs, ok)
           new == Kept(ts, nk)
           p == [i \in DOMAIN old |-> [old[i] EXCEPT !.en = Least(@, at)]]
           q == [i \in DOMAIN new |-> [new[i] EXCEPT !.st = Most(@, at), !.spk = map[@]]]
<1>1. JoinAt(gs, ts, map, at) = p \o q
  BY DEF JoinAt
<1>2. ok \in SUBSET DOMAIN gs /\ nk \in SUBSET DOMAIN ts
  OBVIOUS
<1> HIDE DEF ok, nk
<1>3. /\ old \in Seq(Turn)
      /\ \A j \in DOMAIN old : \E i \in ok : old[j] = gs[i]
      /\ \A i \in ok : \E j \in DOMAIN old : old[j] = gs[i]
  BY <1>2, MarkedKept
<1>4. /\ new \in Seq(Turn)
      /\ \A j \in DOMAIN new : \E i \in nk : new[j] = ts[i]
      /\ \A i \in nk : \E j \in DOMAIN new : new[j] = ts[i]
  BY <1>2, MarkedKept
<1> HIDE DEF old, new
<1>5. p \in Seq(Turn) /\ DOMAIN p = DOMAIN old
      /\ \A j \in DOMAIN old : Mark(p[j]) = <<old[j].st, Least(old[j].en, at), old[j].win>>
  <2>1. ASSUME NEW j \in DOMAIN old
        PROVE  /\ [old[j] EXCEPT !.en = Least(@, at)] \in Turn
               /\ Mark([old[j] EXCEPT !.en = Least(@, at)]) = <<old[j].st, Least(old[j].en, at), old[j].win>>
    <3>1. old[j] \in Turn
      BY <1>3
    <3>2. Least(old[j].en, at) \in Nat
      BY <3>1 DEF Turn, Least
    <3> QED BY <3>1, <3>2 DEF Turn, Mark
  <2>2. Len(old) \in Nat /\ DOMAIN old = 1 .. Len(old)
    BY <1>3
  <2>3. p \in [1 .. Len(old) -> Turn]
    BY <2>1, <2>2
  <2>4. \A j \in DOMAIN old : p[j] = [old[j] EXCEPT !.en = Least(@, at)]
    OBVIOUS
  <2> HIDE DEF p
  <2> QED BY <2>1, <2>2, <2>3, <2>4, FunctionIsSeq
<1>6. q \in Seq(Turn) /\ DOMAIN q = DOMAIN new
      /\ \A j \in DOMAIN new : Mark(q[j]) = <<Most(new[j].st, at), new[j].en, new[j].win>>
  <2>1. ASSUME NEW j \in DOMAIN new
        PROVE  /\ [new[j] EXCEPT !.st = Most(@, at), !.spk = map[@]] \in Turn
               /\ Mark([new[j] EXCEPT !.st = Most(@, at), !.spk = map[@]])
                     = <<Most(new[j].st, at), new[j].en, new[j].win>>
    <3>1. new[j] \in Turn
      BY <1>4
    <3>2. Most(new[j].st, at) \in Nat
      BY <3>1 DEF Turn, Most
    <3>3. new[j].spk \in LabelsOf(ts)
      <4>1. PICK i \in nk : new[j] = ts[i]
        BY <1>4
      <4> QED BY <1>2, <4>1, LabelsAre
    <3>4. map[new[j].spk] \in Nat
      BY <3>3
    <3> QED BY <3>1, <3>2, <3>4 DEF Turn, Mark
  <2>2. Len(new) \in Nat /\ DOMAIN new = 1 .. Len(new)
    BY <1>4
  <2>3. q \in [1 .. Len(new) -> Turn]
    BY <2>1, <2>2
  <2>4. \A j \in DOMAIN new : q[j] = [new[j] EXCEPT !.st = Most(@, at), !.spk = map[@]]
    OBVIOUS
  <2> HIDE DEF q
  <2> QED BY <2>1, <2>2, <2>3, <2>4, FunctionIsSeq
<1> HIDE DEF p, q
<1>7. Marked(p) = {<<gs[i].st, Least(gs[i].en, at), gs[i].win>> : i \in ok}
  <2> DEFINE E(t) == <<t.st, Least(t.en, at), t.win>>
  <2>1. \A j \in DOMAIN old : Mark(p[j]) = E(old[j])
    BY <1>5
  <2> HIDE DEF E
  <2>2. ASSUME NEW x \in Marked(p) PROVE x \in {E(gs[i]) : i \in ok}
    <3>1. PICK j \in DOMAIN old : x = Mark(p[j])
      BY <1>5 DEF Marked
    <3>2. PICK i \in ok : old[j] = gs[i]
      BY <1>3
    <3>3. x = E(gs[i])
      BY <2>1, <3>1, <3>2
    <3> QED BY <3>3
  <2>3. ASSUME NEW i \in ok PROVE E(gs[i]) \in Marked(p)
    <3>1. PICK j \in DOMAIN old : old[j] = gs[i]
      BY <1>3
    <3>2. Mark(p[j]) = E(gs[i]) /\ j \in DOMAIN p
      BY <1>5, <2>1, <3>1
    <3> QED BY <3>2, Zenon DEF Marked
  <2>4. Marked(p) = {E(gs[i]) : i \in ok}
    BY <2>2, <2>3
  <2> QED BY <2>4 DEF E
<1>8. Marked(q) = {<<Most(ts[i].st, at), ts[i].en, ts[i].win>> : i \in nk}
  <2> DEFINE E(t) == <<Most(t.st, at), t.en, t.win>>
  <2>1. \A j \in DOMAIN new : Mark(q[j]) = E(new[j])
    BY <1>6
  <2> HIDE DEF E
  <2>2. ASSUME NEW x \in Marked(q) PROVE x \in {E(ts[i]) : i \in nk}
    <3>1. PICK j \in DOMAIN new : x = Mark(q[j])
      BY <1>6 DEF Marked
    <3>2. PICK i \in nk : new[j] = ts[i]
      BY <1>4
    <3>3. x = E(ts[i])
      BY <2>1, <3>1, <3>2
    <3> QED BY <3>3
  <2>3. ASSUME NEW i \in nk PROVE E(ts[i]) \in Marked(q)
    <3>1. PICK j \in DOMAIN new : new[j] = ts[i]
      BY <1>4
    <3>2. Mark(q[j]) = E(ts[i]) /\ j \in DOMAIN q
      BY <1>6, <2>1, <3>1
    <3> QED BY <3>2, Zenon DEF Marked
  <2>4. Marked(q) = {E(ts[i]) : i \in nk}
    BY <2>2, <2>3
  <2> QED BY <2>4 DEF E
<1>9. p \o q \in Seq(Turn) /\ Marked(p \o q) = Marked(p) \cup Marked(q)
  BY <1>5, <1>6, MarkedConcat
<1> QED BY <1>1, <1>7, <1>8, <1>9 DEF ok, nk, OldPieces, NewPieces

-----------------------------------------------------------------------------
(* The parts the windows answer for                                        *)

LEMMA MinIs ==
    ASSUME NEW S \in SUBSET Nat, S # {}
    PROVE  Min(S) \in S /\ \A y \in S : Min(S) <= y
  BY LeastElement DEF Min

LEMMA MinAdd ==
    ASSUME NEW S \in SUBSET Nat, S # {}, NEW a \in Nat
    PROVE  Min(S \cup {a}) = Least(Min(S), a)
<1>1. Min(S) \in S /\ \A y \in S : Min(S) <= y
  BY MinIs
<1>2. S \cup {a} \in SUBSET Nat /\ S \cup {a} # {}
  OBVIOUS
<1>3. Min(S \cup {a}) \in S \cup {a} /\ \A y \in S \cup {a} : Min(S \cup {a}) <= y
  BY <1>2, MinIs
<1> DEFINE x == Min(S)
           y == Min(S \cup {a})
<1>4. /\ x \in Nat /\ y \in Nat /\ y <= x /\ y <= a
      /\ y = a \/ x <= y
  BY <1>1, <1>2, <1>3
<1> HIDE DEF x, y
<1>5. y = Least(x, a)
  BY <1>4 DEF Least
<1> QED BY <1>5 DEF x, y

\* TrustedFrom and TrustedUpTo for the mappings ms.
From(ms, n) == IF ms[n] = <<>> THEN 0 ELSE StitchTime(rec, chunk_specs(rec)[n])
Limits(ms, n) == {rec.total} \cup {From(ms, m) : m \in {m \in n + 1 .. Len(ms) : ms[m] # <<>>}}
UpTo(ms, n) == Min(Limits(ms, n))

\* All that was heard, each window in its part.
AllParts(hs, ms) == UNION {Part(hs[n], n, From(ms, n), UpTo(ms, n)) : n \in DOMAIN hs}

Maps == UNION {[D -> Nat] : D \in SUBSET Nat}

LEMMA FromIs ==
    ASSUME RecordingOK, NEW ms, NEW n \in 1 .. Windows(rec)
    PROVE  From(ms, n) \in Nat
<1>1. chunk_specs(rec)[n].st \in Nat
  BY WindowsAre DEF RecordingOK
<1>2. rec.overlap \in Nat /\ rec.overlap \div 2 \in Nat
  BY StepIs DEF RecordingOK
<1> QED BY <1>1, <1>2 DEF From, StitchTime

LEMMA LimitsAre ==
    ASSUME RecordingOK, NEW ms \in Seq(Maps), Len(ms) <= Windows(rec), NEW n \in 1 .. Len(ms)
    PROVE  Limits(ms, n) \in SUBSET Nat /\ Limits(ms, n) # {} /\ UpTo(ms, n) \in Nat
<1>1. rec.total \in Nat /\ Windows(rec) \in Nat /\ Len(ms) \in Nat
  BY StepIs, WindowsAre DEF RecordingOK
<1>2. \A m \in n + 1 .. Len(ms) : m \in 1 .. Windows(rec)
  BY <1>1
<1>3. \A m \in n + 1 .. Len(ms) : From(ms, m) \in Nat
  BY <1>2, FromIs
<1>4. Limits(ms, n) \in SUBSET Nat /\ Limits(ms, n) # {}
  BY <1>1, <1>3 DEF Limits
<1> QED BY <1>4, MinIs DEF UpTo

\* One more window, with the mapping m.
LEMMA TrustAppend ==
    ASSUME RecordingOK, NEW ms \in Seq(Maps), Len(ms) < Windows(rec), NEW m \in Maps
    PROVE  LET more == Append(ms, m)
               c1 == Len(ms) + 1
               at == StitchTime(rec, chunk_specs(rec)[c1])
           IN  /\ at \in Nat
               /\ \A n \in 1 .. Len(ms) :
                     /\ From(more, n) = From(ms, n)
                     /\ From(ms, n) \in Nat /\ UpTo(ms, n) \in Nat
                     /\ UpTo(more, n) = IF m = <<>> THEN UpTo(ms, n) ELSE Least(UpTo(ms, n), at)
               /\ From(more, c1) = IF m = <<>> THEN 0 ELSE at
               /\ UpTo(more, c1) = rec.total
<1> DEFINE more == Append(ms, m)
           k == Len(ms)
           c1 == k + 1
           at == StitchTime(rec, chunk_specs(rec)[c1])
<1>1. /\ k \in Nat /\ Len(more) = k + 1 /\ more[k + 1] = m
      /\ \A n \in 1 .. k : more[n] = ms[n]
  OBVIOUS
<1>2. Windows(rec) \in Nat /\ k < Windows(rec) /\ rec.total \in Nat
  BY WindowsAre, StepIs DEF RecordingOK
<1>3. at \in Nat
  <2>1. c1 \in 1 .. Windows(rec)
    BY <1>1, <1>2
  <2>2. chunk_specs(rec)[c1].st \in Nat
    BY <2>1, WindowsAre DEF RecordingOK
  <2>3. rec.overlap \div 2 \in Nat
    BY StepIs DEF RecordingOK
  <2> QED BY <2>2, <2>3 DEF StitchTime
<1> HIDE DEF more, k
<1>4. \A n \in 1 .. k : From(more, n) = From(ms, n)
  BY <1>1 DEF From
<1>5. From(more, c1) = IF m = <<>> THEN 0 ELSE at
  BY <1>1 DEF From
<1> HIDE DEF at
<1>6. UpTo(more, c1) = rec.total
  <2>1. c1 + 1 .. Len(more) = {}
    BY <1>1
  <2>2. Limits(more, c1) = {rec.total}
    BY <2>1 DEF Limits
  <2>3. Limits(more, c1) \in SUBSET Nat /\ Limits(more, c1) # {}
    BY <1>2, <2>2
  <2>4. Min(Limits(more, c1)) \in Limits(more, c1)
    BY <2>3, MinIs
  <2> QED BY <2>2, <2>4 DEF UpTo
<1>7. ASSUME NEW n \in 1 .. k
      PROVE  /\ From(ms, n) \in Nat /\ UpTo(ms, n) \in Nat
             /\ UpTo(more, n) = IF m = <<>> THEN UpTo(ms, n) ELSE Least(UpTo(ms, n), at)
  <2>1. Limits(ms, n) \in SUBSET Nat /\ Limits(ms, n) # {} /\ UpTo(ms, n) \in Nat
    BY <1>1, <1>2, LimitsAre DEF k
  <2>2. From(ms, n) \in Nat
    <3>1. n \in 1 .. Windows(rec)
      BY <1>1, <1>2
    <3> QED BY <3>1, FromIs
  <2> DEFINE old == {i \in n + 1 .. k : ms[i] # <<>>}
             new == {i \in n + 1 .. Len(more) : more[i] # <<>>}
  <2>3. n + 1 .. Len(more) = (n + 1 .. k) \cup {c1}
    BY <1>1
  <2>4. \A i \in n + 1 .. k : i \in 1 .. k
    BY <1>1
  <2>5. CASE m = <<>>
    <3>1. new = old
      BY <1>1, <2>3, <2>4, <2>5, Zenon
    <3>2. {From(more, i) : i \in old} = {From(ms, i) : i \in old}
      BY <1>4, <2>4
    <3>3. Limits(more, n) = Limits(ms, n)
      BY <3>1, <3>2, Zenon DEF Limits, k
    <3> QED BY <2>1, <2>2, <2>5, <3>3 DEF UpTo
  <2>6. CASE m # <<>>
    <3>1. new = old \cup {c1}
      BY <1>1, <2>3, <2>4, <2>6
    <3>2. {From(more, i) : i \in old \cup {c1}} = {From(ms, i) : i \in old} \cup {at}
      <4>1. \A i \in old : From(more, i) = From(ms, i)
        BY <1>4, <2>4
      <4>2. From(more, c1) = at
        BY <1>5, <2>6
      <4> HIDE DEF old
      <4> QED BY <4>1, <4>2
    <3>3. Limits(more, n) = Limits(ms, n) \cup {at}
      <4>1. Limits(more, n) = {rec.total} \cup {From(more, i) : i \in new}
        BY DEF Limits
      <4>2. Limits(ms, n) = {rec.total} \cup {From(ms, i) : i \in old}
        BY DEF Limits, k
      <4> HIDE DEF old, new
      <4> QED BY <3>1, <3>2, <4>1, <4>2
    <3>4. Min(Limits(ms, n) \cup {at}) = Least(Min(Limits(ms, n)), at)
      BY <1>3, <2>1, MinAdd
    <3> QED BY <2>1, <2>2, <2>6, <3>3, <3>4 DEF UpTo
  <2> QED BY <2>5, <2>6
<1> QED BY <1>3, <1>4, <1>5, <1>6, <1>7 DEF more, k, at

\* The marked pieces Y, cut off at a time.
Cut(Y, at) == {<<y[1], Least(y[2], at), y[3]>> : y \in {y \in Y : y[1] < at}}

\* A part that ends earlier is the part cut off.
LEMMA PartCut ==
    ASSUME NEW ts \in Seq(Turn), NEW n, NEW lo \in Nat, NEW hi \in Nat, NEW at \in Nat
    PROVE  Part(ts, n, lo, Least(hi, at)) = Cut(Part(ts, n, lo, hi), at)
<1> DEFINE a(i) == Most(ts[i].st, lo)
           b(i) == Least(ts[i].en, hi)
           d(i) == Least(ts[i].en, Least(hi, at))
<1>1. ASSUME NEW i \in DOMAIN ts
      PROVE  /\ (Clip(ts[i], lo, Least(hi, at)) > 0) <=> (Clip(ts[i], lo, hi) > 0 /\ a(i) < at)
             /\ d(i) = Least(b(i), at)
  <2>1. ts[i] \in Turn
    OBVIOUS
  <2>2. ts[i].st \in Nat /\ ts[i].en \in Nat
    BY <2>1 DEF Turn
  <2>3. a(i) \in Nat
    BY <2>2 DEF Most
  <2>4. d(i) = Least(b(i), at) /\ b(i) \in Nat
    BY <2>2 DEF Least
  <2>5. Clip(ts[i], lo, hi) = b(i) - a(i) /\ Clip(ts[i], lo, Least(hi, at)) = d(i) - a(i)
    BY DEF Clip
  <2> HIDE DEF a, b, d
  <2>6. (d(i) - a(i) > 0) <=> (b(i) - a(i) > 0 /\ a(i) < at)
    BY <2>3, <2>4 DEF Least
  <2> QED BY <2>4, <2>5, <2>6 DEF a
<1>2. Part(ts, n, lo, Least(hi, at))
         = {<<a(i), d(i), n>> : i \in {i \in DOMAIN ts : Clip(ts[i], lo, Least(hi, at)) > 0}}
  BY Zenon DEF Part
<1>3. Part(ts, n, lo, hi) = {<<a(i), b(i), n>> : i \in {i \in DOMAIN ts : Clip(ts[i], lo, hi) > 0}}
  BY Zenon DEF Part
<1> HIDE DEF a, b, d
<1>4. ASSUME NEW x \in Part(ts, n, lo, Least(hi, at)) PROVE x \in Cut(Part(ts, n, lo, hi), at)
  <2>1. PICK i \in DOMAIN ts : Clip(ts[i], lo, Least(hi, at)) > 0 /\ x = <<a(i), d(i), n>>
    BY <1>2
  <2> DEFINE y == <<a(i), b(i), n>>
  <2>2. y \in Part(ts, n, lo, hi) /\ a(i) < at /\ d(i) = Least(b(i), at)
    BY <1>1, <1>3, <2>1
  <2>3. y[1] = a(i) /\ y[2] = b(i) /\ y[3] = n
    OBVIOUS
  <2> HIDE DEF y
  <2> QED BY <2>1, <2>2, <2>3 DEF Cut
<1>5. ASSUME NEW x \in Cut(Part(ts, n, lo, hi), at) PROVE x \in Part(ts, n, lo, Least(hi, at))
  <2>1. PICK y \in Part(ts, n, lo, hi) : y[1] < at /\ x = <<y[1], Least(y[2], at), y[3]>>
    BY DEF Cut
  <2>2. PICK i \in DOMAIN ts : Clip(ts[i], lo, hi) > 0 /\ y = <<a(i), b(i), n>>
    BY <1>3, <2>1
  <2>3. x = <<a(i), d(i), n>> /\ Clip(ts[i], lo, Least(hi, at)) > 0
    BY <1>1, <2>1, <2>2
  <2> QED BY <1>2, <2>3
<1> QED BY <1>4, <1>5

\* The part of a window up to the end of the recording.
LEMMA PartRest ==
    ASSUME NEW ts \in Seq(Turn), NEW n, NEW lo \in Nat, NEW hi \in Nat,
           \A i \in DOMAIN ts : ts[i].st < ts[i].en /\ ts[i].en <= hi /\ ts[i].win = n
    PROVE  /\ Part(ts, n, lo, hi) = NewPieces(ts, lo)
           /\ Part(ts, n, 0, hi) = Marked(ts)
<1>1. ASSUME NEW i \in DOMAIN ts
      PROVE  /\ ts[i].st \in Nat /\ ts[i].en \in Nat /\ ts[i].st < ts[i].en
             /\ ts[i].en <= hi /\ ts[i].win = n
  <2>1. ts[i] \in Turn
    OBVIOUS
  <2> QED BY <2>1 DEF Turn
<1>2. ASSUME NEW i \in DOMAIN ts, NEW x \in Nat
      PROVE  /\ Least(ts[i].en, hi) = ts[i].en
             /\ (Clip(ts[i], x, hi) > 0) <=> (ts[i].en > x)
             /\ Most(ts[i].st, 0) = ts[i].st
             /\ ts[i].en > 0
  <2>1. Least(ts[i].en, hi) = ts[i].en
    BY <1>1 DEF Least
  <2>2. Most(ts[i].st, 0) = ts[i].st /\ ts[i].en > 0
    BY <1>1 DEF Most
  <2>3. (ts[i].en - Most(ts[i].st, x) > 0) <=> (ts[i].en > x)
    BY <1>1 DEF Most
  <2> QED BY <2>1, <2>2, <2>3 DEF Clip
<1>3. {i \in DOMAIN ts : Clip(ts[i], lo, hi) > 0} = {i \in DOMAIN ts : ts[i].en > lo}
  BY <1>2
<1>4. {i \in DOMAIN ts : Clip(ts[i], 0, hi) > 0} = DOMAIN ts
  BY <1>2
<1>5. Part(ts, n, lo, hi) = NewPieces(ts, lo)
  <2> DEFINE D == {i \in DOMAIN ts : ts[i].en > lo}
  <2>1. \A i \in D : Least(ts[i].en, hi) = ts[i].en /\ ts[i].win = n
    BY <1>1, <1>2
  <2>2. Part(ts, n, lo, hi) = {<<Most(ts[i].st, lo), Least(ts[i].en, hi), n>> : i \in D}
    BY <1>3, Zenon DEF Part
  <2> HIDE DEF D
  <2>3. {<<Most(ts[i].st, lo), Least(ts[i].en, hi), n>> : i \in D}
          = {<<Most(ts[i].st, lo), ts[i].en, ts[i].win>> : i \in D}
    BY <2>1
  <2> QED BY <2>2, <2>3, Zenon DEF D, NewPieces
<1>6. Part(ts, n, 0, hi) = Marked(ts)
  <2>1. Part(ts, n, 0, hi) = {<<Most(ts[i].st, 0), Least(ts[i].en, hi), n>> : i \in DOMAIN ts}
    BY <1>4, Zenon DEF Part
  <2>2. \A i \in DOMAIN ts : <<Most(ts[i].st, 0), Least(ts[i].en, hi), n>> = Mark(ts[i])
    BY <1>1, <1>2 DEF Mark
  <2> QED BY <2>1, <2>2, Zenon DEF Marked
<1> QED BY <1>5, <1>6

-----------------------------------------------------------------------------
(* Nothing twice, nothing lost                                             *)

StitchInv ==
    /\ RecordingOK
    /\ c \in Nat \ {0} /\ c - 1 <= Windows(rec)
    /\ heard \in Seq(Seq(Turn)) /\ Len(heard) = c - 1
    /\ maps \in Seq(Maps) /\ Len(maps) = c - 1
    /\ stage = "chunks" => turns \in Seq(Turn) /\ Marked(turns) = AllParts(heard, maps)

\* One more window adds its part and changes the ends of the others.
LEMMA PartsAppend ==
    ASSUME NEW hs \in Seq(Seq(Turn)), NEW ms, NEW ts \in Seq(Turn), NEW more
    PROVE  AllParts(Append(hs, ts), more) =
              (UNION {Part(hs[n], n, From(more, n), UpTo(more, n)) : n \in DOMAIN hs})
              \cup Part(ts, Len(hs) + 1, From(more, Len(hs) + 1), UpTo(more, Len(hs) + 1))
<1> DEFINE k == Len(hs)
           all == Append(hs, ts)
           P(s, n) == Part(s, n, From(more, n), UpTo(more, n))
<1>1. /\ k \in Nat /\ DOMAIN hs = 1 .. k /\ DOMAIN all = 1 .. k + 1 /\ all[k + 1] = ts
      /\ \A n \in 1 .. k : all[n] = hs[n]
  OBVIOUS
<1>2. 1 .. k + 1 = (1 .. k) \cup {k + 1}
  BY <1>1
<1> HIDE DEF all, k, P
<1>3. \A n \in 1 .. k : P(all[n], n) = P(hs[n], n)
  BY <1>1
<1>4. UNION {P(all[n], n) : n \in DOMAIN all} = (UNION {P(hs[n], n) : n \in DOMAIN hs}) \cup P(ts, k + 1)
  <2>1. {P(all[n], n) : n \in DOMAIN all} = {P(hs[n], n) : n \in 1 .. k} \cup {P(ts, k + 1)}
    BY <1>1, <1>2, <1>3
  <2> QED BY <1>1, <2>1
<1> QED BY <1>4 DEF AllParts, all, k, P

LEMMA StitchInvInit ==
    ASSUME StitchInit
    PROVE  StitchInv
<1>1. RecordingOK /\ stage = "chunks" /\ c = 1 /\ heard = <<>> /\ maps = <<>> /\ turns = <<>>
  BY DEF StitchInit, RecordingOK
<1>2. Windows(rec) \in Nat
  BY <1>1, WindowsAre DEF RecordingOK
<1>3. Marked(turns) = {} /\ AllParts(heard, maps) = {}
  BY <1>1 DEF Marked, AllParts
<1> QED BY <1>1, <1>2, <1>3 DEF StitchInv

LEMMA CutMarked ==
    ASSUME NEW ts, NEW at
    PROVE  Cut(Marked(ts), at) = OldPieces(ts, at)
<1>1. ASSUME NEW x \in Cut(Marked(ts), at) PROVE x \in OldPieces(ts, at)
  <2>1. PICK y \in Marked(ts) : y[1] < at /\ x = <<y[1], Least(y[2], at), y[3]>>
    BY DEF Cut
  <2>2. PICK i \in DOMAIN ts : y = <<ts[i].st, ts[i].en, ts[i].win>>
    BY DEF Marked, Mark
  <2> QED BY <2>1, <2>2 DEF OldPieces
<1>2. ASSUME NEW i \in DOMAIN ts, ts[i].st < at
      PROVE  <<ts[i].st, Least(ts[i].en, at), ts[i].win>> \in Cut(Marked(ts), at)
  <2> DEFINE y == Mark(ts[i])
  <2>1. y \in Marked(ts)
    BY DEF Marked
  <2>2. y[1] = ts[i].st /\ y[2] = ts[i].en /\ y[3] = ts[i].win
    BY DEF Mark
  <2> HIDE DEF y
  <2> QED BY <1>2, <2>1, <2>2 DEF Cut
<1> QED BY <1>1, <1>2 DEF OldPieces

LEMMA CutUnion ==
    ASSUME NEW F, NEW at
    PROVE  Cut(UNION F, at) = UNION {Cut(Y, at) : Y \in F}
  BY DEF Cut

LEMMA StitchInvChunk ==
    ASSUME StitchInv, StitchChunk
    PROVE  StitchInv'
<1> DEFINE w == chunk_specs(rec)[c]
           at == StitchTime(rec, w)
<1>1. /\ stage = "chunks" /\ c \in Nat \ {0} /\ c <= Windows(rec) /\ Windows(rec) \in Nat
      /\ rec \in Recordings /\ rec' = rec /\ stage' = "chunks" /\ c' = c + 1
      /\ w \in [st : Nat, en : Nat] /\ w.en <= rec.total /\ rec.total \in Nat
  <2>1. rec \in Recordings /\ c \in Nat \ {0}
    BY DEF StitchInv, RecordingOK
  <2>2. /\ Windows(rec) \in Nat /\ Len(chunk_specs(rec)) = Windows(rec)
        /\ DOMAIN chunk_specs(rec) = 1 .. Windows(rec)
        /\ chunk_specs(rec) \in Seq([st : Nat, en : Nat])
        /\ \A i \in DOMAIN chunk_specs(rec) : chunk_specs(rec)[i].en <= rec.total
    BY <2>1, WindowsAre
  <2>3. c <= Windows(rec) /\ stage = "chunks" /\ rec' = rec /\ stage' = "chunks" /\ c' = c + 1
    BY <2>2 DEF StitchChunk
  <2>4. c \in 1 .. Windows(rec)
    BY <2>1, <2>2, <2>3
  <2>5. w \in [st : Nat, en : Nat]
    BY <2>2, <2>4, ElementOfSeq
  <2>6. rec.total \in Nat
    BY <2>1, StepIs
  <2>7. w.en <= rec.total
    BY <2>2, <2>4
  <2> HIDE DEF w
  <2> QED BY <2>1, <2>2, <2>3, <2>5, <2>6, <2>7
<1>2. /\ heard \in Seq(Seq(Turn)) /\ Len(heard) = c - 1 /\ maps \in Seq(Maps) /\ Len(maps) = c - 1
      /\ turns \in Seq(Turn) /\ Marked(turns) = AllParts(heard, maps)
  BY <1>1 DEF StitchInv
<1>3. PICK out \in Outputs :
        LET ts == parse_nemo_preds(Audible(out, w), c, w)
        IN  /\ heard' = Append(heard, ts)
            /\ IF ts = <<>> THEN turns' = turns /\ maps' = Append(maps, <<>>)
               ELSE IF c = 1 \/ turns = <<>>
               THEN turns' = turns \o ts /\ maps' = Append(maps, <<>>)
               ELSE \E sim \in [LabelsOf(ts) -> LabelsOf(turns) \cup {-1}] :
                        LET m == spk_map(ts, turns, w.st, w.st + rec.overlap, sim)
                        IN  /\ maps' = Append(maps, m)
                            /\ turns' = JoinAt(turns, ts, m, at)
  BY Zenon DEF StitchChunk
<1> DEFINE ts == parse_nemo_preds(Audible(out, w), c, w)
<1>4. /\ ts \in Seq(Turn)
      /\ \A i \in DOMAIN ts : ts[i].st < ts[i].en /\ ts[i].en <= rec.total /\ ts[i].win = c
  <2>1. /\ ts \in Seq(Turn)
        /\ \A i \in DOMAIN ts : ts[i].st < ts[i].en /\ ts[i].en <= w.en /\ ts[i].win = c
    <3>1. c \in Nat /\ w \in [st : Nat, en : Nat]
      BY <1>1
    <3> HIDE DEF w
    <3> QED BY <3>1, ParseIs
  <2>2. \A i \in DOMAIN ts : ts[i].en \in Nat
    <3> SUFFICES ASSUME NEW i \in DOMAIN ts PROVE ts[i].en \in Nat
      OBVIOUS
    <3>1. ts[i] \in Turn
      <4> HIDE DEF ts
      <4> QED BY <2>1
    <3> HIDE DEF ts
    <3> QED BY <3>1 DEF Turn
  <2>3. w.en \in Nat
    BY <1>1
  <2> HIDE DEF ts, w
  <2> QED BY <1>1, <2>1, <2>2, <2>3
<1>5. heard' = Append(heard, ts)
  BY <1>3
<1>6. /\ heard' \in Seq(Seq(Turn)) /\ Len(heard') = c' - 1
      /\ RecordingOK' /\ c' \in Nat \ {0} /\ c' - 1 <= Windows(rec)'
  <2>1. heard' \in Seq(Seq(Turn)) /\ Len(heard') = (c - 1) + 1
    <3> HIDE DEF ts
    <3> QED BY <1>2, <1>4, <1>5
  <2>2. Windows(rec)' = Windows(rec)
    BY <1>1
  <2> QED BY <1>1, <2>1, <2>2 DEF RecordingOK
<1> DEFINE Rest(more) == (UNION {Part(heard[n], n, From(more, n), UpTo(more, n)) : n \in DOMAIN heard})
                         \cup Part(ts, c, From(more, c), UpTo(more, c))
<1>7. ASSUME NEW more PROVE AllParts(heard', more) = Rest(more)
  <2>1. Len(heard) + 1 = c
    BY <1>1, <1>2
  <2> HIDE DEF ts
  <2> QED BY <1>2, <1>4, <1>5, <2>1, PartsAppend
<1>8. ASSUME NEW m \in Maps
      PROVE  LET more == Append(maps, m)
             IN  /\ at \in Nat
                 /\ \A n \in DOMAIN heard :
                       /\ From(more, n) = From(maps, n)
                       /\ From(maps, n) \in Nat /\ UpTo(maps, n) \in Nat
                       /\ UpTo(more, n) = IF m = <<>> THEN UpTo(maps, n) ELSE Least(UpTo(maps, n), at)
                 /\ From(more, c) = IF m = <<>> THEN 0 ELSE at
                 /\ UpTo(more, c) = rec.total
                 /\ more \in Seq(Maps) /\ Len(more) = c' - 1
  <2>1. Len(maps) + 1 = c /\ Len(maps) < Windows(rec) /\ DOMAIN heard = 1 .. Len(maps)
    BY <1>1, <1>2
  <2>2. RecordingOK
    BY DEF StitchInv
  <2>3. Append(maps, m) \in Seq(Maps) /\ Len(Append(maps, m)) = Len(maps) + 1
    BY <1>2
  <2>4. Len(Append(maps, m)) = c' - 1
    BY <1>1, <2>1, <2>3
  <2> QED BY <1>2, <2>1, <2>2, <2>3, <2>4, TrustAppend
<1> HIDE DEF ts, at, w
\* A window in which nobody was heard before, or nobody is heard.
<1>9. ASSUME maps' = Append(maps, <<>>), turns' \in Seq(Turn),
             Marked(turns') = Marked(turns) \cup Marked(ts)
      PROVE  /\ turns' \in Seq(Turn) /\ Marked(turns') = AllParts(heard', maps')
             /\ maps' \in Seq(Maps) /\ Len(maps') = c' - 1
  <2>1. <<>> \in Maps
    <3>1. <<>> \in [{} -> Nat]
      OBVIOUS
    <3> QED BY <3>1 DEF Maps
  <2>2. Part(ts, c, From(maps', c), UpTo(maps', c)) = Marked(ts)
    <3>1. From(maps', c) = 0 /\ UpTo(maps', c) = rec.total
      BY <1>8, <1>9, <2>1
    <3>2. Part(ts, c, 0, rec.total) = Marked(ts)
      BY <1>1, <1>4, PartRest
    <3> QED BY <3>1, <3>2
  <2>3. \A n \in DOMAIN heard : From(maps', n) = From(maps, n) /\ UpTo(maps', n) = UpTo(maps, n)
    BY <1>8, <1>9, <2>1
  <2>4. UNION {Part(heard[n], n, From(maps', n), UpTo(maps', n)) : n \in DOMAIN heard} = AllParts(heard, maps)
    BY <2>3 DEF AllParts
  <2>5. AllParts(heard', maps') = Marked(turns) \cup Marked(ts)
    BY <1>2, <1>7, <2>2, <2>4
  <2> QED BY <1>8, <1>9, <2>1, <2>5
\* A window whose speakers were matched.
<1>10. ASSUME NEW m \in [LabelsOf(ts) -> Nat], ts # <<>>,
              maps' = Append(maps, m), turns' = JoinAt(turns, ts, m, at)
       PROVE  /\ turns' \in Seq(Turn) /\ Marked(turns') = AllParts(heard', maps')
              /\ maps' \in Seq(Maps) /\ Len(maps') = c' - 1
  <2>1. m \in Maps /\ m # <<>>
    <3>1. LabelsOf(ts) \in SUBSET Nat /\ LabelsOf(ts) # {}
      <4>1. 1 \in DOMAIN ts
        BY <1>4, <1>10
      <4> QED BY <1>4, <4>1, LabelsAre
    <3>2. DOMAIN m = LabelsOf(ts)
      OBVIOUS
    <3> QED BY <3>1, <3>2 DEF Maps
  <2>2. at \in Nat
    BY <1>8, <2>1
  <2>3. /\ turns' \in Seq(Turn)
        /\ Marked(turns') = OldPieces(turns, at) \cup NewPieces(ts, at)
    <3> DEFINE s == ts
               g == turns
               a == at
    <3>1. g \in Seq(Turn) /\ s \in Seq(Turn) /\ m \in [LabelsOf(s) -> Nat] /\ a \in Nat
      BY <1>2, <1>4, <2>2
    <3> HIDE DEF s, g, a
    <3>2. /\ JoinAt(g, s, m, a) \in Seq(Turn)
          /\ Marked(JoinAt(g, s, m, a)) = OldPieces(g, a) \cup NewPieces(s, a)
      BY <3>1, JoinAtIs, ZenonT(60)
    <3>3. turns' = JoinAt(g, s, m, a)
      BY <1>10 DEF g, s, a
    <3> QED BY <3>2, <3>3 DEF g, s, a
  <2>4. OldPieces(turns, at) = Cut(Marked(turns), at)
    BY CutMarked
  <2>5. NewPieces(ts, at) = Part(ts, c, From(maps', c), UpTo(maps', c))
    <3>1. From(maps', c) = at /\ UpTo(maps', c) = rec.total
      BY <1>8, <1>10, <2>1
    <3>2. Part(ts, c, at, rec.total) = NewPieces(ts, at)
      BY <1>1, <1>4, <2>2, PartRest
    <3> QED BY <3>1, <3>2
  <2>6. Cut(AllParts(heard, maps), at)
          = UNION {Part(heard[n], n, From(maps', n), UpTo(maps', n)) : n \in DOMAIN heard}
    <3>1. ASSUME NEW n \in DOMAIN heard
          PROVE  Part(heard[n], n, From(maps', n), UpTo(maps', n))
                    = Cut(Part(heard[n], n, From(maps, n), UpTo(maps, n)), at)
      <4>1. /\ From(maps', n) = From(maps, n) /\ UpTo(maps', n) = Least(UpTo(maps, n), at)
            /\ From(maps, n) \in Nat /\ UpTo(maps, n) \in Nat
        BY <1>8, <1>10, <2>1
      <4>2. heard[n] \in Seq(Turn)
        BY <1>2, ElementOfSeq
      <4> QED BY <2>2, <4>1, <4>2, PartCut
    <3>2. Cut(AllParts(heard, maps), at)
            = UNION {Cut(Part(heard[n], n, From(maps, n), UpTo(maps, n)), at) : n \in DOMAIN heard}
      <4> DEFINE F == {Part(heard[n], n, From(maps, n), UpTo(maps, n)) : n \in DOMAIN heard}
      <4>1. Cut(AllParts(heard, maps), at) = UNION {Cut(Y, at) : Y \in F}
        BY CutUnion DEF AllParts
      <4>2. {Cut(Y, at) : Y \in F}
              = {Cut(Part(heard[n], n, From(maps, n), UpTo(maps, n)), at) : n \in DOMAIN heard}
        BY Zenon
      <4> QED BY <4>1, <4>2, Zenon
    <3> QED BY <3>1, <3>2, Zenon
  <2>7. Marked(turns') = AllParts(heard', maps')
    BY <1>2, <1>7, <2>3, <2>4, <2>5, <2>6
  <2> QED BY <1>8, <1>10, <2>1, <2>3, <2>7
<1>11. /\ turns' \in Seq(Turn) /\ Marked(turns') = AllParts(heard', maps')
       /\ maps' \in Seq(Maps) /\ Len(maps') = c' - 1
  <2>1. CASE ts = <<>>
    <3>1. turns' = turns /\ maps' = Append(maps, <<>>)
      BY <1>3, <2>1 DEF ts
    <3>2. Marked(ts) = {}
      BY <2>1 DEF Marked
    <3> QED BY <1>2, <1>9, <3>1, <3>2
  <2>2. CASE ts # <<>> /\ (c = 1 \/ turns = <<>>)
    <3>1. turns' = turns \o ts /\ maps' = Append(maps, <<>>)
      BY <1>3, <2>2 DEF ts
    <3>2. turns' \in Seq(Turn) /\ Marked(turns') = Marked(turns) \cup Marked(ts)
      BY <1>2, <1>4, <3>1, MarkedConcat
    <3> QED BY <1>9, <3>1, <3>2
  <2>3. CASE ts # <<>> /\ ~ (c = 1 \/ turns = <<>>)
    <3>1. PICK sim \in [LabelsOf(ts) -> LabelsOf(turns) \cup {-1}] :
             LET m == spk_map(ts, turns, w.st, w.st + rec.overlap, sim)
             IN  maps' = Append(maps, m) /\ turns' = JoinAt(turns, ts, m, at)
      BY <1>3, <2>3 DEF ts, at
    <3> DEFINE m == spk_map(ts, turns, w.st, w.st + rec.overlap, sim)
    <3>2. m \in [LabelsOf(ts) -> Nat]
      BY <1>2, <1>4, SpkMapIs
    <3>3. maps' = Append(maps, m) /\ turns' = JoinAt(turns, ts, m, at)
      BY <3>1
    <3> HIDE DEF m
    <3> QED BY <1>10, <2>3, <3>2, <3>3
  <2> QED BY <2>1, <2>2, <2>3
<1>12. AllParts(heard, maps)' = AllParts(heard', maps')
  BY <1>1 DEF AllParts, From, UpTo, Limits
<1> QED BY <1>1, <1>6, <1>11, <1>12 DEF StitchInv

\* ConsolidateTurns and AssignSpeakers come after the last window.
LEMMA StitchInvAfter ==
    ASSUME StitchInv, UNCHANGED <<rec, c, heard, maps>>,
           stage' # "chunks" \/ (stage' = stage /\ turns' = turns)
    PROVE  StitchInv'
<1>1. AllParts(heard, maps)' = AllParts(heard, maps)
  BY DEF AllParts, From, UpTo, Limits
<1>2. Windows(rec)' = Windows(rec) /\ RecordingOK'
  BY DEF StitchInv, RecordingOK
<1>3. /\ c' \in Nat \ {0} /\ c' - 1 <= Windows(rec)
      /\ heard' \in Seq(Seq(Turn)) /\ Len(heard') = c' - 1
      /\ maps' \in Seq(Maps) /\ Len(maps') = c' - 1
  BY DEF StitchInv
<1>4. stage' = "chunks" => turns' \in Seq(Turn) /\ Marked(turns') = AllParts(heard, maps)
  BY DEF StitchInv
<1> QED BY <1>1, <1>2, <1>3, <1>4 DEF StitchInv

LEMMA StitchInvNext == StitchInv /\ [StitchNext]_stitchVars => StitchInv'
<1> SUFFICES ASSUME StitchInv, [StitchNext]_stitchVars PROVE StitchInv'
  OBVIOUS
<1>1. CASE StitchChunk
  BY <1>1, StitchInvChunk
<1>2. CASE ConsolidateTurns
  BY <1>2, StitchInvAfter DEF ConsolidateTurns
<1>3. CASE AssignSpeakers
  BY <1>3, StitchInvAfter DEF AssignSpeakers
<1>4. CASE UNCHANGED stitchVars
  BY <1>4, StitchInvAfter DEF stitchVars
<1> QED BY <1>1, <1>2, <1>3, <1>4 DEF StitchNext

LEMMA StitchInvAlways == StitchSpec => []StitchInv
<1>1. StitchInit => StitchInv
  BY StitchInvInit
<1> QED BY <1>1, StitchInvNext, PTL DEF StitchSpec

\* Whatever Sortformer hears in which window, however many windows there are and
\* whoever is matched with whom: stitching keeps of every turn exactly the part
\* its window answers for, none of it twice and none of it lost.
THEOREM StitchingIsExact == StitchSpec => []StitchedOnce
<1>1. StitchInv => StitchedOnce
  <2> SUFFICES ASSUME StitchInv, stage = "chunks"
               PROVE  ToSet([i \in DOMAIN turns |-> <<turns[i].st, turns[i].en, turns[i].win>>]) =
                      UNION {LET lo == TrustedFrom(n)
                                 hi == TrustedUpTo(n)
                             IN  {<<Most(heard[n][i].st, lo), Least(heard[n][i].en, hi), n>> :
                                     i \in {i \in DOMAIN heard[n] : Clip(heard[n][i], lo, hi) > 0}} :
                             n \in DOMAIN heard}
    BY DEF StitchedOnce
  <2>1. ToSet([i \in DOMAIN turns |-> <<turns[i].st, turns[i].en, turns[i].win>>]) = Marked(turns)
    BY Zenon DEF ToSet, Marked, Mark
  <2>2. \A n : TrustedFrom(n) = From(maps, n) /\ TrustedUpTo(n) = UpTo(maps, n)
    BY Zenon DEF TrustedFrom, TrustedUpTo, From, UpTo, Limits
  <2>3. Marked(turns) = AllParts(heard, maps)
    BY DEF StitchInv
  <2>4. AllParts(heard, maps) = UNION {Part(heard[n], n, TrustedFrom(n), TrustedUpTo(n)) : n \in DOMAIN heard}
    BY <2>2, Zenon DEF AllParts
  <2> QED BY <2>1, <2>3, <2>4, Zenon DEF Part
<1> QED BY <1>1, StitchInvAlways, PTL

\* Two speakers of one window are never given one label while the labels in use
\* are numbered without a gap, for any number of speakers and any scores.
THEOREM SpeakersStayApart == StitchSpec => LabelsApart
<1>1. StitchInv /\ [StitchNext]_stitchVars
      => [(c' = c + 1 /\ LabelsOf(turns) = 0 .. Cardinality(LabelsOf(turns)) - 1)
             => IsInjective(maps'[c])]_stitchVars
  <2> SUFFICES ASSUME StitchInv, StitchNext, c' = c + 1,
                      LabelsOf(turns) = 0 .. Cardinality(LabelsOf(turns)) - 1
               PROVE  IsInjective(maps'[c])
    BY DEF stitchVars
  <2>1. c \in Nat /\ maps \in Seq(Maps) /\ Len(maps) + 1 = c /\ rec \in Recordings
    BY DEF StitchInv, RecordingOK
  <2>2. StitchChunk
    <3>1. c + 1 # c
      BY <2>1
    <3> QED BY <3>1 DEF StitchNext, ConsolidateTurns, AssignSpeakers
  <2>3. stage = "chunks" /\ turns \in Seq(Turn)
    BY <2>2 DEF StitchInv, StitchChunk
  <2> DEFINE w == chunk_specs(rec)[c]
  <2>4. PICK out \in Outputs :
          LET ts == parse_nemo_preds(Audible(out, w), c, w)
          IN  \/ maps' = Append(maps, <<>>)
              \/ \E sim : maps' = Append(maps, spk_map(ts, turns, w.st, w.st + rec.overlap, sim))
    BY <2>2, Zenon DEF StitchChunk
  <2> DEFINE ts == parse_nemo_preds(Audible(out, w), c, w)
  <2>5. ts \in Seq(Turn)
    <3>1. w \in [st : Nat, en : Nat]
      <4>1. /\ chunk_specs(rec) \in Seq([st : Nat, en : Nat])
            /\ Len(chunk_specs(rec)) \in Nat
        BY <2>1, WindowsAre
      <4>2. c \in 1 .. Len(chunk_specs(rec))
        BY <2>1, <2>2, <4>1 DEF StitchChunk
      <4> QED BY <4>1, <4>2, ElementOfSeq
    <3> HIDE DEF w
    <3> QED BY <2>1, <3>1, ParseIs
  <2> HIDE DEF ts, w
  <2>6. ASSUME NEW m, maps' = Append(maps, m) PROVE maps'[c] = m
    BY <2>1, <2>6
  <2>7. CASE maps' = Append(maps, <<>>)
    <3>1. maps'[c] = <<>>
      BY <2>6, <2>7
    <3> QED BY <3>1 DEF IsInjective
  <2>8. CASE \E sim : maps' = Append(maps, spk_map(ts, turns, w.st, w.st + rec.overlap, sim))
    <3>1. PICK sim : maps' = Append(maps, spk_map(ts, turns, w.st, w.st + rec.overlap, sim))
      BY <2>8
    <3> DEFINE m == spk_map(ts, turns, w.st, w.st + rec.overlap, sim)
    <3>2. IsInjective(m)
      BY <2>3, <2>5, SpkMapIs
    <3>3. maps'[c] = m
      BY <2>6, <3>1
    <3> QED BY <3>2, <3>3
  <2> QED BY <2>4, <2>7, <2>8 DEF ts
<1> QED BY <1>1, StitchInvAlways, PTL DEF StitchSpec, LabelsApart

-----------------------------------------------------------------------------
(* The folds of consolidation and assignment, as iterations.  Sorting,     *)
(* Pausing, Filling, Pairing and Refining are what h must be for           *)
(* MapThenFoldSet to pick it.                                              *)

Sorting(h, ts) ==
    LET q == ts
    IN  h = [s \in SUBSET DOMAIN q |->
                IF s = {} THEN <<>> ELSE InsertByStart(h[s \ {Max(s)}], q[Max(s)])]

\* What FoldLeft makes of InsertByStart, for any set T that InsertByStart stays in.
LEMMA SortingFold ==
    ASSUME NEW ts, NEW U, ts \in Seq(U),
           NEW T, <<>> \in T, \A x \in T : \A i \in 1 .. Len(ts) : InsertByStart(x, ts[i]) \in T
    PROVE  \E g \in [0 .. Len(ts) -> T] :
               /\ g[0] = <<>> /\ g[Len(ts)] = ByStart(ts)
               /\ \A m \in 1 .. Len(ts) : g[m] = InsertByStart(g[m - 1], ts[m])
<1> DEFINE q == ts
           n == Len(ts)
           b == <<>>
           step == [p \in T \X (1 .. n) |-> InsertByStart(p[1], q[p[2]])]
           f == CHOOSE h : Sorting(h, ts)
<1>1. ByStart(ts) = f[DOMAIN q]
  BY Zenon DEF ByStart, FoldLeft, MapThenFoldSet, Sorting
<1>2. n \in Nat /\ DOMAIN q = 1 .. n /\ \A i \in 1 .. n : q[i] = ts[i]
  BY LenProperties
<1> HIDE DEF n, q, b
<1>3. step \in [T \X (1 .. n) -> T] /\ b \in T
  <2>1. \A x \in T : \A i \in 1 .. n : InsertByStart(x, q[i]) \in T
    BY <1>2 DEF n
  <2> QED BY <2>1 DEF b
<1>4. \A x \in T : \A i \in 1 .. n : step[<<x, i>>] = InsertByStart(x, q[i])
  OBVIOUS
<1> HIDE DEF step
<1>5. \A s \in SUBSET (1 .. n) : s # {} => Max(s) \in 1 .. n /\ s \ {Max(s)} \in SUBSET (1 .. n)
  BY <1>2, MaxUpTo
<1>6. \E h : Sorting(h, ts)
  <2>1. PICK h \in [SUBSET (1 .. n) -> T] : IsFold(h, n, b, step)
    BY <1>2, <1>3, FoldExists
  <2>2. ASSUME NEW s \in SUBSET (1 .. n), s # {}
        PROVE  h[s] = InsertByStart(h[s \ {Max(s)}], q[Max(s)])
    <3>1. h[s \ {Max(s)}] \in T /\ Max(s) \in 1 .. n
      BY <1>5, <2>1, <2>2
    <3>2. h[s] = step[<<h[s \ {Max(s)}], Max(s)>>]
      BY <2>1, <2>2, Zenon DEF IsFold
    <3> QED BY <1>4, <3>1, <3>2, Zenon
  <2>3. h[{}] = b
    BY <2>1 DEF IsFold
  <2>4. h = [s \in SUBSET (1 .. n) |-> h[s]]
    BY <2>1
  <2>5. h = [s \in SUBSET (1 .. n) |->
                IF s = {} THEN b ELSE InsertByStart(h[s \ {Max(s)}], q[Max(s)])]
    BY <2>2, <2>3, <2>4, Zenon
  <2>6. h = [s \in SUBSET DOMAIN q |->
                IF s = {} THEN b ELSE InsertByStart(h[s \ {Max(s)}], q[Max(s)])]
    BY <1>2, <2>5, Zenon
  <2>7. Sorting(h, ts)
    BY <2>6, Zenon DEF Sorting, q, b
  <2> QED BY <2>7, Zenon
<1>7. f = [s \in SUBSET (1 .. n) |->
              IF s = {} THEN b ELSE InsertByStart(f[s \ {Max(s)}], q[Max(s)])]
  <2>1. Sorting(f, ts)
    BY <1>6, Zenon
  <2> HIDE DEF f
  <2>2. f = [s \in SUBSET DOMAIN q |->
                IF s = {} THEN b ELSE InsertByStart(f[s \ {Max(s)}], q[Max(s)])]
    BY <2>1, Zenon DEF Sorting, q, b
  <2> QED BY <1>2, <2>2, Zenon
<1> HIDE DEF f
<1>8. {} \in SUBSET (1 .. n)
  OBVIOUS
<1>9. f[{}] = b
  BY <1>7, <1>8, Zenon
<1>10. ASSUME NEW s \in SUBSET (1 .. n), s # {}, f[s \ {Max(s)}] \in T
       PROVE  f[s] = step[<<f[s \ {Max(s)}], Max(s)>>]
  <2>1. f[s] = InsertByStart(f[s \ {Max(s)}], q[Max(s)])
    BY <1>7, <1>10, Zenon
  <2> QED BY <1>4, <1>5, <1>10, <2>1, Zenon
<1>11. PICK g \in [0 .. n -> T] : Iterates(g, n, b, step, f[1 .. n])
  <2>1. IsFoldIn(f, n, b, step, T)
    BY <1>9, <1>10, Zenon DEF IsFoldIn
  <2> QED BY <1>2, <1>3, <2>1, FoldValues
<1>12. ASSUME NEW m \in 1 .. n PROVE g[m] = InsertByStart(g[m - 1], ts[m])
  <2>1. m - 1 \in 0 .. n
    BY <1>2
  <2>2. g[m - 1] \in T /\ g[m] = step[<<g[m - 1], m>>]
    BY <1>11, <2>1 DEF Iterates
  <2> QED BY <1>2, <1>4, <2>2, ZenonT(60)
<1>13. g[0] = b /\ g[n] = ByStart(ts)
  BY <1>1, <1>2, <1>11, Zenon DEF Iterates
<1> QED BY <1>11, <1>12, <1>13, Zenon DEF n, b

Pausing(h, ts, gap) ==
    LET q == ts
    IN  h = [s \in SUBSET DOMAIN q |->
                IF s = {} THEN <<>> ELSE JoinPause(h[s \ {Max(s)}], q[Max(s)], gap)]

\* The same for JoinPause.
LEMMA JoinPauseFold ==
    ASSUME NEW ts, NEW U, ts \in Seq(U), NEW gap,
           NEW T, <<>> \in T, \A x \in T : \A i \in 1 .. Len(ts) : JoinPause(x, ts[i], gap) \in T
    PROVE  \E g \in [0 .. Len(ts) -> T] :
               /\ g[0] = <<>> /\ g[Len(ts)] = JoinPauses(ts, gap)
               /\ \A m \in 1 .. Len(ts) : g[m] = JoinPause(g[m - 1], ts[m], gap)
<1> DEFINE q == ts
           n == Len(ts)
           b == <<>>
           step == [p \in T \X (1 .. n) |-> JoinPause(p[1], q[p[2]], gap)]
           f == CHOOSE h : Pausing(h, ts, gap)
<1>1. JoinPauses(ts, gap) = f[DOMAIN q]
  BY Zenon DEF JoinPauses, FoldLeft, MapThenFoldSet, Pausing
<1>2. n \in Nat /\ DOMAIN q = 1 .. n /\ \A i \in 1 .. n : q[i] = ts[i]
  BY LenProperties
<1> HIDE DEF n, q, b
<1>3. step \in [T \X (1 .. n) -> T] /\ b \in T
  <2>1. \A x \in T : \A i \in 1 .. n : JoinPause(x, q[i], gap) \in T
    BY <1>2 DEF n
  <2> QED BY <2>1 DEF b
<1>4. \A x \in T : \A i \in 1 .. n : step[<<x, i>>] = JoinPause(x, q[i], gap)
  OBVIOUS
<1> HIDE DEF step
<1>5. \A s \in SUBSET (1 .. n) : s # {} => Max(s) \in 1 .. n /\ s \ {Max(s)} \in SUBSET (1 .. n)
  BY <1>2, MaxUpTo
<1>6. \E h : Pausing(h, ts, gap)
  <2>1. PICK h \in [SUBSET (1 .. n) -> T] : IsFold(h, n, b, step)
    BY <1>2, <1>3, FoldExists
  <2>2. ASSUME NEW s \in SUBSET (1 .. n), s # {}
        PROVE  h[s] = JoinPause(h[s \ {Max(s)}], q[Max(s)], gap)
    <3>1. h[s \ {Max(s)}] \in T /\ Max(s) \in 1 .. n
      BY <1>5, <2>1, <2>2
    <3>2. h[s] = step[<<h[s \ {Max(s)}], Max(s)>>]
      BY <2>1, <2>2, Zenon DEF IsFold
    <3> QED BY <1>4, <3>1, <3>2, Zenon
  <2>3. h[{}] = b
    BY <2>1 DEF IsFold
  <2>4. h = [s \in SUBSET (1 .. n) |-> h[s]]
    BY <2>1
  <2>5. h = [s \in SUBSET (1 .. n) |->
                IF s = {} THEN b ELSE JoinPause(h[s \ {Max(s)}], q[Max(s)], gap)]
    BY <2>2, <2>3, <2>4, Zenon
  <2>6. h = [s \in SUBSET DOMAIN q |->
                IF s = {} THEN b ELSE JoinPause(h[s \ {Max(s)}], q[Max(s)], gap)]
    BY <1>2, <2>5, Zenon
  <2>7. Pausing(h, ts, gap)
    BY <2>6, Zenon DEF Pausing, q, b
  <2> QED BY <2>7, Zenon
<1>7. f = [s \in SUBSET (1 .. n) |->
              IF s = {} THEN b ELSE JoinPause(f[s \ {Max(s)}], q[Max(s)], gap)]
  <2>1. Pausing(f, ts, gap)
    BY <1>6, Zenon
  <2> HIDE DEF f
  <2>2. f = [s \in SUBSET DOMAIN q |->
                IF s = {} THEN b ELSE JoinPause(f[s \ {Max(s)}], q[Max(s)], gap)]
    BY <2>1, Zenon DEF Pausing, q, b
  <2> QED BY <1>2, <2>2, Zenon
<1> HIDE DEF f
<1>8. {} \in SUBSET (1 .. n)
  OBVIOUS
<1>9. f[{}] = b
  BY <1>7, <1>8, Zenon
<1>10. ASSUME NEW s \in SUBSET (1 .. n), s # {}, f[s \ {Max(s)}] \in T
       PROVE  f[s] = step[<<f[s \ {Max(s)}], Max(s)>>]
  <2>1. f[s] = JoinPause(f[s \ {Max(s)}], q[Max(s)], gap)
    BY <1>7, <1>10, Zenon
  <2> QED BY <1>4, <1>5, <1>10, <2>1, Zenon
<1>11. PICK g \in [0 .. n -> T] : Iterates(g, n, b, step, f[1 .. n])
  <2>1. IsFoldIn(f, n, b, step, T)
    BY <1>9, <1>10, Zenon DEF IsFoldIn
  <2> QED BY <1>2, <1>3, <2>1, FoldValues
<1>12. ASSUME NEW m \in 1 .. n PROVE g[m] = JoinPause(g[m - 1], ts[m], gap)
  <2>1. m - 1 \in 0 .. n
    BY <1>2
  <2>2. g[m - 1] \in T /\ g[m] = step[<<g[m - 1], m>>]
    BY <1>11, <2>1 DEF Iterates
  <2> QED BY <1>2, <1>4, <2>2, ZenonT(60)
<1>13. g[0] = b /\ g[n] = JoinPauses(ts, gap)
  BY <1>1, <1>2, <1>11, Zenon DEF Iterates
<1> QED BY <1>11, <1>12, <1>13, Zenon DEF n, b

Filling(h, ws) ==
    LET q == [i \in DOMAIN ws |-> i]
    IN  h = [s \in SUBSET DOMAIN q |->
                IF s = {} THEN ws ELSE FillAt(h[s \ {Max(s)}], q[Max(s)])]

\* The same for FillAt.
LEMMA FillFold ==
    ASSUME NEW ws, NEW U, ws \in Seq(U),
           NEW T, ws \in T, \A x \in T : \A i \in 1 .. Len(ws) : FillAt(x, i) \in T
    PROVE  \E g \in [0 .. Len(ws) -> T] :
               /\ g[0] = ws /\ g[Len(ws)] = Filled(ws)
               /\ \A m \in 1 .. Len(ws) : g[m] = FillAt(g[m - 1], m)
<1> DEFINE q == [i \in DOMAIN ws |-> i]
           n == Len(ws)
           b == ws
           step == [p \in T \X (1 .. n) |-> FillAt(p[1], q[p[2]])]
           f == CHOOSE h : Filling(h, ws)
<1>1. Filled(ws) = f[DOMAIN q]
  BY Zenon DEF Filled, FoldLeftDomain, FoldLeft, MapThenFoldSet, Filling
<1>2. n \in Nat /\ DOMAIN q = 1 .. n /\ \A i \in 1 .. n : q[i] = i
  BY LenProperties
<1> HIDE DEF n, q, b
<1>3. step \in [T \X (1 .. n) -> T] /\ b \in T
  <2>1. \A x \in T : \A i \in 1 .. n : FillAt(x, q[i]) \in T
    BY <1>2 DEF n
  <2> QED BY <2>1 DEF b
<1>4. \A x \in T : \A i \in 1 .. n : step[<<x, i>>] = FillAt(x, q[i])
  OBVIOUS
<1> HIDE DEF step
<1>5. \A s \in SUBSET (1 .. n) : s # {} => Max(s) \in 1 .. n /\ s \ {Max(s)} \in SUBSET (1 .. n)
  BY <1>2, MaxUpTo
<1>6. \E h : Filling(h, ws)
  <2>1. PICK h \in [SUBSET (1 .. n) -> T] : IsFold(h, n, b, step)
    BY <1>2, <1>3, FoldExists
  <2>2. ASSUME NEW s \in SUBSET (1 .. n), s # {}
        PROVE  h[s] = FillAt(h[s \ {Max(s)}], q[Max(s)])
    <3>1. h[s \ {Max(s)}] \in T /\ Max(s) \in 1 .. n
      BY <1>5, <2>1, <2>2
    <3>2. h[s] = step[<<h[s \ {Max(s)}], Max(s)>>]
      BY <2>1, <2>2, Zenon DEF IsFold
    <3> QED BY <1>4, <3>1, <3>2, Zenon
  <2>3. h[{}] = b
    BY <2>1 DEF IsFold
  <2>4. h = [s \in SUBSET (1 .. n) |-> h[s]]
    BY <2>1
  <2>5. h = [s \in SUBSET (1 .. n) |->
                IF s = {} THEN b ELSE FillAt(h[s \ {Max(s)}], q[Max(s)])]
    BY <2>2, <2>3, <2>4, Zenon
  <2>6. h = [s \in SUBSET DOMAIN q |->
                IF s = {} THEN b ELSE FillAt(h[s \ {Max(s)}], q[Max(s)])]
    BY <1>2, <2>5, Zenon
  <2>7. Filling(h, ws)
    BY <2>6, Zenon DEF Filling, q, b
  <2> QED BY <2>7, Zenon
<1>7. f = [s \in SUBSET (1 .. n) |->
              IF s = {} THEN b ELSE FillAt(f[s \ {Max(s)}], q[Max(s)])]
  <2>1. Filling(f, ws)
    BY <1>6, Zenon
  <2> HIDE DEF f
  <2>2. f = [s \in SUBSET DOMAIN q |->
                IF s = {} THEN b ELSE FillAt(f[s \ {Max(s)}], q[Max(s)])]
    BY <2>1, Zenon DEF Filling, q, b
  <2> QED BY <1>2, <2>2, Zenon
<1> HIDE DEF f
<1>8. {} \in SUBSET (1 .. n)
  OBVIOUS
<1>9. f[{}] = b
  BY <1>7, <1>8, Zenon
<1>10. ASSUME NEW s \in SUBSET (1 .. n), s # {}, f[s \ {Max(s)}] \in T
       PROVE  f[s] = step[<<f[s \ {Max(s)}], Max(s)>>]
  <2>1. f[s] = FillAt(f[s \ {Max(s)}], q[Max(s)])
    BY <1>7, <1>10, Zenon
  <2> QED BY <1>4, <1>5, <1>10, <2>1, Zenon
<1>11. PICK g \in [0 .. n -> T] : Iterates(g, n, b, step, f[1 .. n])
  <2>1. IsFoldIn(f, n, b, step, T)
    BY <1>9, <1>10, Zenon DEF IsFoldIn
  <2> QED BY <1>2, <1>3, <2>1, FoldValues
<1>12. ASSUME NEW m \in 1 .. n PROVE g[m] = FillAt(g[m - 1], m)
  <2>1. m - 1 \in 0 .. n
    BY <1>2
  <2>2. g[m - 1] \in T /\ g[m] = step[<<g[m - 1], m>>]
    BY <1>11, <2>1 DEF Iterates
  <2> QED BY <1>2, <1>4, <2>2, ZenonT(60)
<1>13. g[0] = b /\ g[n] = Filled(ws)
  BY <1>1, <1>2, <1>11, Zenon DEF Iterates
<1> QED BY <1>11, <1>12, <1>13, Zenon DEF n, b

Pairing(h, ws, direct) ==
    LET q == [i \in DOMAIN ws |-> i]
    IN  h = [s \in SUBSET DOMAIN q |->
                IF s = {} THEN ws ELSE PairAt(h[s \ {Max(s)}], q[Max(s)], direct)]

PairsUpTo(g, ws, direct, T) ==
    /\ g \in [0 .. Len(ws) -> T]
    /\ g[0] = ws /\ g[Len(ws)] = Paired(ws, direct)
    /\ \A m \in 1 .. Len(ws) : g[m] = PairAt(g[m - 1], m, direct)

\* The same for PairAt.
LEMMA PairFold ==
    ASSUME NEW ws, NEW U, ws \in Seq(U), NEW direct,
           NEW T, ws \in T, \A x \in T : \A i \in 1 .. Len(ws) : PairAt(x, i, direct) \in T
    PROVE  \E g : PairsUpTo(g, ws, direct, T)
<1> DEFINE q == [i \in DOMAIN ws |-> i]
           n == Len(ws)
           b == ws
           step == [p \in T \X (1 .. n) |-> PairAt(p[1], q[p[2]], direct)]
           f == CHOOSE h : Pairing(h, ws, direct)
<1>1. Paired(ws, direct) = f[DOMAIN q]
  BY Zenon DEF Paired, FoldLeftDomain, FoldLeft, MapThenFoldSet, Pairing
<1>2. n \in Nat /\ DOMAIN q = 1 .. n /\ \A i \in 1 .. n : q[i] = i
  BY LenProperties
<1> HIDE DEF n, q, b
<1>3. step \in [T \X (1 .. n) -> T] /\ b \in T
  <2>1. \A x \in T : \A i \in 1 .. n : PairAt(x, q[i], direct) \in T
    BY <1>2 DEF n
  <2> QED BY <2>1 DEF b
<1>4. \A x \in T : \A i \in 1 .. n : step[<<x, i>>] = PairAt(x, q[i], direct)
  OBVIOUS
<1> HIDE DEF step
<1>5. \A s \in SUBSET (1 .. n) : s # {} => Max(s) \in 1 .. n /\ s \ {Max(s)} \in SUBSET (1 .. n)
  BY <1>2, MaxUpTo
<1>6. \E h : Pairing(h, ws, direct)
  <2>1. PICK h \in [SUBSET (1 .. n) -> T] : IsFold(h, n, b, step)
    BY <1>2, <1>3, FoldExists
  <2>2. ASSUME NEW s \in SUBSET (1 .. n), s # {}
        PROVE  h[s] = PairAt(h[s \ {Max(s)}], q[Max(s)], direct)
    <3>1. h[s \ {Max(s)}] \in T /\ Max(s) \in 1 .. n
      BY <1>5, <2>1, <2>2
    <3>2. h[s] = step[<<h[s \ {Max(s)}], Max(s)>>]
      BY <2>1, <2>2, Zenon DEF IsFold
    <3> QED BY <1>4, <3>1, <3>2, Zenon
  <2>3. h[{}] = b
    BY <2>1 DEF IsFold
  <2>4. h = [s \in SUBSET (1 .. n) |-> h[s]]
    BY <2>1
  <2>5. h = [s \in SUBSET (1 .. n) |->
                IF s = {} THEN b ELSE PairAt(h[s \ {Max(s)}], q[Max(s)], direct)]
    BY <2>2, <2>3, <2>4, Zenon
  <2>6. h = [s \in SUBSET DOMAIN q |->
                IF s = {} THEN b ELSE PairAt(h[s \ {Max(s)}], q[Max(s)], direct)]
    BY <1>2, <2>5, Zenon
  <2>7. Pairing(h, ws, direct)
    BY <2>6, Zenon DEF Pairing, q, b
  <2> QED BY <2>7, Zenon
<1>7. f = [s \in SUBSET (1 .. n) |->
              IF s = {} THEN b ELSE PairAt(f[s \ {Max(s)}], q[Max(s)], direct)]
  <2>1. Pairing(f, ws, direct)
    BY <1>6, Zenon
  <2> HIDE DEF f
  <2>2. f = [s \in SUBSET DOMAIN q |->
                IF s = {} THEN b ELSE PairAt(f[s \ {Max(s)}], q[Max(s)], direct)]
    BY <2>1, Zenon DEF Pairing, q, b
  <2> QED BY <1>2, <2>2, Zenon
<1> HIDE DEF f
<1>8. {} \in SUBSET (1 .. n)
  OBVIOUS
<1>9. f[{}] = b
  BY <1>7, <1>8, Zenon
<1>10. ASSUME NEW s \in SUBSET (1 .. n), s # {}, f[s \ {Max(s)}] \in T
       PROVE  f[s] = step[<<f[s \ {Max(s)}], Max(s)>>]
  <2>1. f[s] = PairAt(f[s \ {Max(s)}], q[Max(s)], direct)
    BY <1>7, <1>10, Zenon
  <2> QED BY <1>4, <1>5, <1>10, <2>1, Zenon
<1>11. PICK g \in [0 .. n -> T] : Iterates(g, n, b, step, f[1 .. n])
  <2>1. IsFoldIn(f, n, b, step, T)
    BY <1>9, <1>10, Zenon DEF IsFoldIn
  <2> QED BY <1>2, <1>3, <2>1, FoldValues
<1>12. ASSUME NEW m \in 1 .. n PROVE g[m] = PairAt(g[m - 1], m, direct)
  <2>1. m - 1 \in 0 .. n
    BY <1>2
  <2>2. g[m - 1] \in T /\ g[m] = step[<<g[m - 1], m>>]
    BY <1>11, <2>1 DEF Iterates
  <2> QED BY <1>2, <1>4, <2>2, ZenonT(60)
<1>13. g[0] = b /\ g[n] = Paired(ws, direct)
  BY <1>1, <1>2, <1>11, Zenon DEF Iterates
<1> QED BY <1>11, <1>12, <1>13, Zenon DEF n, b, PairsUpTo

Refining(h, ws) ==
    LET q == ws
    IN  h = [s \in SUBSET DOMAIN q |->
                IF s = {} THEN <<>> ELSE RefineWord(h[s \ {Max(s)}], q[Max(s)])]

\* The same for RefineWord.
LEMMA RefineFold ==
    ASSUME NEW ws, NEW U, ws \in Seq(U),
           NEW T, <<>> \in T, \A x \in T : \A i \in 1 .. Len(ws) : RefineWord(x, ws[i]) \in T
    PROVE  \E g \in [0 .. Len(ws) -> T] :
               /\ g[0] = <<>> /\ g[Len(ws)] = Refined(ws)
               /\ \A m \in 1 .. Len(ws) : g[m] = RefineWord(g[m - 1], ws[m])
<1> DEFINE q == ws
           n == Len(ws)
           b == <<>>
           step == [p \in T \X (1 .. n) |-> RefineWord(p[1], q[p[2]])]
           f == CHOOSE h : Refining(h, ws)
<1>1. Refined(ws) = f[DOMAIN q]
  BY Zenon DEF Refined, FoldLeft, MapThenFoldSet, Refining
<1>2. n \in Nat /\ DOMAIN q = 1 .. n /\ \A i \in 1 .. n : q[i] = ws[i]
  BY LenProperties
<1> HIDE DEF n, q, b
<1>3. step \in [T \X (1 .. n) -> T] /\ b \in T
  <2>1. \A x \in T : \A i \in 1 .. n : RefineWord(x, q[i]) \in T
    BY <1>2 DEF n
  <2> QED BY <2>1 DEF b
<1>4. \A x \in T : \A i \in 1 .. n : step[<<x, i>>] = RefineWord(x, q[i])
  OBVIOUS
<1> HIDE DEF step
<1>5. \A s \in SUBSET (1 .. n) : s # {} => Max(s) \in 1 .. n /\ s \ {Max(s)} \in SUBSET (1 .. n)
  BY <1>2, MaxUpTo
<1>6. \E h : Refining(h, ws)
  <2>1. PICK h \in [SUBSET (1 .. n) -> T] : IsFold(h, n, b, step)
    BY <1>2, <1>3, FoldExists
  <2>2. ASSUME NEW s \in SUBSET (1 .. n), s # {}
        PROVE  h[s] = RefineWord(h[s \ {Max(s)}], q[Max(s)])
    <3>1. h[s \ {Max(s)}] \in T /\ Max(s) \in 1 .. n
      BY <1>5, <2>1, <2>2
    <3>2. h[s] = step[<<h[s \ {Max(s)}], Max(s)>>]
      BY <2>1, <2>2, Zenon DEF IsFold
    <3> QED BY <1>4, <3>1, <3>2, Zenon
  <2>3. h[{}] = b
    BY <2>1 DEF IsFold
  <2>4. h = [s \in SUBSET (1 .. n) |-> h[s]]
    BY <2>1
  <2>5. h = [s \in SUBSET (1 .. n) |->
                IF s = {} THEN b ELSE RefineWord(h[s \ {Max(s)}], q[Max(s)])]
    BY <2>2, <2>3, <2>4, Zenon
  <2>6. h = [s \in SUBSET DOMAIN q |->
                IF s = {} THEN b ELSE RefineWord(h[s \ {Max(s)}], q[Max(s)])]
    BY <1>2, <2>5, Zenon
  <2>7. Refining(h, ws)
    BY <2>6, Zenon DEF Refining, q, b
  <2> QED BY <2>7, Zenon
<1>7. f = [s \in SUBSET (1 .. n) |->
              IF s = {} THEN b ELSE RefineWord(f[s \ {Max(s)}], q[Max(s)])]
  <2>1. Refining(f, ws)
    BY <1>6, Zenon
  <2> HIDE DEF f
  <2>2. f = [s \in SUBSET DOMAIN q |->
                IF s = {} THEN b ELSE RefineWord(f[s \ {Max(s)}], q[Max(s)])]
    BY <2>1, Zenon DEF Refining, q, b
  <2> QED BY <1>2, <2>2, Zenon
<1> HIDE DEF f
<1>8. {} \in SUBSET (1 .. n)
  OBVIOUS
<1>9. f[{}] = b
  BY <1>7, <1>8, Zenon
<1>10. ASSUME NEW s \in SUBSET (1 .. n), s # {}, f[s \ {Max(s)}] \in T
       PROVE  f[s] = step[<<f[s \ {Max(s)}], Max(s)>>]
  <2>1. f[s] = RefineWord(f[s \ {Max(s)}], q[Max(s)])
    BY <1>7, <1>10, Zenon
  <2> QED BY <1>4, <1>5, <1>10, <2>1, Zenon
<1>11. PICK g \in [0 .. n -> T] : Iterates(g, n, b, step, f[1 .. n])
  <2>1. IsFoldIn(f, n, b, step, T)
    BY <1>9, <1>10, Zenon DEF IsFoldIn
  <2> QED BY <1>2, <1>3, <2>1, FoldValues
<1>12. ASSUME NEW m \in 1 .. n PROVE g[m] = RefineWord(g[m - 1], ws[m])
  <2>1. m - 1 \in 0 .. n
    BY <1>2
  <2>2. g[m - 1] \in T /\ g[m] = step[<<g[m - 1], m>>]
    BY <1>11, <2>1 DEF Iterates
  <2> QED BY <1>2, <1>4, <2>2, ZenonT(60)
<1>13. g[0] = b /\ g[n] = Refined(ws)
  BY <1>1, <1>2, <1>11, Zenon DEF Iterates
<1> QED BY <1>11, <1>12, <1>13, Zenon DEF n, b

-----------------------------------------------------------------------------
(* Turns in order                                                          *)

\* Turns of speakers of L that have a length.
Lasting(L) == {t \in Turn : t.st < t.en /\ t.spk \in L}

\* A turn is put somewhere between the others.
LEMMA InsertIs ==
    ASSUME NEW U, NEW acc \in Seq(U), NEW t \in U
    PROVE  InsertByStart(acc, t) \in Seq(U) /\ InsertByStart(acc, t) # <<>>
<1> DEFINE S == {i \in DOMAIN acc : acc[i].st <= t.st}
           n == Cardinality(S)
           k == Len(acc)
           p == SubSeq(acc, 1, n)
           q == SubSeq(acc, n + 1, k)
<1>1. k \in Nat /\ DOMAIN acc = 1 .. k
  OBVIOUS
<1>2. S \in SUBSET (1 .. k)
  BY <1>1
<1> HIDE DEF S
<1>3. n \in 0 .. k
  <2>1. IsFiniteSet(1 .. k) /\ Cardinality(1 .. k) = k
    BY <1>1, FS_Interval
  <2>2. IsFiniteSet(S) /\ Cardinality(S) <= Cardinality(1 .. k)
    BY <1>2, <2>1, FS_Subset
  <2>3. Cardinality(S) \in Nat
    BY <2>2, FS_CardinalityType
  <2> QED BY <1>1, <2>1, <2>2, <2>3
<1>4. InsertByStart(acc, t) = p \o <<t>> \o q
  BY Zenon DEF InsertByStart, S
<1> HIDE DEF n
<1>5. p \in Seq(U) /\ q \in Seq(U)
  <2>1. \A j \in 1 .. n : j \in 1 .. k
    BY <1>1, <1>3
  <2>2. \A j \in n + 1 .. k : j \in 1 .. k
    BY <1>1, <1>3
  <2>3. \A j \in 1 .. k : acc[j] \in U
    BY <1>1
  <2> QED BY <1>1, <1>3, <2>1, <2>2, <2>3
<1> HIDE DEF p, q
<1>6. p \o <<t>> \in Seq(U) /\ Len(p \o <<t>>) = Len(p) + 1 /\ Len(p) \in Nat
  BY <1>5
<1> DEFINE r == p \o <<t>>
<1>7. r \o q \in Seq(U) /\ Len(r \o q) = Len(r) + Len(q) /\ Len(q) \in Nat
  <2> HIDE DEF r
  <2> QED BY <1>5, <1>6 DEF r
<1>8. Len(r \o q) # 0
  BY <1>6, <1>7
<1> QED BY <1>4, <1>7, <1>8, EmptySeq

\* What is sorted is of the same kind, and is there.
LEMMA ByStartIs ==
    ASSUME NEW U, NEW ts \in Seq(U), ts # <<>>
    PROVE  ByStart(ts) \in Seq(U) /\ ByStart(ts) # <<>>
<1> DEFINE n == Len(ts)
           T == Seq(U)
<1>1. n \in Nat /\ n # 0 /\ \A i \in 1 .. n : ts[i] \in U
  BY EmptySeq
<1>2. <<>> \in T /\ \A x \in T : \A i \in 1 .. n : InsertByStart(x, ts[i]) \in T
  <2>1. <<>> \in T
    OBVIOUS
  <2>2. ASSUME NEW x \in T, NEW i \in 1 .. n PROVE InsertByStart(x, ts[i]) \in T
    <3> DEFINE t == ts[i]
    <3>1. t \in U
      BY <1>1
    <3> HIDE DEF t
    <3> QED BY <3>1, InsertIs DEF t
  <2> QED BY <2>1, <2>2
<1>3. ts \in Seq(U)
  OBVIOUS
<1> HIDE DEF T
<1>4. PICK g \in [0 .. n -> T] :
          /\ g[0] = <<>> /\ g[n] = ByStart(ts)
          /\ \A m \in 1 .. n : g[m] = InsertByStart(g[m - 1], ts[m])
  BY <1>2, <1>3, SortingFold, ZenonT(60)
<1>5. n \in 1 .. n /\ n - 1 \in 0 .. n /\ n \in 0 .. n
  BY <1>1
<1>6. g[n] = InsertByStart(g[n - 1], ts[n]) /\ g[n - 1] \in Seq(U) /\ ts[n] \in U
  BY <1>1, <1>4, <1>5 DEF T
<1>7. g[n] \in Seq(U) /\ g[n] # <<>>
  BY <1>6, InsertIs
<1> QED BY <1>4, <1>7

\* A turn goes on as the last one, or follows it.
LEMMA JoinPauseIs ==
    ASSUME NEW L, NEW acc \in Seq(Lasting(L)), NEW t \in Lasting(L), NEW gap
    PROVE  JoinPause(acc, t, gap) \in Seq(Lasting(L)) /\ JoinPause(acc, t, gap) # <<>>
<1> DEFINE n == Len(acc)
           x == [acc EXCEPT ![n].en = Most(@, t.en)]
<1>1. n \in Nat /\ DOMAIN acc = 1 .. n /\ \A i \in 1 .. n : acc[i] \in Lasting(L)
  OBVIOUS
<1>2. CASE JoinPause(acc, t, gap) = Append(acc, t)
  BY <1>2
<1>3. CASE JoinPause(acc, t, gap) = x /\ acc # <<>>
  <2>1. n \in 1 .. n
    BY <1>1, <1>3, EmptySeq
  <2> DEFINE u == acc[n]
             e == Most(u.en, t.en)
             v == [u EXCEPT !.en = e]
  <2>2. u \in Turn /\ t \in Turn /\ u.st < u.en /\ u.spk \in L
    BY <1>1, <2>1 DEF Lasting
  <2>3. e \in Nat /\ e >= u.en /\ u.st \in Nat /\ u.en \in Nat
    BY <2>2 DEF Turn, Most
  <2>4. x = [i \in 1 .. n |-> IF i = n THEN v ELSE acc[i]]
    BY <1>1, <2>1
  <2> HIDE DEF e
  <2>5. v \in Turn /\ v.st = u.st /\ v.en = e /\ v.spk = u.spk
    BY <2>2, <2>3 DEF Turn
  <2>6. v \in Lasting(L)
    <3> HIDE DEF v
    <3> QED BY <2>2, <2>3, <2>5 DEF Lasting
  <2> HIDE DEF v, x
  <2>7. x \in [1 .. n -> Lasting(L)]
    BY <1>1, <2>4, <2>6
  <2>8. x \in Seq(Lasting(L)) /\ Len(x) = n
    BY <1>1, <2>7, FunctionIsSeq
  <2> QED BY <1>3, <2>1, <2>8
<1> QED BY <1>2, <1>3 DEF JoinPause

\* Turns with short pauses joined are such turns still, and are there.
LEMMA JoinPausesIs ==
    ASSUME NEW L, NEW ts \in Seq(Lasting(L)), ts # <<>>, NEW gap
    PROVE  JoinPauses(ts, gap) \in Seq(Lasting(L)) /\ JoinPauses(ts, gap) # <<>>
<1> DEFINE n == Len(ts)
           U == Lasting(L)
           T == Seq(U)
<1>1. n \in Nat /\ n # 0 /\ \A i \in 1 .. n : ts[i] \in U
  BY EmptySeq
<1>2. <<>> \in T /\ \A x \in T : \A i \in 1 .. n : JoinPause(x, ts[i], gap) \in T
  BY <1>1, JoinPauseIs
<1>3. ts \in Seq(U)
  OBVIOUS
<1> HIDE DEF T, U
<1>4. PICK g \in [0 .. n -> T] :
          /\ g[0] = <<>> /\ g[n] = JoinPauses(ts, gap)
          /\ \A m \in 1 .. n : g[m] = JoinPause(g[m - 1], ts[m], gap)
  BY <1>2, <1>3, JoinPauseFold, ZenonT(60)
<1>5. n \in 1 .. n /\ n - 1 \in 0 .. n /\ n \in 0 .. n
  BY <1>1
<1>6. g[n] = JoinPause(g[n - 1], ts[n], gap) /\ g[n - 1] \in Seq(U) /\ ts[n] \in U
  BY <1>1, <1>4, <1>5 DEF T
<1>7. g[n] \in Seq(U) /\ g[n] # <<>>
  BY <1>6, JoinPauseIs DEF U
<1> QED BY <1>4, <1>7 DEF U

-----------------------------------------------------------------------------
(* Labels in the order in which they first occur                           *)

PlacesOf(xs, s) == {i \in DOMAIN xs : xs[i].spk = s}
FirstOf(xs, s) == Min(PlacesOf(xs, s))
Before(xs, s) == {t \in LabelsOf(xs) : FirstOf(xs, t) < FirstOf(xs, s)}
Rank(xs, s) == Cardinality(Before(xs, s))

\* A set of labels of a sequence is finite.
LEMMA LabelsFinite ==
    ASSUME NEW U, NEW xs \in Seq(U)
    PROVE  IsFiniteSet(LabelsOf(xs)) /\ Cardinality(LabelsOf(xs)) \in Nat
<1>1. IsFiniteSet(LabelsOf(xs))
  <2> DEFINE f == [i \in DOMAIN xs |-> xs[i].spk]
  <2>1. f \in Surjection(DOMAIN xs, LabelsOf(xs))
    BY Zenon DEF LabelsOf, Surjection
  <2>2. Len(xs) \in Nat /\ DOMAIN xs = 1 .. Len(xs)
    OBVIOUS
  <2>3. IsFiniteSet(DOMAIN xs)
    BY <2>2, FS_Interval
  <2> HIDE DEF f
  <2> QED BY <2>1, <2>3, FS_Surjection
<1> QED BY <1>1, FS_CardinalityType

\* Where a label occurs first.
LEMMA FirstIs ==
    ASSUME NEW U, NEW xs \in Seq(U), NEW s \in LabelsOf(xs)
    PROVE  /\ FirstOf(xs, s) \in DOMAIN xs /\ xs[FirstOf(xs, s)].spk = s
           /\ \A i \in DOMAIN xs : xs[i].spk = s => FirstOf(xs, s) <= i
<1> DEFINE P == PlacesOf(xs, s)
<1>1. Len(xs) \in Nat /\ DOMAIN xs = 1 .. Len(xs)
  OBVIOUS
<1>2. P \in SUBSET (1 .. Len(xs)) /\ P # {}
  BY <1>1 DEF PlacesOf, LabelsOf
<1> HIDE DEF P
<1>3. Min(P) \in P /\ \A y \in P : Min(P) <= y
  BY <1>1, <1>2, MinUpTo
<1> QED BY <1>3 DEF P, PlacesOf, FirstOf

\* The labels that occur before another are fewer than those before a later one.
LEMMA RankGrows ==
    ASSUME NEW U, NEW xs \in Seq(U), NEW s \in LabelsOf(xs), NEW t \in LabelsOf(xs), s # t
    PROVE  Rank(xs, s) \in Nat /\ Rank(xs, s) # Rank(xs, t)
<1>1. \A u \in LabelsOf(xs) : FirstOf(xs, u) \in Nat /\ IsFiniteSet(Before(xs, u)) /\ Rank(xs, u) \in Nat
  <2> SUFFICES ASSUME NEW u \in LabelsOf(xs)
               PROVE  FirstOf(xs, u) \in Nat /\ IsFiniteSet(Before(xs, u)) /\ Rank(xs, u) \in Nat
    OBVIOUS
  <2>1. FirstOf(xs, u) \in DOMAIN xs
    BY FirstIs
  <2>2. FirstOf(xs, u) \in Nat
    BY <2>1
  <2>3. Before(xs, u) \subseteq LabelsOf(xs)
    BY DEF Before
  <2>4. IsFiniteSet(Before(xs, u))
    BY <2>3, LabelsFinite, FS_Subset
  <2> QED BY <2>2, <2>4, FS_CardinalityType DEF Rank
<1>2. ASSUME NEW u \in LabelsOf(xs), NEW v \in LabelsOf(xs), FirstOf(xs, u) < FirstOf(xs, v)
      PROVE  Rank(xs, u) # Rank(xs, v)
  <2>1. Before(xs, u) \subseteq Before(xs, v) /\ u \in Before(xs, v) /\ u \notin Before(xs, u)
    <3>1. u \in Before(xs, v)
      BY <1>2 DEF Before
    <3>2. ASSUME NEW x \in Before(xs, u) PROVE x \in Before(xs, v) /\ x # u
      <4>1. x \in LabelsOf(xs) /\ FirstOf(xs, x) < FirstOf(xs, u)
        BY DEF Before
      <4>2. FirstOf(xs, x) \in Nat /\ FirstOf(xs, u) \in Nat /\ FirstOf(xs, v) \in Nat
        BY <1>1, <4>1
      <4>3. FirstOf(xs, x) < FirstOf(xs, v) /\ FirstOf(xs, x) # FirstOf(xs, u)
        BY <1>2, <4>1, <4>2
      <4> QED BY <4>1, <4>3 DEF Before
    <3> QED BY <3>1, <3>2
  <2> DEFINE A == Before(xs, u)
             B == Before(xs, v)
  <2>2. A \subseteq B /\ A # B /\ IsFiniteSet(A) /\ IsFiniteSet(B)
    BY <1>1, <2>1
  <2> HIDE DEF A, B
  <2>3. Cardinality(A) # Cardinality(B)
    BY <2>2, FS_Subset
  <2> QED BY <2>3 DEF A, B, Rank
<1>3. FirstOf(xs, s) # FirstOf(xs, t)
  BY FirstIs
<1>4. FirstOf(xs, s) < FirstOf(xs, t) \/ FirstOf(xs, t) < FirstOf(xs, s)
  BY <1>1, <1>3
<1> QED BY <1>1, <1>2, <1>4

\* The numbers count up: each is at most as great as there are others before it.
LEMMA RanksAre ==
    ASSUME NEW U, NEW xs \in Seq(U)
    PROVE  /\ \A i \in DOMAIN xs :
                 Rank(xs, xs[i].spk) \in 0 .. Cardinality({Rank(xs, xs[j].spk) : j \in 1 .. i - 1})
           /\ xs # <<>> => Rank(xs, xs[1].spk) = 0
           /\ Cardinality({Rank(xs, s) : s \in LabelsOf(xs)}) <= Cardinality(LabelsOf(xs))
<1>1. Len(xs) \in Nat /\ DOMAIN xs = 1 .. Len(xs)
  OBVIOUS
<1>2. ASSUME NEW i \in DOMAIN xs
      PROVE  Rank(xs, xs[i].spk) \in 0 .. Cardinality({Rank(xs, xs[j].spk) : j \in 1 .. i - 1})
  <2> DEFINE s == xs[i].spk
             A == Before(xs, s)
             R == {Rank(xs, t) : t \in A}
             E == {Rank(xs, xs[j].spk) : j \in 1 .. i - 1}
             f == [t \in A |-> Rank(xs, t)]
             g == [j \in 1 .. i - 1 |-> Rank(xs, xs[j].spk)]
  <2>1. s \in LabelsOf(xs)
    BY DEF LabelsOf
  <2>2. A \subseteq LabelsOf(xs) /\ \A t \in A : FirstOf(xs, t) < FirstOf(xs, s)
    BY DEF Before
  <2> HIDE DEF s, A
  <2>3. IsFiniteSet(A) /\ Cardinality(A) \in Nat /\ Cardinality(A) = Rank(xs, s)
    <3>1. IsFiniteSet(A)
      BY <2>2, LabelsFinite, FS_Subset
    <3> QED BY <3>1, FS_CardinalityType DEF A, Rank
  <2>4. f \in Surjection(A, R)
    BY Zenon DEF Surjection
  <2>5. Cardinality(R) = Cardinality(A)
    <3>1. \A t \in A : \A u \in A : f[t] = f[u] => t = u
      BY <2>2, RankGrows
    <3> HIDE DEF f, R
    <3>2. f \in Injection(A, R)
      BY <2>4, <3>1, Zenon DEF Injection, IsInjective, Surjection
    <3> QED BY <2>3, <2>4, <3>2, FS_Surjection
  <2>6. R \subseteq E
    <3> SUFFICES ASSUME NEW t \in A PROVE Rank(xs, t) \in E
      OBVIOUS
    <3> DEFINE j == FirstOf(xs, t)
    <3>1. t \in LabelsOf(xs) /\ j < FirstOf(xs, s)
      BY <2>2
    <3>2. j \in DOMAIN xs /\ xs[j].spk = t
      BY <3>1, FirstIs
    <3>3. FirstOf(xs, s) \in DOMAIN xs /\ FirstOf(xs, s) <= i
      BY <2>1, FirstIs DEF s
    <3> HIDE DEF j
    <3>4. j \in 1 .. i - 1
      BY <1>1, <3>1, <3>2, <3>3
    <3> QED BY <3>2, <3>4
  <2>7. IsFiniteSet(E)
    <3>1. g \in Surjection(1 .. i - 1, E)
      BY Zenon DEF Surjection
    <3>2. IsFiniteSet(1 .. i - 1)
      BY <1>1, FS_Interval
    <3> HIDE DEF g, E
    <3> QED BY <3>1, <3>2, FS_Surjection
  <2> HIDE DEF R, E
  <2>8. Cardinality(R) <= Cardinality(E) /\ Cardinality(E) \in Nat
    BY <2>6, <2>7, FS_Subset, FS_CardinalityType
  <2>9. Rank(xs, s) \in 0 .. Cardinality(E)
    BY <2>3, <2>5, <2>8
  <2> QED BY <2>9 DEF s, E
<1>3. ASSUME xs # <<>> PROVE Rank(xs, xs[1].spk) = 0
  <2>1. 1 \in DOMAIN xs
    BY <1>1, <1>3, EmptySeq
  <2> DEFINE E == {Rank(xs, xs[j].spk) : j \in 1 .. 1 - 1}
  <2>2. E = {}
    OBVIOUS
  <2>3. Rank(xs, xs[1].spk) \in 0 .. Cardinality(E)
    BY <1>2, <2>1
  <2> HIDE DEF E
  <2>4. Cardinality(E) = 0
    BY <2>2, FS_EmptySet
  <2> QED BY <2>3, <2>4
<1>4. Cardinality({Rank(xs, s) : s \in LabelsOf(xs)}) <= Cardinality(LabelsOf(xs))
  <2> DEFINE R == {Rank(xs, s) : s \in LabelsOf(xs)}
             f == [s \in LabelsOf(xs) |-> Rank(xs, s)]
  <2>1. f \in Surjection(LabelsOf(xs), R)
    BY Zenon DEF Surjection
  <2> HIDE DEF f, R
  <2>2. Cardinality(R) <= Cardinality(LabelsOf(xs))
    BY <2>1, LabelsFinite, FS_Surjection
  <2> QED BY <2>2 DEF R
<1> QED BY <1>2, <1>3, <1>4

\* What renumbering is.
LEMMA RenumberedIs ==
    ASSUME NEW xs
    PROVE  Renumbered(xs) = [i \in DOMAIN xs |-> [xs[i] EXCEPT !.spk = Rank(xs, xs[i].spk)]]
  BY Zenon DEF Renumbered, Rank, Before, FirstOf, PlacesOf

\* Renumbered turns are labelled from SPEAKER_00 on, with no more labels than before.
LEMMA TurnsRenumbered ==
    ASSUME NEW xs \in Seq(Lasting(Nat)), xs # <<>>
    PROVE  LET ys == Renumbered(xs)
           IN  /\ ys \in Seq(Lasting(LabelsOf(ys))) /\ ys # <<>>
               /\ LabelsOf(ys) \in SUBSET Nat /\ 0 \in LabelsOf(ys)
               /\ Cardinality(LabelsOf(ys)) <= Cardinality(LabelsOf(xs))
<1> DEFINE n == Len(xs)
           ys == Renumbered(xs)
           R == {Rank(xs, s) : s \in LabelsOf(xs)}
<1>1. n \in Nat /\ DOMAIN xs = 1 .. n /\ 1 \in 1 .. n /\ \A i \in 1 .. n : xs[i] \in Lasting(Nat)
  BY EmptySeq
<1>2. \A i \in 1 .. n : xs[i].spk \in LabelsOf(xs)
  BY <1>1 DEF LabelsOf
<1>3. \A i \in 1 .. n : Rank(xs, xs[i].spk) \in Nat
  <2> SUFFICES ASSUME NEW i \in 1 .. n PROVE Rank(xs, xs[i].spk) \in Nat
    OBVIOUS
  <2> DEFINE E == {Rank(xs, xs[j].spk) : j \in 1 .. i - 1}
  <2>1. Rank(xs, xs[i].spk) \in 0 .. Cardinality(E)
    BY <1>1, RanksAre
  <2> HIDE DEF E
  <2> QED BY <2>1
<1>4. ys = [i \in 1 .. n |-> [xs[i] EXCEPT !.spk = Rank(xs, xs[i].spk)]]
  BY <1>1, RenumberedIs
<1> HIDE DEF ys
<1>5. ASSUME NEW i \in 1 .. n
      PROVE  ys[i] \in Turn /\ ys[i].st < ys[i].en /\ ys[i].spk = Rank(xs, xs[i].spk)
  <2> DEFINE t == xs[i]
             r == Rank(xs, xs[i].spk)
  <2>1. ys[i] = [t EXCEPT !.spk = r] /\ t \in Turn /\ t.st < t.en /\ r \in Nat
    BY <1>1, <1>3, <1>4 DEF Lasting
  <2> HIDE DEF t, r
  <2> QED BY <2>1 DEF Turn, r
<1>6. DOMAIN ys = 1 .. n
  BY <1>4
<1>7. LabelsOf(ys) = R
  <2>1. ASSUME NEW i \in 1 .. n PROVE ys[i].spk \in R
    BY <1>2, <1>5
  <2>2. ASSUME NEW s \in LabelsOf(xs) PROVE Rank(xs, s) \in LabelsOf(ys)
    <3>1. PICK i \in 1 .. n : xs[i].spk = s
      BY <1>1 DEF LabelsOf
    <3> QED BY <1>5, <1>6, <3>1 DEF LabelsOf
  <2> QED BY <1>6, <2>1, <2>2 DEF LabelsOf
<1>8. \A i \in 1 .. n : ys[i] \in Lasting(LabelsOf(ys))
  BY <1>5, <1>6 DEF Lasting, LabelsOf
<1>9. ys \in Seq(Lasting(LabelsOf(ys))) /\ Len(ys) = n
  <2> DEFINE U == Lasting(LabelsOf(ys))
  <2>1. ys \in [1 .. n -> U]
    BY <1>4, <1>8
  <2> HIDE DEF U
  <2>2. ys \in Seq(U) /\ Len(ys) = n
    BY <1>1, <2>1, FunctionIsSeq
  <2> QED BY <2>2 DEF U
<1>10. ys # <<>>
  BY <1>1, <1>9
<1>11. LabelsOf(ys) \in SUBSET Nat /\ 0 \in LabelsOf(ys)
  <2>1. ys[1].spk = 0
    BY <1>1, <1>5, RanksAre
  <2>2. \A i \in 1 .. n : ys[i].spk \in Nat
    BY <1>5 DEF Turn
  <2> QED BY <1>1, <1>6, <2>1, <2>2 DEF LabelsOf
<1>12. Cardinality(LabelsOf(ys)) <= Cardinality(LabelsOf(xs))
  BY <1>7, RanksAre
<1> QED BY <1>9, <1>10, <1>11, <1>12 DEF ys

\* Words that only differ in their labels.
Alike(x, y) ==
    /\ Len(x) = Len(y)
    /\ \A i \in 1 .. Len(y) : x[i].tok = y[i].tok /\ x[i].st = y[i].st /\ x[i].en = y[i].en

\* Renumbered words have labels that count up, as many as before at most, and
\* words of one label still have one.
LEMMA WordsRenumbered ==
    ASSUME NEW K, NEW xs \in Seq(WordsBy(K))
    PROVE  LET ys == Renumbered(xs)
           IN  /\ ys \in Seq(WordsBy(Nat)) /\ Alike(ys, xs)
               /\ Cardinality(LabelsOf(ys)) <= Cardinality(LabelsOf(xs))
               /\ \A i \in DOMAIN ys : ys[i].spk \in 0 .. Cardinality({ys[j].spk : j \in 1 .. i - 1})
               /\ \A i, j \in DOMAIN ys : xs[i].spk = xs[j].spk => ys[i].spk = ys[j].spk
<1> DEFINE n == Len(xs)
           ys == Renumbered(xs)
           R == {Rank(xs, s) : s \in LabelsOf(xs)}
<1>1. n \in Nat /\ DOMAIN xs = 1 .. n /\ \A i \in 1 .. n : xs[i] \in WordsBy(K)
  OBVIOUS
<1>2. \A i \in 1 .. n : xs[i].spk \in LabelsOf(xs)
  BY <1>1 DEF LabelsOf
<1>3. \A i \in 1 .. n : Rank(xs, xs[i].spk) \in Nat
  <2> SUFFICES ASSUME NEW i \in 1 .. n PROVE Rank(xs, xs[i].spk) \in Nat
    OBVIOUS
  <2> DEFINE E == {Rank(xs, xs[j].spk) : j \in 1 .. i - 1}
  <2>1. Rank(xs, xs[i].spk) \in 0 .. Cardinality(E)
    BY <1>1, RanksAre
  <2> HIDE DEF E
  <2> QED BY <2>1
<1>4. ys = [i \in 1 .. n |-> [xs[i] EXCEPT !.spk = Rank(xs, xs[i].spk)]]
  BY <1>1, RenumberedIs
<1> HIDE DEF ys
<1>5. ASSUME NEW i \in 1 .. n
      PROVE  /\ ys[i] \in WordsBy(Nat) /\ ys[i].spk = Rank(xs, xs[i].spk)
             /\ ys[i].tok = xs[i].tok /\ ys[i].st = xs[i].st /\ ys[i].en = xs[i].en
  <2> DEFINE w == xs[i]
             r == Rank(xs, xs[i].spk)
  <2>1. ys[i] = [w EXCEPT !.spk = r] /\ w \in WordsBy(K) /\ r \in Nat
    BY <1>1, <1>3, <1>4
  <2> HIDE DEF w, r
  <2>2. /\ ys[i] \in WordsBy(Nat) /\ ys[i].spk = r
        /\ ys[i].tok = w.tok /\ ys[i].st = w.st /\ ys[i].en = w.en
    <3> DEFINE v == [w EXCEPT !.spk = r]
    <3>1. v \in WordsBy(Nat) /\ v.spk = r /\ v.tok = w.tok /\ v.st = w.st /\ v.en = w.en
      BY <2>1 DEF WordsBy
    <3> QED BY <2>1, <3>1
  <2> QED BY <2>2 DEF r, w
<1>6. DOMAIN ys = 1 .. n
  BY <1>4
<1>7. LabelsOf(ys) = R
  <2>1. ASSUME NEW i \in 1 .. n PROVE ys[i].spk \in R
    BY <1>2, <1>5
  <2>2. ASSUME NEW s \in LabelsOf(xs) PROVE Rank(xs, s) \in LabelsOf(ys)
    <3>1. PICK i \in 1 .. n : xs[i].spk = s
      BY <1>1 DEF LabelsOf
    <3> QED BY <1>5, <1>6, <3>1 DEF LabelsOf
  <2> QED BY <1>6, <2>1, <2>2 DEF LabelsOf
<1>8. ys \in Seq(WordsBy(Nat)) /\ Len(ys) = n
  <2> DEFINE U == WordsBy(Nat)
  <2>1. ys \in [1 .. n -> U]
    BY <1>4, <1>5
  <2> HIDE DEF U
  <2>2. ys \in Seq(U) /\ Len(ys) = n
    BY <1>1, <2>1, FunctionIsSeq
  <2> QED BY <2>2 DEF U
<1>9. Alike(ys, xs)
  BY <1>5, <1>8 DEF Alike
<1>10. Cardinality(LabelsOf(ys)) <= Cardinality(LabelsOf(xs))
  BY <1>7, RanksAre
<1>11. ASSUME NEW i \in 1 .. n
       PROVE  ys[i].spk \in 0 .. Cardinality({ys[j].spk : j \in 1 .. i - 1})
  <2> DEFINE E == {Rank(xs, xs[j].spk) : j \in 1 .. i - 1}
             F == {ys[j].spk : j \in 1 .. i - 1}
  <2>1. Rank(xs, xs[i].spk) \in 0 .. Cardinality(E)
    BY <1>1, RanksAre
  <2>2. \A j \in 1 .. i - 1 : ys[j].spk = Rank(xs, xs[j].spk)
    BY <1>1, <1>5
  <2>3. E = F
    BY <2>2
  <2> HIDE DEF E, F
  <2>4. ys[i].spk \in 0 .. Cardinality(F)
    BY <1>5, <2>1, <2>3
  <2> QED BY <2>4 DEF F
<1>12. \A i, j \in 1 .. n : xs[i].spk = xs[j].spk => ys[i].spk = ys[j].spk
  BY <1>5
<1> QED BY <1>6, <1>8, <1>9, <1>10, <1>11, <1>12 DEF ys

-----------------------------------------------------------------------------
(* The labels the words get from the turns                                 *)

\* There is a nearest turn, and a word has its label or none.
LEMMA NearestIs ==
    ASSUME NEW L, NEW ts \in Seq(Lasting(L)), ts # <<>>, NEW K, NEW w \in WordsBy(K)
    PROVE  Nearest(w, ts) \in L \cup {-1}
<1> DEFINE n == Len(ts)
           d(i) == Distance(w, ts[i])
           D == {d(i) : i \in 1 .. n}
<1>1. n \in Nat /\ DOMAIN ts = 1 .. n /\ 1 \in 1 .. n /\ \A i \in 1 .. n : ts[i] \in Lasting(L)
  BY EmptySeq
<1>2. \A i \in 1 .. n : d(i) \in Nat
  <2> SUFFICES ASSUME NEW i \in 1 .. n PROVE Distance(w, ts[i]) \in Nat
    OBVIOUS
  <2> DEFINE a == ts[i].st - WordEnd(w)
             b == w.st - ts[i].en
  <2>1. ts[i] \in Turn
    BY <1>1 DEF Lasting
  <2>2. a \in Int /\ b \in Int
    <3>1. WordEnd(w) \in Int /\ w.st \in Int
      BY DEF WordEnd, WordsBy
    <3> QED BY <2>1, <3>1 DEF Turn
  <2>3. Distance(w, ts[i]) = Most(0, Most(a, b))
    BY DEF Distance
  <2> HIDE DEF a, b
  <2> QED BY <2>2, <2>3 DEF Most
<1>3. \E i \in 1 .. n : \A j \in 1 .. n : d(i) < d(j) \/ (d(i) = d(j) /\ i <= j)
  <2> HIDE DEF d
  <2>1. D \in SUBSET Nat /\ D # {}
    BY <1>1, <1>2
  <2>2. PICK x \in D : \A y \in D : x <= y
    <3> HIDE DEF D
    <3> QED BY <2>1, LeastElement
  <2> DEFINE P == {i \in 1 .. n : d(i) = x}
  <2>3. P \in SUBSET (1 .. n) /\ P # {}
    BY <2>2
  <2>4. Min(P) \in P /\ \A y \in P : Min(P) <= y
    <3> HIDE DEF P
    <3> QED BY <1>1, <2>3, MinUpTo
  <2> DEFINE m == Min(P)
  <2>5. m \in 1 .. n /\ d(m) = x /\ \A y \in P : m <= y
    BY <2>4
  <2> HIDE DEF m
  <2>6. ASSUME NEW j \in 1 .. n PROVE d(m) < d(j) \/ (d(m) = d(j) /\ m <= j)
    <3>1. x <= d(j) /\ x \in Nat /\ d(j) \in Nat
      BY <1>2, <2>1, <2>2
    <3>2. d(j) = x => m <= j
      BY <2>5
    <3> QED BY <2>5, <3>1, <3>2
  <2> QED BY <2>5, <2>6
<1> DEFINE best == CHOOSE i \in DOMAIN ts : \A j \in DOMAIN ts :
                    \/ Distance(w, ts[i]) < Distance(w, ts[j])
                    \/ Distance(w, ts[i]) = Distance(w, ts[j]) /\ i <= j
<1>4. best \in DOMAIN ts
  BY <1>1, <1>3, Zenon
<1>5. Nearest(w, ts) = IF Distance(w, ts[best]) <= 850 THEN ts[best].spk ELSE -1
  BY Zenon DEF Nearest
<1> HIDE DEF best
<1>6. ts[best].spk \in L
  BY <1>1, <1>4 DEF Lasting
<1> QED BY <1>5, <1>6

\* The labels a word may get are those of the turns, or none.
LEMMA LabelsForAre ==
    ASSUME NEW L, NEW ts \in Seq(Lasting(L)), ts # <<>>, NEW K, NEW w \in WordsBy(K)
    PROVE  LabelsFor(w, ts) \subseteq L \cup {-1}
<1>1. \A i \in DOMAIN ts : ts[i].spk \in L
  BY DEF Lasting
<1>2. Winners(w, ts) \subseteq DOMAIN ts
  BY DEF Winners
<1>3. Nearest(w, ts) \in L \cup {-1}
  BY NearestIs
<1> QED BY <1>1, <1>2, <1>3 DEF LabelsFor

\* The recursive function in Labellings.
LabelsUpTo(u, ts) ==
    u = [n \in 0 .. Len(words) |->
            IF n = 0 THEN {<<>>}
            ELSE Longer(u[n - 1], LabelsFor(words[n], ts))]

\* A labelling has a label of a turn, or none, for every word.
LEMMA LabellingsAre ==
    ASSUME NEW L, NEW ts \in Seq(Lasting(L)), ts # <<>>, NEW K, words \in Seq(WordsBy(K))
    PROVE  \A ls \in Labellings(ts) : ls \in Seq(L \cup {-1}) /\ Len(ls) = Len(words)
<1> DEFINE n == Len(words)
           S == L \cup {-1}
           T == SUBSET Seq(S)
           more(x, i) == Longer(x, LabelsFor(words[i], ts))
           b == {<<>>}
           step == [x \in T \X (1 .. n) |-> more(x[1], x[2])]
           u == CHOOSE u : LabelsUpTo(u, ts)
<1>1. n \in Nat /\ \A i \in 1 .. n : words[i] \in WordsBy(K)
  OBVIOUS
<1>2. \A i \in 1 .. n : LabelsFor(words[i], ts) \subseteq S
  BY <1>1, LabelsForAre
<1>3. \A x \in T : \A i \in 1 .. n : more(x, i) \in T
  <2> SUFFICES ASSUME NEW x \in T, NEW i \in 1 .. n, NEW ls \in x, NEW l \in LabelsFor(words[i], ts)
               PROVE  Append(ls, l) \in Seq(S)
    BY DEF Longer
  <2>1. ls \in Seq(S) /\ l \in S
    BY <1>2
  <2> HIDE DEF S
  <2> QED BY <2>1
<1>4. b \in T
  OBVIOUS
<1>5. step \in [T \X (1 .. n) -> T] /\ \A x \in T : \A i \in 1 .. n : step[<<x, i>>] = more(x, i)
  <2> HIDE DEF T, more
  <2> QED BY <1>3
<1> HIDE DEF step, T, n, b
<1>6. PICK h \in [SUBSET (1 .. n) -> T] : IsFold(h, n, b, step)
  BY <1>1, <1>4, <1>5, FoldExists
<1>7. IsFoldIn(h, n, b, step, T)
  BY <1>6, Zenon DEF IsFold, IsFoldIn
<1>8. PICK g \in [0 .. n -> T] : Iterates(g, n, b, step, h[1 .. n])
  BY <1>1, <1>4, <1>5, <1>7, FoldValues
<1>9. LabelsUpTo(g, ts)
  <2> DEFINE e(i) == IF i = 0 THEN b ELSE more(g[i - 1], i)
  <2>1. ASSUME NEW i \in 0 .. n PROVE g[i] = e(i)
    <3>1. CASE i = 0
      BY <1>8, <3>1 DEF Iterates
    <3>2. CASE i # 0
      <4>1. i \in 1 .. n /\ i - 1 \in 0 .. n
        BY <1>1, <3>2
      <4>2. g[i - 1] \in T /\ g[i] = step[<<g[i - 1], i>>]
        BY <1>8, <4>1 DEF Iterates
      <4>3. g[i] = more(g[i - 1], i)
        <5> HIDE DEF more
        <5> QED BY <1>5, <4>1, <4>2
      <4> QED BY <3>2, <4>3
    <3> QED BY <3>1, <3>2
  <2>2. g = [i \in 0 .. n |-> g[i]]
    BY <1>8
  <2>3. g = [i \in 0 .. n |-> e(i)]
    <3> HIDE DEF e
    <3> QED BY <2>1, <2>2, Zenon
  <2> QED BY <2>3, Zenon DEF LabelsUpTo, n, b
<1>10. LabelsUpTo(u, ts)
  BY <1>9, Zenon
<1>11. Labellings(ts) = u[n]
  BY Zenon DEF Labellings, LabelsUpTo, n
<1> HIDE DEF u
<1>12. u[0] = b /\ \A i \in 1 .. n : u[i] = more(u[i - 1], i)
  <2> DEFINE e(i) == IF i = 0 THEN b ELSE more(u[i - 1], i)
  <2>1. u = [i \in 0 .. n |-> e(i)]
    BY <1>10, Zenon DEF LabelsUpTo, n, b
  <2>2. \A i \in 0 .. n : u[i] = e(i)
    <3> HIDE DEF e
    <3> QED BY <2>1, Zenon
  <2>3. 0 \in 0 .. n /\ \A i \in 1 .. n : i \in 0 .. n /\ i # 0
    BY <1>1
  <2> HIDE DEF more
  <2> QED BY <2>2, <2>3
<1> DEFINE M == {m \in 0 .. n : \A ls \in u[m] : ls \in Seq(S) /\ Len(ls) = m}
<1>13. 0 \in M
  <2> HIDE DEF S
  <2>1. 0 \in 0 .. n /\ u[0] = {<<>>}
    BY <1>1, <1>12 DEF b
  <2>2. <<>> \in Seq(S) /\ Len(<<>>) = 0
    OBVIOUS
  <2>3. \A ls \in u[0] : ls \in Seq(S) /\ Len(ls) = 0
    BY <2>1, <2>2
  <2> QED BY <2>1, <2>3
<1>14. ASSUME NEW m \in 0 .. n - 1, m \in M PROVE m + 1 \in M
  <2>1. m + 1 \in 1 .. n /\ m + 1 \in 0 .. n /\ (m + 1) - 1 = m /\ m \in Nat
    BY <1>1
  <2>2. u[m + 1] = more(u[m], m + 1)
    <3> HIDE DEF more
    <3>1. u[m + 1] = more(u[(m + 1) - 1], m + 1)
      BY <1>12, <2>1
    <3> QED BY <2>1, <3>1
  <2>3. ASSUME NEW ls \in u[m], NEW l \in LabelsFor(words[m + 1], ts)
        PROVE  Append(ls, l) \in Seq(S) /\ Len(Append(ls, l)) = m + 1
    <3>1. ls \in Seq(S) /\ Len(ls) = m /\ l \in S
      BY <1>2, <1>14, <2>1
    <3> HIDE DEF S
    <3> QED BY <3>1
  <2> HIDE DEF S
  <2>4. \A ls \in u[m + 1] : ls \in Seq(S) /\ Len(ls) = m + 1
    <3> SUFFICES ASSUME NEW x \in u[m + 1] PROVE x \in Seq(S) /\ Len(x) = m + 1
      OBVIOUS
    <3>1. PICK ls \in u[m], l \in LabelsFor(words[m + 1], ts) : x = Append(ls, l)
      BY <2>2 DEF Longer
    <3> QED BY <2>3, <3>1
  <2> QED BY <2>1, <2>4
<1>15. 0 .. n \subseteq M
  <2> HIDE DEF M
  <2> QED BY <1>1, <1>13, <1>14, InductionUpTo
<1>16. n \in M
  BY <1>1, <1>15
<1> QED BY <1>11, <1>16 DEF n

-----------------------------------------------------------------------------
(* Words without a speaker, and pairs                                      *)

LEMMA AlikeTrans ==
    ASSUME NEW x, NEW y, NEW z, Alike(x, y), Alike(y, z)
    PROVE  Alike(x, z)
  BY DEF Alike

\* Word i with label s.
WithLabel(x, i, s) == [x EXCEPT ![i].spk = s]

\* One word gets another label.
LEMMA LabelSet ==
    ASSUME NEW M, NEW x \in Seq(WordsBy(M)), NEW i \in 1 .. Len(x), NEW s \in M
    PROVE  LET y == WithLabel(x, i, s)
           IN  /\ y \in Seq(WordsBy(M)) /\ Alike(y, x)
               /\ y[i].spk = s /\ \A j \in 1 .. Len(x) : j # i => y[j] = x[j]
<1> DEFINE n == Len(x)
           w == x[i]
           v == [w EXCEPT !.spk = s]
           y == WithLabel(x, i, s)
<1>1. n \in Nat /\ DOMAIN x = 1 .. n /\ \A j \in 1 .. n : x[j] \in WordsBy(M)
  OBVIOUS
<1>2. v \in WordsBy(M) /\ v.spk = s /\ v.tok = w.tok /\ v.st = w.st /\ v.en = w.en
  BY <1>1 DEF WordsBy
<1>3. y = [j \in 1 .. n |-> IF j = i THEN v ELSE x[j]]
  BY <1>1 DEF WithLabel
<1> HIDE DEF v, y, n
<1>4. y[i] = v /\ \A j \in 1 .. n : j # i => y[j] = x[j]
  BY <1>3 DEF n
<1>5. y \in [1 .. n -> WordsBy(M)]
  BY <1>1, <1>2, <1>3
<1>6. y \in Seq(WordsBy(M)) /\ Len(y) = n
  <2> DEFINE U == WordsBy(M)
  <2>1. y \in [1 .. n -> U]
    BY <1>5
  <2> HIDE DEF U
  <2>2. y \in Seq(U) /\ Len(y) = n
    BY <1>1, <2>1, FunctionIsSeq
  <2> QED BY <2>2 DEF U
<1>7. Alike(y, x)
  BY <1>2, <1>4, <1>6 DEF Alike, n, w
<1> QED BY <1>2, <1>4, <1>6, <1>7 DEF y, n

\* Word i gets a label if all before it have one.
LEMMA FillAtIs ==
    ASSUME NEW K, 0 \in K, NEW x \in Seq(WordsBy(K \cup {-1})), NEW i \in 1 .. Len(x)
    PROVE  /\ FillAt(x, i) \in Seq(WordsBy(K \cup {-1})) /\ Alike(FillAt(x, i), x)
           /\ (\A j \in 1 .. i - 1 : x[j].spk \in K) => \A j \in 1 .. i : FillAt(x, i)[j].spk \in K
<1> DEFINE n == Len(x)
           M == K \cup {-1}
           s == IF i = 1 THEN 0 ELSE x[i - 1].spk
<1>1. n \in Nat /\ \A j \in 1 .. n : x[j].spk \in M
  <2> SUFFICES ASSUME NEW j \in 1 .. n PROVE x[j].spk \in M
    OBVIOUS
  <2> DEFINE w == x[j]
  <2>1. w \in WordsBy(M)
    OBVIOUS
  <2> HIDE DEF w
  <2> QED BY <2>1 DEF WordsBy, w
<1>2. CASE x[i].spk # -1
  <2>1. FillAt(x, i) = x /\ x[i].spk \in K
    BY <1>1, <1>2 DEF FillAt
  <2>2. Alike(x, x)
    BY DEF Alike
  <2>3. \A j \in 1 .. i : j = i \/ j \in 1 .. i - 1
    BY <1>1
  <2> QED BY <2>1, <2>2, <2>3
<1>3. CASE x[i].spk = -1
  <2>1. s \in M /\ ((\A j \in 1 .. i - 1 : x[j].spk \in K) => s \in K)
    <3>1. i # 1 => i - 1 \in 1 .. n /\ i - 1 \in 1 .. i - 1
      BY <1>1
    <3> QED BY <1>1, <3>1
  <2>2. FillAt(x, i) = WithLabel(x, i, s)
    BY <1>3, Zenon DEF FillAt, WithLabel
  <2> HIDE DEF s, M
  <2> DEFINE y == WithLabel(x, i, s)
  <2>3. x \in Seq(WordsBy(M)) /\ i \in 1 .. n
    BY DEF M
  <2>4. /\ y \in Seq(WordsBy(M)) /\ Alike(y, x)
        /\ y[i].spk = s /\ \A j \in 1 .. n : j # i => y[j] = x[j]
    BY <2>1, <2>3, LabelSet
  <2> HIDE DEF y
  <2>5. \A j \in 1 .. i : j = i \/ (j \in 1 .. i - 1 /\ j \in 1 .. n /\ j # i)
    BY <1>1
  <2>6. (\A j \in 1 .. i - 1 : x[j].spk \in K) => \A j \in 1 .. i : y[j].spk \in K
    BY <2>1, <2>4, <2>5
  <2> QED BY <2>2, <2>4, <2>6 DEF y, M
<1> QED BY <1>2, <1>3

\* Every word gets a label, and nothing else of it changes.
LEMMA FilledIs ==
    ASSUME NEW K, 0 \in K, NEW ws \in Seq(WordsBy(K \cup {-1}))
    PROVE  Filled(ws) \in Seq(WordsBy(K)) /\ Alike(Filled(ws), ws)
<1> DEFINE n == Len(ws)
           M == K \cup {-1}
           U == WordsBy(M)
           T == {x \in Seq(U) : Alike(x, ws)}
<1>1. n \in Nat /\ ws \in T
  BY DEF Alike
<1>2. ASSUME NEW x \in T, NEW i \in 1 .. n PROVE FillAt(x, i) \in T
  <2>1. x \in Seq(WordsBy(K \cup {-1})) /\ Alike(x, ws) /\ i \in 1 .. Len(x)
    BY DEF Alike
  <2>2. FillAt(x, i) \in Seq(WordsBy(K \cup {-1})) /\ Alike(FillAt(x, i), x)
    BY <2>1, FillAtIs
  <2>3. Alike(FillAt(x, i), ws)
    BY <2>1, <2>2, AlikeTrans
  <2> QED BY <2>2, <2>3
<1>3. ws \in Seq(U) /\ \A x \in T : x \in Seq(U) /\ Alike(x, ws)
  OBVIOUS
<1> HIDE DEF T, U
<1>4. PICK g \in [0 .. n -> T] :
          /\ g[0] = ws /\ g[n] = Filled(ws)
          /\ \A m \in 1 .. n : g[m] = FillAt(g[m - 1], m)
  <2>1. \A x \in T : \A i \in 1 .. n : FillAt(x, i) \in T
    BY <1>2
  <2>2. ws \in Seq(U) /\ ws \in T
    BY <1>1, <1>3
  <2> QED BY <2>1, <2>2, FillFold, SMTT(60)
<1> DEFINE S == {m \in 0 .. n : \A j \in 1 .. m : g[m][j].spk \in K}
<1>5. 0 \in S
  BY <1>1
<1>6. ASSUME NEW m \in 0 .. n - 1, m \in S PROVE m + 1 \in S
  <2>1. m + 1 \in 1 .. n /\ m + 1 \in 0 .. n /\ (m + 1) - 1 = m /\ m \in 0 .. n
    BY <1>1
  <2>2. g[m + 1] = FillAt(g[m], m + 1) /\ g[m] \in T
    BY <1>4, <2>1
  <2> DEFINE x == g[m]
             i == m + 1
  <2>3. x \in Seq(WordsBy(K \cup {-1})) /\ Len(x) = n
    BY <1>3, <2>2 DEF U, Alike
  <2>4. i \in 1 .. Len(x) /\ \A j \in 1 .. i - 1 : x[j].spk \in K
    BY <1>6, <2>1, <2>3
  <2>5. g[m + 1] = FillAt(x, i)
    BY <2>2
  <2> HIDE DEF x, i
  <2>6. \A j \in 1 .. i : FillAt(x, i)[j].spk \in K
    BY <2>3, <2>4, FillAtIs
  <2> QED BY <2>1, <2>5, <2>6 DEF i
<1>7. 0 .. n \subseteq S
  <2> HIDE DEF S
  <2> QED BY <1>1, <1>5, <1>6, InductionUpTo
<1> DEFINE f == Filled(ws)
<1>8. f \in T /\ \A j \in 1 .. n : f[j].spk \in K
  <2>1. n \in 0 .. n
    BY <1>1
  <2> QED BY <1>4, <1>7, <2>1
<1> HIDE DEF f
<1>9. f \in Seq(U) /\ Alike(f, ws) /\ Len(f) = n
  BY <1>3, <1>8 DEF Alike
<1>10. f \in [1 .. n -> WordsBy(K)]
  <2>1. \A j \in 1 .. n : f[j] \in WordsBy(K)
    <3> SUFFICES ASSUME NEW j \in 1 .. n PROVE f[j] \in WordsBy(K)
      OBVIOUS
    <3> DEFINE w == f[j]
    <3>1. w \in U /\ w.spk \in K
      BY <1>8, <1>9
    <3> HIDE DEF w
    <3> QED BY <3>1 DEF U, WordsBy, w
  <2>2. f \in [1 .. n -> U]
    BY <1>9
  <2> QED BY <2>1, <2>2
<1>11. f \in Seq(WordsBy(K))
  <2> DEFINE V == WordsBy(K)
  <2>1. f \in [1 .. n -> V]
    BY <1>10
  <2> HIDE DEF V
  <2>2. f \in Seq(V)
    BY <1>1, <2>1, FunctionIsSeq
  <2> QED BY <2>2 DEF V
<1> QED BY <1>9, <1>11 DEF f

\* Which words are pairs depends on the words alone, and pairs do not overlap.
LEMMA PairsAre ==
    ASSUME NEW x, NEW f, Alike(x, f), NEW i \in 1 .. Len(f), Len(f) \in Nat
    PROVE  /\ HonorificPair(x, i) <=> HonorificPair(f, i)
           /\ HonorificPair(f, i) => i + 1 \in 1 .. Len(f) /\ ~ HonorificPair(f, i + 1)
           /\ \A j \in 1 .. Len(f) : HonorificPair(f, i) /\ HonorificPair(f, j) => j # i + 1
<1>1. HonorificPair(f, i) => i + 1 \in 1 .. Len(f)
  BY DEF HonorificPair
<1>2. ASSUME NEW j \in 1 .. Len(f), HonorificPair(f, i), HonorificPair(f, j), j = i + 1 PROVE FALSE
  <2>1. f[j].tok \in HONORIFIC_TRAILS /\ f[j].tok \in HONORIFIC_LEADS
    BY <1>2 DEF HonorificPair
  <2> QED BY <2>1 DEF HONORIFIC_LEADS, HONORIFIC_TRAILS
<1>3. HonorificPair(x, i) <=> HonorificPair(f, i)
  <2>1. CASE i < Len(f)
    <3>1. i + 1 \in 1 .. Len(f)
      BY <2>1
    <3> QED BY <3>1 DEF Alike, HonorificPair
  <2>2. CASE ~ (i < Len(f))
    BY <2>2 DEF Alike, HonorificPair
  <2> QED BY <2>1, <2>2
<1> QED BY <1>1, <1>2, <1>3

\* A pair gets one label; the words that are not of it keep theirs.
LEMMA PairAtIs ==
    ASSUME NEW K, NEW x \in Seq(WordsBy(K)), NEW i \in 1 .. Len(x), NEW direct
    PROVE  LET y == PairAt(x, i, direct)
           IN  /\ y \in Seq(WordsBy(K)) /\ Alike(y, x)
               /\ HonorificPair(x, i) => y[i].spk = y[i + 1].spk
               /\ ~ HonorificPair(x, i) => y = x
               /\ \A j \in 1 .. Len(x) : j # i /\ j # i + 1 => y[j] = x[j]
<1> DEFINE n == Len(x)
           y == PairAt(x, i, direct)
<1>1. n \in Nat /\ \A j \in 1 .. n : x[j].spk \in K
  <2> SUFFICES ASSUME NEW j \in 1 .. n PROVE x[j].spk \in K
    OBVIOUS
  <2> DEFINE w == x[j]
  <2>1. w \in WordsBy(K)
    OBVIOUS
  <2> HIDE DEF w
  <2> QED BY <2>1 DEF WordsBy, w
<1>2. CASE ~ HonorificPair(x, i)
  <2>1. y = x
    BY <1>2 DEF PairAt
  <2>2. Alike(x, x)
    BY DEF Alike
  <2> HIDE DEF y
  <2> QED BY <1>2, <2>1, <2>2 DEF y
<1>3. CASE HonorificPair(x, i)
  <2>1. i + 1 \in 1 .. n /\ i + 1 # i
    BY <1>1, <1>3 DEF HonorificPair
  <2> DEFINE a == x[i + 1].spk
             b == x[i].spk
             p == WithLabel(x, i, a)
             q == WithLabel(x, i + 1, b)
             k == i + 1
  <2>2. a \in K /\ b \in K /\ k \in 1 .. n
    BY <1>1, <2>1
  <2>3. y = p \/ y = q
    BY <1>3, Zenon DEF PairAt, WithLabel
  <2> HIDE DEF a, b, k
  <2>4. /\ p \in Seq(WordsBy(K)) /\ Alike(p, x)
        /\ p[i].spk = a /\ \A j \in 1 .. n : j # i => p[j] = x[j]
    BY <2>2, LabelSet
  <2>5. q = WithLabel(x, k, b)
    BY DEF k
  <2>6. /\ q \in Seq(WordsBy(K)) /\ Alike(q, x)
        /\ q[k].spk = b /\ \A j \in 1 .. n : j # k => q[j] = x[j]
    <3> HIDE DEF q
    <3> QED BY <2>2, <2>5, LabelSet
  <2> HIDE DEF p, q, y
  <2>7. p[i].spk = p[i + 1].spk
    BY <2>1, <2>4 DEF a
  <2>8. q[i].spk = q[i + 1].spk
    BY <2>1, <2>6 DEF b, k
  <2>9. CASE y = p
    BY <1>3, <2>4, <2>7, <2>9 DEF y
  <2>10. CASE y = q
    BY <1>3, <2>6, <2>8, <2>10 DEF y, k
  <2> QED BY <2>3, <2>9, <2>10
<1> QED BY <1>2, <1>3

\* Pairs said without a pause have one label.
LEMMA PairedIs ==
    ASSUME NEW K, NEW f \in Seq(WordsBy(K)), NEW direct
    PROVE  LET ps == Paired(f, direct)
           IN  /\ ps \in Seq(WordsBy(K)) /\ Alike(ps, f)
               /\ \A i \in 1 .. Len(f) : HonorificPair(f, i) => ps[i].spk = ps[i + 1].spk
<1> DEFINE n == Len(f)
           U == WordsBy(K)
           T == {x \in Seq(U) : Alike(x, f)}
<1>1. n \in Nat /\ f \in T
  BY DEF Alike
<1>2. ASSUME NEW x \in T, NEW i \in 1 .. n PROVE PairAt(x, i, direct) \in T
  <2>1. x \in Seq(WordsBy(K)) /\ Alike(x, f) /\ i \in 1 .. Len(x)
    BY DEF Alike
  <2>2. PairAt(x, i, direct) \in Seq(WordsBy(K)) /\ Alike(PairAt(x, i, direct), x)
    BY <2>1, PairAtIs
  <2>3. Alike(PairAt(x, i, direct), f)
    BY <2>1, <2>2, AlikeTrans
  <2> QED BY <2>2, <2>3
<1>3. f \in Seq(U) /\ \A x \in T : x \in Seq(U) /\ Alike(x, f)
  OBVIOUS
<1> HIDE DEF T, U
<1>4. PICK g \in [0 .. n -> T] :
          /\ g[0] = f /\ g[n] = Paired(f, direct)
          /\ \A m \in 1 .. n : g[m] = PairAt(g[m - 1], m, direct)
  <2>1. \A x \in T : \A i \in 1 .. n : PairAt(x, i, direct) \in T
    BY <1>2
  <2>2. f \in Seq(U) /\ f \in T
    BY <1>1, <1>3
  <2>3. PICK g : PairsUpTo(g, f, direct, T)
    BY <2>1, <2>2, PairFold
  <2> QED BY <2>3, Zenon DEF PairsUpTo
<1> DEFINE Equal(x, m) == \A i \in 1 .. m : HonorificPair(f, i) => x[i].spk = x[i + 1].spk
           S == {m \in 0 .. n : Equal(g[m], m)}
<1>5. 0 \in S
  BY <1>1
<1>6. ASSUME NEW m \in 0 .. n - 1, m \in S PROVE m + 1 \in S
  <2>1. m + 1 \in 1 .. n /\ m + 1 \in 0 .. n /\ (m + 1) - 1 = m /\ m \in 0 .. n
    BY <1>1
  <2> DEFINE x == g[m]
             k == m + 1
             y == PairAt(x, k, direct)
  <2>2. g[m + 1] = y /\ x \in T
    BY <1>4, <2>1
  <2>3. x \in Seq(WordsBy(K)) /\ Alike(x, f) /\ Len(x) = n /\ k \in 1 .. n
    BY <1>3, <2>1, <2>2 DEF U, Alike
  <2>4. Equal(x, m)
    BY <1>6
  <2>5. m = k - 1
    BY <2>1
  <2> HIDE DEF x, k
  <2>6. /\ HonorificPair(x, k) => y[k].spk = y[k + 1].spk
        /\ ~ HonorificPair(x, k) => y = x
        /\ \A j \in 1 .. n : j # k /\ j # k + 1 => y[j] = x[j]
    BY <2>3, PairAtIs
  <2> HIDE DEF y
  <2>7. HonorificPair(x, k) <=> HonorificPair(f, k)
    BY <1>1, <2>3, PairsAre
  <2>8. ASSUME NEW i \in 1 .. k, HonorificPair(f, i) PROVE y[i].spk = y[i + 1].spk
    <3>1. CASE i = k
      BY <2>6, <2>7, <2>8, <3>1
    <3>2. CASE i # k
      <4>1. i \in 1 .. m /\ i \in 1 .. n /\ i + 1 \in 1 .. n
        BY <1>1, <2>3, <2>5, <3>2
      <4>2. x[i].spk = x[i + 1].spk
        BY <2>4, <2>8, <4>1
      <4>3. CASE ~ HonorificPair(x, k)
        BY <2>6, <4>2, <4>3
      <4>4. CASE HonorificPair(x, k)
        <5>1. k # i + 1
          BY <1>1, <2>3, <2>7, <2>8, <4>1, <4>4, PairsAre
        <5>2. i # k + 1 /\ i + 1 # k + 1
          BY <1>1, <2>3, <3>2, <4>1
        <5>3. y[i] = x[i] /\ y[i + 1] = x[i + 1]
          BY <2>6, <3>2, <4>1, <5>1, <5>2
        <5> QED BY <4>2, <5>3
      <4> QED BY <4>3, <4>4
    <3> QED BY <3>1, <3>2
  <2>9. Equal(g[m + 1], m + 1)
    BY <2>2, <2>8 DEF k
  <2> HIDE DEF Equal
  <2> QED BY <2>1, <2>9
<1>7. 0 .. n \subseteq S
  <2> HIDE DEF S
  <2> QED BY <1>1, <1>5, <1>6, InductionUpTo
<1> DEFINE ps == Paired(f, direct)
<1>8. n \in 0 .. n /\ g[n] = ps
  BY <1>1, <1>4
<1>9. g[n] \in T /\ Equal(g[n], n)
  BY <1>7, <1>8
<1> HIDE DEF ps
<1>10. ps \in Seq(U) /\ Alike(ps, f)
  BY <1>3, <1>8, <1>9
<1>11. \A i \in 1 .. n : HonorificPair(f, i) => ps[i].spk = ps[i + 1].spk
  BY <1>8, <1>9
<1> QED BY <1>10, <1>11 DEF ps, U

-----------------------------------------------------------------------------
(* Segments                                                                *)

\* A segment is of one speaker, and shorter than 20 s if it has several words.
Segment(W) ==
    {seg \in Seq(W) :
        /\ seg # <<>>
        /\ \A i \in 1 .. Len(seg) : seg[i].spk = seg[1].spk
        /\ Len(seg) > 1 => seg[Len(seg)].en - seg[1].st < 20000}

\* A word begins a segment or goes on with the last one; either way the segments
\* are what they were and that word.
LEMMA RefineWordIs ==
    ASSUME NEW W, \A v \in W : v.st \in Int /\ v.en \in Int,
           NEW acc \in Seq(Segment(W)), NEW w \in W
    PROVE  LET new == RefineWord(acc, w)
           IN  /\ new \in Seq(Segment(W))
               /\ FlattenSeq(acc) \in Seq(W) /\ FlattenSeq(new) = Append(FlattenSeq(acc), w)
<1> DEFINE n == Len(acc)
           S == Segment(W)
           new == RefineWord(acc, w)
<1>1. n \in Nat /\ DOMAIN acc = 1 .. n /\ \A i \in 1 .. n : acc[i] \in S
  OBVIOUS
<1>2. S \subseteq Seq(W)
  BY DEF Segment
<1>3. acc \in Seq(Seq(W))
  <2>1. acc \in [1 .. n -> Seq(W)]
    BY <1>1, <1>2
  <2> QED BY <1>1, <2>1, FunctionIsSeq
<1>4. CASE acc = <<>> \/ SplitsBefore(Last(acc), w)
  <2> DEFINE t == <<w>>
             y == Append(acc, t)
  <2>1. new = y
    BY <1>4 DEF RefineWord
  <2>2. t \in S /\ t \in Seq(W)
    BY DEF Segment
  <2> HIDE DEF t, new, S
  <2>3. y \in Seq(S) /\ y \in Seq(Seq(W)) /\ Len(y) = n + 1 /\ y[n + 1] = t /\ \A i \in 1 .. n : y[i] = acc[i]
    BY <1>1, <1>3, <2>2 DEF S
  <2> HIDE DEF y
  <2>4. FlattenSeq(y) = FlattenSeq(acc) \o t /\ FlattenSeq(acc) \in Seq(W)
    BY <1>3, <2>3, FlattenMore
  <2>5. FlattenSeq(acc) \o t = Append(FlattenSeq(acc), w)
    BY <2>4 DEF t
  <2> QED BY <2>1, <2>3, <2>4, <2>5 DEF S, new
<1>5. CASE ~ (acc = <<>> \/ SplitsBefore(Last(acc), w))
  <2> DEFINE old == acc[n]
             m == n - 1
             t == Append(old, w)
             y == [acc EXCEPT ![n] = t]
             front == [i \in 1 .. m |-> acc[i]]
  <2>1. n \in 1 .. n /\ m \in Nat /\ n = m + 1 /\ \A i \in 1 .. m : i \in 1 .. n /\ i # n
    <3>1. n # 0
      BY <1>5, EmptySeq
    <3> HIDE DEF n
    <3> QED BY <1>1, <3>1
  <2>2. new = y
    BY <1>5, Zenon DEF RefineWord
  <2>3. old \in S /\ ~ SplitsBefore(old, w)
    BY <1>1, <1>5, <2>1 DEF Last
  <2> HIDE DEF old, new, y
  <2>4. t \in S /\ t \in Seq(W)
    <3> DEFINE k == Len(old)
    <3>1. /\ old \in Seq(W) /\ old # <<>>
          /\ \A i \in 1 .. k : old[i].spk = old[1].spk
      BY <2>3 DEF Segment
    <3>2. k \in Nat /\ k # 0 /\ 1 \in 1 .. k /\ k \in 1 .. k
      BY <3>1, EmptySeq
    <3>3. w.spk = old[k].spk /\ ~ (w.en - old[1].st >= 20000)
      BY <2>3 DEF SplitsBefore, Last
    <3>4. t \in Seq(W) /\ Len(t) = k + 1 /\ t[k + 1] = w /\ \A i \in 1 .. k : t[i] = old[i]
      BY <3>1
    <3> HIDE DEF t, k
    <3>5. \A i \in 1 .. k + 1 : t[i].spk = t[1].spk
      <4> SUFFICES ASSUME NEW i \in 1 .. k + 1 PROVE t[i].spk = t[1].spk
        OBVIOUS
      <4>1. t[1] = old[1]
        BY <3>2, <3>4
      <4>2. CASE i = k + 1
        BY <3>1, <3>2, <3>3, <3>4, <4>1, <4>2
      <4>3. CASE i # k + 1
        <5>1. i \in 1 .. k
          BY <3>2, <4>3
        <5> QED BY <3>1, <3>4, <4>1, <5>1
      <4> QED BY <4>2, <4>3
    <3>6. t[Len(t)].en - t[1].st < 20000
      <4>1. t[Len(t)] = w /\ t[1] = old[1]
        BY <3>2, <3>4
      <4>2. w.en \in Int /\ old[1].st \in Int
        BY <3>1, <3>2
      <4> QED BY <3>3, <4>1, <4>2
    <3>7. t # <<>>
      BY <3>2, <3>4
    <3> QED BY <3>4, <3>5, <3>6, <3>7 DEF Segment
  <2> HIDE DEF t, S, m
  <2>5. y = [i \in 1 .. n |-> IF i = n THEN t ELSE acc[i]]
    BY <1>1 DEF y
  <2>6. y \in Seq(S) /\ y \in Seq(Seq(W)) /\ Len(y) = n /\ y[n] = t
    <3>1. y \in [1 .. n -> S] /\ y \in [1 .. n -> Seq(W)]
      BY <1>1, <1>2, <2>4, <2>5
    <3>2. y[n] = t
      BY <2>1, <2>5
    <3> HIDE DEF n
    <3> QED BY <1>1, <3>1, <3>2, FunctionIsSeq
  <2>7. front \in Seq(Seq(W)) /\ Len(front) = m
    <3>1. front \in [1 .. m -> Seq(W)]
      BY <1>1, <1>2, <2>1
    <3> HIDE DEF front
    <3> QED BY <2>1, <3>1, FunctionIsSeq
  <2>8. \A i \in 1 .. m : acc[i] = front[i] /\ y[i] = front[i]
    BY <2>1, <2>5
  <2> HIDE DEF front
  <2>9. FlattenSeq(acc) = FlattenSeq(front) \o old /\ FlattenSeq(front) \in Seq(W) /\ FlattenSeq(acc) \in Seq(W)
    <3>1. Len(acc) = Len(front) + 1 /\ \A i \in 1 .. Len(front) : acc[i] = front[i]
      BY <2>1, <2>7, <2>8
    <3>2. /\ FlattenSeq(acc) = FlattenSeq(front) \o acc[Len(acc)]
          /\ FlattenSeq(front) \in Seq(W) /\ FlattenSeq(acc) \in Seq(W)
      BY <1>3, <2>7, <3>1, FlattenMore
    <3> QED BY <3>2 DEF old
  <2>10. FlattenSeq(y) = FlattenSeq(front) \o t
    <3>1. Len(y) = Len(front) + 1 /\ \A i \in 1 .. Len(front) : y[i] = front[i]
      BY <2>1, <2>6, <2>7, <2>8
    <3>2. FlattenSeq(y) = FlattenSeq(front) \o y[Len(y)]
      BY <2>6, <2>7, <3>1, FlattenMore
    <3> QED BY <2>6, <3>2
  <2>11. FlattenSeq(front) \o t = Append(FlattenSeq(front) \o old, w)
    <3> DEFINE a == FlattenSeq(front)
    <3>1. a \in Seq(W) /\ old \in Seq(W)
      BY <1>2, <2>3, <2>9
    <3> HIDE DEF a
    <3> QED BY <3>1 DEF t
  <2> QED BY <2>2, <2>6, <2>9, <2>10, <2>11 DEF S, new
<1> QED BY <1>4, <1>5 DEF S

\* The segments are all the words, in order.
LEMMA RefinedIs ==
    ASSUME NEW W, \A v \in W : v.st \in Int /\ v.en \in Int,
           NEW ws \in Seq(W)
    PROVE  LET rs == Refined(ws)
           IN  rs \in Seq(Segment(W)) /\ FlattenSeq(rs) = ws
<1> DEFINE n == Len(ws)
           T == Seq(Segment(W))
           U == W
<1>1. n \in Nat /\ <<>> \in T /\ \A i \in 1 .. n : ws[i] \in W
  OBVIOUS
<1>2. ASSUME NEW x \in T, NEW i \in 1 .. n PROVE RefineWord(x, ws[i]) \in T
  <2> DEFINE w == ws[i]
  <2>1. w \in W
    OBVIOUS
  <2> HIDE DEF w
  <2>2. RefineWord(x, w) \in T
    BY <2>1, RefineWordIs
  <2> QED BY <2>2 DEF w
<1> HIDE DEF T
<1>3. PICK g \in [0 .. n -> T] :
          /\ g[0] = <<>> /\ g[n] = Refined(ws)
          /\ \A m \in 1 .. n : g[m] = RefineWord(g[m - 1], ws[m])
  <2>1. \A x \in T : \A i \in 1 .. n : RefineWord(x, ws[i]) \in T
    BY <1>2
  <2>2. ws \in Seq(W) /\ <<>> \in T
    BY <1>1
  <2> QED BY <2>1, <2>2, RefineFold, SMTT(60)
<1> DEFINE Begins(x, m) == x \in Seq(W) /\ Len(x) = m /\ \A i \in 1 .. m : x[i] = ws[i]
           S == {m \in 0 .. n : Begins(FlattenSeq(g[m]), m)}
<1>4. 0 \in S
  <2>1. FlattenSeq(<<>>) = <<>>
    BY DEF FlattenSeq
  <2>2. Begins(<<>>, 0)
    OBVIOUS
  <2>3. g[0] = <<>> /\ 0 \in 0 .. n
    BY <1>1, <1>3
  <2>4. Begins(FlattenSeq(g[0]), 0)
    BY <2>1, <2>2, <2>3
  <2> HIDE DEF Begins
  <2> QED BY <2>3, <2>4
<1>5. ASSUME NEW m \in 0 .. n - 1, m \in S PROVE m + 1 \in S
  <2>1. m + 1 \in 1 .. n /\ m + 1 \in 0 .. n /\ (m + 1) - 1 = m /\ m \in 0 .. n /\ m \in Nat
    BY <1>1
  <2> DEFINE x == g[m]
             w == ws[m + 1]
             y == FlattenSeq(x)
             z == FlattenSeq(g[m + 1])
  <2>2. x \in Seq(Segment(W)) /\ w \in W /\ g[m + 1] = RefineWord(x, w)
    BY <1>1, <1>3, <2>1 DEF T
  <2> HIDE DEF x, w
  <2>3. z = Append(y, w)
    BY <2>2, RefineWordIs
  <2>4. Begins(y, m)
    BY <1>5 DEF x
  <2> HIDE DEF y, z
  <2>5. z \in Seq(W) /\ Len(z) = m + 1 /\ z[m + 1] = w /\ \A i \in 1 .. m : z[i] = y[i]
    BY <2>2, <2>3, <2>4
  <2>6. \A i \in 1 .. m + 1 : z[i] = ws[i]
    <3>1. \A i \in 1 .. m + 1 : i = m + 1 \/ i \in 1 .. m
      BY <2>1
    <3> QED BY <2>4, <2>5, <3>1 DEF w
  <2>7. Begins(z, m + 1)
    BY <2>5, <2>6
  <2> HIDE DEF Begins
  <2> QED BY <2>1, <2>7 DEF z
<1>6. 0 .. n \subseteq S
  <2> HIDE DEF S
  <2> QED BY <1>1, <1>4, <1>5, InductionUpTo
<1> DEFINE rs == Refined(ws)
<1>7. n \in 0 .. n /\ g[n] = rs
  BY <1>1, <1>3
<1> HIDE DEF rs
<1> DEFINE f == FlattenSeq(rs)
<1>8. Begins(f, n) /\ rs \in T
  BY <1>6, <1>7
<1> HIDE DEF f
<1>9. f = ws
  BY <1>8
<1> QED BY <1>8, <1>9 DEF f, T, rs

-----------------------------------------------------------------------------
(* What assign_speakers promises                                           *)

\* Turns that are joined and renumbered.
LEMMA ConsolidatedIs ==
    ASSUME NEW tt \in Seq(Lasting(Nat)), tt # <<>>, NEW gap
    PROVE  LET ts == Renumbered(JoinPauses(ByStart(tt), gap))
           IN  /\ ts \in Seq(Lasting(LabelsOf(ts))) /\ ts # <<>>
               /\ LabelsOf(ts) \in SUBSET Nat /\ 0 \in LabelsOf(ts)
               /\ Cardinality(LabelsOf(ts)) <= Cardinality(LabelsOf(tt))
<1> DEFINE n == Len(tt)
           L == LabelsOf(tt)
           bs == ByStart(tt)
           js == JoinPauses(bs, gap)
           ts == Renumbered(js)
           U == Lasting(L)
<1>1. n \in Nat /\ DOMAIN tt = 1 .. n /\ \A i \in 1 .. n : tt[i] \in Lasting(Nat)
  OBVIOUS
<1>2. \A i \in 1 .. n : tt[i] \in Lasting(L)
  BY <1>1 DEF Lasting, LabelsOf
<1>3. L \in SUBSET Nat /\ IsFiniteSet(L)
  <2>1. L \in SUBSET Nat
    BY <1>1 DEF LabelsOf, Lasting, Turn
  <2> QED BY <2>1, LabelsFinite
<1> HIDE DEF L
<1>4. tt \in Seq(U)
  <2>1. tt \in [1 .. n -> U]
    BY <1>1, <1>2
  <2> HIDE DEF U, n
  <2> QED BY <1>1, <2>1, FunctionIsSeq
<1>5. bs \in Seq(U) /\ bs # <<>>
  <2> HIDE DEF U
  <2> QED BY <1>4, ByStartIs
<1> HIDE DEF bs
<1>6. js \in Seq(Lasting(L)) /\ js # <<>>
  BY <1>5, JoinPausesIs
<1> HIDE DEF js
<1>7. js \in Seq(Lasting(Nat)) /\ LabelsOf(js) \subseteq L
  <2>1. Len(js) \in Nat /\ DOMAIN js = 1 .. Len(js) /\ \A i \in 1 .. Len(js) : js[i] \in Lasting(L)
    BY <1>6
  <2>2. LabelsOf(js) \subseteq L
    BY <2>1 DEF LabelsOf, Lasting
  <2>3. \A i \in 1 .. Len(js) : js[i] \in Lasting(Nat)
    BY <1>3, <2>1 DEF Lasting
  <2> DEFINE V == Lasting(Nat)
             k == Len(js)
  <2>4. js \in [1 .. k -> V] /\ k \in Nat
    BY <1>6, <2>1, <2>3
  <2> HIDE DEF V, k
  <2>5. js \in Seq(V)
    BY <2>4, FunctionIsSeq
  <2> QED BY <2>2, <2>5 DEF V
<1>8. Cardinality(LabelsOf(js)) <= Cardinality(L)
  BY <1>3, <1>7, FS_Subset
<1>9. /\ ts \in Seq(Lasting(LabelsOf(ts))) /\ ts # <<>>
      /\ LabelsOf(ts) \in SUBSET Nat /\ 0 \in LabelsOf(ts)
      /\ Cardinality(LabelsOf(ts)) <= Cardinality(LabelsOf(js))
  BY <1>6, <1>7, TurnsRenumbered
<1> HIDE DEF ts
<1>10. /\ Cardinality(LabelsOf(ts)) \in Nat /\ Cardinality(LabelsOf(js)) \in Nat
       /\ Cardinality(L) \in Nat
  BY <1>3, <1>7, <1>9, LabelsFinite, FS_CardinalityType
<1>11. Cardinality(LabelsOf(ts)) <= Cardinality(L)
  BY <1>8, <1>9, <1>10
<1> QED BY <1>9, <1>11 DEF ts, js, bs, L

\* The words with their labels filled in, paired and renumbered.
LEMMA LabelledIs ==
    ASSUME NEW K \in SUBSET Nat, 0 \in K, IsFiniteSet(K),
           NEW ws \in Seq(WordsBy(K \cup {-1})), NEW direct
    PROVE  LET ls == Labelled(ws, direct)
           IN  /\ ls \in Seq(WordsBy(Nat)) /\ Len(ls) = Len(ws)
               /\ Cardinality(LabelsOf(ls)) <= Cardinality(K)
               /\ \A i \in DOMAIN ls :
                     /\ ls[i].spk \in 0 .. Cardinality({ls[j].spk : j \in 1 .. i - 1})
                     /\ HonorificPair(ls, i) => ls[i].spk = ls[i + 1].spk
<1> DEFINE f == Filled(ws)
           ps == Paired(f, direct)
           ls == Renumbered(ps)
           n == Len(f)
<1>1. f \in Seq(WordsBy(K)) /\ Alike(f, ws)
  BY FilledIs
<1> HIDE DEF f
<1>2. /\ ps \in Seq(WordsBy(K)) /\ Alike(ps, f)
      /\ \A i \in 1 .. n : HonorificPair(f, i) => ps[i].spk = ps[i + 1].spk
  BY <1>1, PairedIs
<1> HIDE DEF ps
<1>3. /\ ls \in Seq(WordsBy(Nat)) /\ Alike(ls, ps)
      /\ Cardinality(LabelsOf(ls)) <= Cardinality(LabelsOf(ps))
      /\ \A i \in DOMAIN ls : ls[i].spk \in 0 .. Cardinality({ls[j].spk : j \in 1 .. i - 1})
      /\ \A i, j \in DOMAIN ls : ps[i].spk = ps[j].spk => ls[i].spk = ls[j].spk
  BY <1>2, WordsRenumbered
<1> HIDE DEF ls
<1>4. n \in Nat /\ Len(ls) = n /\ DOMAIN ls = 1 .. n /\ Len(ls) = Len(ws)
  BY <1>1, <1>2, <1>3 DEF Alike
<1>5. Alike(ls, f)
  BY <1>2, <1>3, AlikeTrans
<1>6. ASSUME NEW i \in 1 .. n, HonorificPair(ls, i) PROVE ls[i].spk = ls[i + 1].spk
  <2>1. HonorificPair(f, i) /\ i + 1 \in 1 .. n
    BY <1>4, <1>5, <1>6, PairsAre
  <2> QED BY <1>2, <1>3, <1>4, <2>1
<1>7. Cardinality(LabelsOf(ls)) <= Cardinality(K)
  <2>1. \A i \in DOMAIN ps : ps[i] \in WordsBy(K)
    BY <1>2
  <2>2. LabelsOf(ps) \subseteq K
    <3> SUFFICES ASSUME NEW i \in DOMAIN ps PROVE ps[i].spk \in K
      BY DEF LabelsOf
    <3> DEFINE w == ps[i]
    <3>1. w \in WordsBy(K)
      BY <2>1
    <3> HIDE DEF w
    <3> QED BY <3>1 DEF WordsBy, w
  <2>3. Cardinality(LabelsOf(ps)) <= Cardinality(K) /\ Cardinality(K) \in Nat
    BY <2>2, FS_Subset, FS_CardinalityType
  <2>4. Cardinality(LabelsOf(ps)) \in Nat /\ Cardinality(LabelsOf(ls)) \in Nat
    BY <1>2, <1>3, LabelsFinite
  <2> QED BY <1>3, <2>3, <2>4
<1>8. Labelled(ws, direct) = ls
  BY DEF Labelled, ls, ps, f
<1>9. /\ ls \in Seq(WordsBy(Nat)) /\ Len(ls) = Len(ws)
      /\ Cardinality(LabelsOf(ls)) <= Cardinality(K)
      /\ \A i \in DOMAIN ls :
            /\ ls[i].spk \in 0 .. Cardinality({ls[j].spk : j \in 1 .. i - 1})
            /\ HonorificPair(ls, i) => ls[i].spk = ls[i + 1].spk
  <2>1. ASSUME NEW i \in DOMAIN ls
        PROVE  /\ ls[i].spk \in 0 .. Cardinality({ls[j].spk : j \in 1 .. i - 1})
               /\ HonorificPair(ls, i) => ls[i].spk = ls[i + 1].spk
    BY <1>3, <1>4, <1>6
  <2> QED BY <1>3, <1>4, <1>7, <2>1
<1> QED BY <1>8, <1>9, ZenonT(60)

\* A segment of one speaker that is long only if it is a single word.
WellCut(seg) ==
    /\ Cardinality(LabelsOf(seg)) = 1
    /\ Len(seg) > 1 => Last(seg).en - seg[1].st < 20000

\* What WordsAssigned says of turns, words and segments.
Assigned(ts, ws, rs) ==
    /\ Cardinality(LabelsOf(ws)) <= Max({1, Cardinality(LabelsOf(ts))})
    /\ \A i \in DOMAIN ws :
          /\ ws[i].spk \in 0 .. Cardinality({ws[j].spk : j \in 1 .. i - 1})
          /\ HonorificPair(ws, i) => ws[i].spk = ws[i + 1].spk
    /\ ts # <<>> => FlattenSeq(rs) = ws
    /\ \A i \in DOMAIN rs : WellCut(rs[i])

AllLabels == Nat \cup {-1}

\* The greater of 1 and a number.
LEMMA MaxOne ==
    ASSUME NEW n \in Nat
    PROVE  Max({1, n}) \in Nat /\ 1 <= Max({1, n}) /\ n <= Max({1, n})
<1>1. \E x \in {1, n} : \A y \in {1, n} : x >= y
  <2>1. CASE n >= 1
    BY <2>1
  <2>2. CASE ~ (n >= 1)
    BY <2>2
  <2> QED BY <2>1, <2>2
<1>2. Max({1, n}) \in {1, n} /\ \A y \in {1, n} : Max({1, n}) >= y
  BY <1>1 DEF Max
<1> QED BY <1>2

\* Without turns all the words are of SPEAKER_00.
LEMMA AssignedNone ==
    ASSUME NEW ws \in Seq(WordsBy(AllLabels))
    PROVE  Relabel(ws, 0) \in Seq(WordsBy(AllLabels)) /\ Assigned(<<>>, Relabel(ws, 0), <<>>)
<1> DEFINE n == Len(ws)
           rs == Relabel(ws, 0)
<1>1. n \in Nat /\ DOMAIN ws = 1 .. n /\ \A i \in 1 .. n : ws[i] \in WordsBy(AllLabels)
  OBVIOUS
<1>2. rs = [i \in 1 .. n |-> [ws[i] EXCEPT !.spk = 0]]
  BY <1>1 DEF Relabel
<1> HIDE DEF rs
<1>3. ASSUME NEW i \in 1 .. n PROVE rs[i] \in WordsBy(AllLabels) /\ rs[i].spk = 0
  <2> DEFINE w == ws[i]
             v == [w EXCEPT !.spk = 0]
  <2>1. w \in WordsBy(AllLabels) /\ rs[i] = v
    BY <1>1, <1>2
  <2> HIDE DEF w
  <2>2. v \in WordsBy(AllLabels) /\ v.spk = 0
    BY <2>1 DEF WordsBy, AllLabels
  <2> QED BY <2>1, <2>2
<1>4. rs \in Seq(WordsBy(AllLabels)) /\ Len(rs) = n /\ DOMAIN rs = 1 .. n
  <2> DEFINE U == WordsBy(AllLabels)
  <2>1. rs \in [1 .. n -> U]
    BY <1>2, <1>3
  <2> HIDE DEF U
  <2>2. rs \in Seq(U) /\ Len(rs) = n /\ DOMAIN rs = 1 .. n
    BY <1>1, <2>1, FunctionIsSeq
  <2> QED BY <2>2 DEF U
<1>5. Cardinality(LabelsOf(rs)) <= Max({1, Cardinality(LabelsOf(<<>>))})
  <2>1. LabelsOf(rs) \subseteq {0}
    BY <1>3, <1>4 DEF LabelsOf
  <2>2. IsFiniteSet({0}) /\ Cardinality({0}) = 1
    BY FS_Singleton
  <2>3. Cardinality(LabelsOf(rs)) <= 1
    BY <2>1, <2>2, FS_Subset
  <2>4. LabelsOf(<<>>) = {}
    BY DEF LabelsOf
  <2>5. Cardinality(LabelsOf(<<>>)) = 0
    BY <2>4, FS_EmptySet
  <2> DEFINE e == Cardinality(LabelsOf(<<>>))
  <2> HIDE DEF e
  <2>6. 1 <= Max({1, e}) /\ Max({1, e}) \in Nat
    <3>1. e \in Nat
      BY <2>5 DEF e
    <3> QED BY <3>1, MaxOne
  <2> DEFINE mx == Max({1, e})
  <2> HIDE DEF mx
  <2>8. 1 <= mx /\ mx \in Nat
    BY <2>6 DEF mx
  <2>7. Cardinality(LabelsOf(rs)) \in Nat
    BY <1>4, LabelsFinite
  <2>9. Cardinality(LabelsOf(rs)) <= mx
    BY <2>3, <2>7, <2>8
  <2> QED BY <2>9 DEF mx, e
<1>6. ASSUME NEW i \in DOMAIN rs
      PROVE  /\ rs[i].spk \in 0 .. Cardinality({rs[j].spk : j \in 1 .. i - 1})
             /\ HonorificPair(rs, i) => rs[i].spk = rs[i + 1].spk
  <2> DEFINE E == {rs[j].spk : j \in 1 .. i - 1}
  <2>1. E \subseteq {0}
    BY <1>1, <1>3, <1>4
  <2> HIDE DEF E
  <2>2. Cardinality(E) \in Nat
    BY <2>1, FS_Singleton, FS_Subset, FS_CardinalityType
  <2>3. HonorificPair(rs, i) => i + 1 \in 1 .. n
    BY <1>1, <1>4 DEF HonorificPair
  <2>4. rs[i].spk = 0 /\ rs[i].spk \in 0 .. Cardinality(E)
    BY <1>3, <1>4, <2>2
  <2> QED BY <1>3, <2>3, <2>4 DEF E
<1>7. DOMAIN <<>> = {}
  OBVIOUS
<1> QED BY <1>4, <1>5, <1>6, <1>7 DEF Assigned, rs

\* With turns: what Labelled and Refined leave.
LEMMA AssignedSome ==
    ASSUME NEW tt \in Seq(Lasting(Nat)), tt # <<>>,
           NEW ts, ts = Renumbered(JoinPauses(ByStart(tt), 300)),
           words \in Seq(WordsBy(AllLabels)),
           NEW labels \in Labellings(ts), NEW direct, NEW ws,
           ws = Labelled([i \in DOMAIN words |-> [words[i] EXCEPT !.spk = labels[i]]], direct)
    PROVE  ws \in Seq(WordsBy(AllLabels)) /\ Assigned(tt, ws, Refined(ws))
<1> DEFINE n == Len(words)
           K == LabelsOf(ts)
           ks == [i \in DOMAIN words |-> [words[i] EXCEPT !.spk = labels[i]]]
           rs == Refined(ws)
<1>1. /\ ts \in Seq(Lasting(K)) /\ ts # <<>>
      /\ K \in SUBSET Nat /\ 0 \in K /\ Cardinality(K) <= Cardinality(LabelsOf(tt))
  BY ConsolidatedIs
<1>2. IsFiniteSet(K) /\ Cardinality(K) \in Nat /\ Cardinality(LabelsOf(tt)) \in Nat
  BY <1>1, LabelsFinite
<1> HIDE DEF K
<1>3. n \in Nat /\ DOMAIN words = 1 .. n /\ \A i \in 1 .. n : words[i] \in WordsBy(AllLabels)
  OBVIOUS
<1>4. \A i \in 1 .. n : labels[i] \in K \cup {-1}
  <2> DEFINE M == K \cup {-1}
  <2>1. labels \in Seq(M) /\ Len(labels) = n
    <3>1. words \in Seq(WordsBy(AllLabels))
      OBVIOUS
    <3>2. \A ls \in Labellings(ts) : ls \in Seq(K \cup {-1}) /\ Len(ls) = Len(words)
      BY <1>1, <3>1, LabellingsAre
    <3> QED BY <3>2
  <2> HIDE DEF M
  <2>2. \A i \in 1 .. n : labels[i] \in M
    BY <2>1
  <2> QED BY <2>2 DEF M
<1>5. ks \in Seq(WordsBy(K \cup {-1})) /\ Len(ks) = n
  <2> DEFINE M == K \cup {-1}
             U == WordsBy(M)
  <2>1. ASSUME NEW i \in 1 .. n PROVE [words[i] EXCEPT !.spk = labels[i]] \in U
    <3> DEFINE w == words[i]
               l == labels[i]
    <3>1. w \in WordsBy(AllLabels) /\ l \in M
      BY <1>3, <1>4
    <3> HIDE DEF w, l, M
    <3>2. [w EXCEPT !.spk = l] \in U
      BY <3>1 DEF WordsBy
    <3> QED BY <3>2 DEF w, l
  <2>2. ks = [i \in 1 .. n |-> [words[i] EXCEPT !.spk = labels[i]]]
    BY <1>3
  <2> HIDE DEF U, M, ks
  <2>3. ks \in [1 .. n -> U]
    BY <2>1, <2>2
  <2> HIDE DEF n
  <2>4. ks \in Seq(U) /\ Len(ks) = n
    BY <1>3, <2>3, FunctionIsSeq
  <2> QED BY <2>4 DEF U, M
<1> HIDE DEF ks
<1>6. /\ ws \in Seq(WordsBy(Nat)) /\ Len(ws) = Len(ks)
      /\ Cardinality(LabelsOf(ws)) <= Cardinality(K)
      /\ \A i \in DOMAIN ws :
            /\ ws[i].spk \in 0 .. Cardinality({ws[j].spk : j \in 1 .. i - 1})
            /\ HonorificPair(ws, i) => ws[i].spk = ws[i + 1].spk
  <2>1. ws = Labelled(ks, direct)
    BY DEF ks
  <2> DEFINE ls == Labelled(ks, direct)
  <2>2. /\ ls \in Seq(WordsBy(Nat)) /\ Len(ls) = Len(ks)
        /\ Cardinality(LabelsOf(ls)) <= Cardinality(K)
        /\ \A i \in DOMAIN ls :
              /\ ls[i].spk \in 0 .. Cardinality({ls[j].spk : j \in 1 .. i - 1})
              /\ HonorificPair(ls, i) => ls[i].spk = ls[i + 1].spk
    BY <1>1, <1>2, <1>5, LabelledIs
  <2> HIDE DEF ls
  <2>3. ls = ws
    BY <2>1 DEF ls
  <2>4. /\ ws \in Seq(WordsBy(Nat)) /\ Len(ws) = Len(ks)
        /\ Cardinality(LabelsOf(ws)) <= Cardinality(K)
    BY <2>2, <2>3
  <2>5. ASSUME NEW i \in DOMAIN ws
        PROVE  /\ ws[i].spk \in 0 .. Cardinality({ws[j].spk : j \in 1 .. i - 1})
               /\ HonorificPair(ws, i) => ws[i].spk = ws[i + 1].spk
    <3> DEFINE P(s) == /\ s[i].spk \in 0 .. Cardinality({s[j].spk : j \in 1 .. i - 1})
                       /\ HonorificPair(s, i) => s[i].spk = s[i + 1].spk
    <3>1. i \in DOMAIN ls
      BY <2>3
    <3>2. P(ls)
      BY <2>2, <3>1
    <3> HIDE DEF P
    <3>3. P(ws)
      BY <2>3, <3>2
    <3> QED BY <3>3 DEF P
  <2> QED BY <2>4, <2>5
<1>7. ws \in Seq(WordsBy(AllLabels))
  <2> DEFINE U == WordsBy(Nat)
             V == WordsBy(AllLabels)
  <2>1. U \subseteq V
    BY DEF WordsBy, AllLabels
  <2>2. ws \in Seq(U)
    BY <1>6
  <2> HIDE DEF U, V
  <2>3. ws \in Seq(V)
    BY <2>1, <2>2
  <2> QED BY <2>3 DEF V
<1>8. Cardinality(LabelsOf(ws)) <= Max({1, Cardinality(LabelsOf(tt))})
  <2> DEFINE k == Cardinality(LabelsOf(tt))
             x == Cardinality(LabelsOf(ws))
             mx == Max({1, k})
  <2>1. k <= mx /\ mx \in Nat
    <3> HIDE DEF k
    <3> QED BY <1>2, MaxOne DEF k
  <2>2. x \in Nat
    BY <1>6, LabelsFinite
  <2>3. x <= Cardinality(K) /\ Cardinality(K) <= k /\ Cardinality(K) \in Nat /\ k \in Nat
    BY <1>1, <1>2, <1>6
  <2> HIDE DEF k, x, mx
  <2>4. x <= mx
    BY <2>1, <2>2, <2>3
  <2> QED BY <2>4 DEF k, x, mx
<1> DEFINE W == WordsBy(Nat)
<1>9. rs \in Seq(Segment(W)) /\ FlattenSeq(rs) = ws
  <2>1. \A v \in W : v.st \in Int /\ v.en \in Int
    BY DEF WordsBy
  <2>2. ws \in Seq(W)
    BY <1>6
  <2> HIDE DEF W
  <2> QED BY <2>1, <2>2, RefinedIs
<1> HIDE DEF rs
<1>10. ASSUME NEW i \in DOMAIN rs PROVE WellCut(rs[i])
  <2> DEFINE seg == rs[i]
  <2>1. /\ seg \in Seq(W) /\ seg # <<>>
        /\ \A j \in 1 .. Len(seg) : seg[j].spk = seg[1].spk
        /\ Len(seg) > 1 => seg[Len(seg)].en - seg[1].st < 20000
    <3>1. seg \in Segment(W)
      BY <1>9
    <3> HIDE DEF seg
    <3> QED BY <3>1 DEF Segment
  <2> HIDE DEF seg
  <2>2. DOMAIN seg = 1 .. Len(seg) /\ 1 \in 1 .. Len(seg)
    BY <2>1, EmptySeq
  <2>3. LabelsOf(seg) = {seg[1].spk}
    BY <2>1, <2>2 DEF LabelsOf
  <2>4. Cardinality(LabelsOf(seg)) = 1
    BY <2>3, FS_Singleton
  <2>5. WellCut(seg)
    BY <2>1, <2>4 DEF WellCut, Last
  <2> QED BY <2>5 DEF seg
<1> QED BY <1>6, <1>7, <1>8, <1>9, <1>10, Zenon DEF Assigned, rs

-----------------------------------------------------------------------------
(* The turns and the words on the way                                      *)

\* While windows are stitched, every turn has a length.
LEMMA TurnsLast ==
    ASSUME StitchInv, stage = "chunks"
    PROVE  turns \in Seq(Lasting(Nat))
<1>1. turns \in Seq(Turn) /\ Marked(turns) = AllParts(heard, maps)
  BY DEF StitchInv
<1>2. heard \in Seq(Seq(Turn)) /\ c - 1 <= Windows(rec) /\ c \in Nat \ {0} /\ Len(heard) = c - 1
      /\ Len(maps) = c - 1 /\ RecordingOK
  BY DEF StitchInv
<1>3. ASSUME NEW i \in DOMAIN turns PROVE turns[i] \in Lasting(Nat)
  <2> DEFINE t == turns[i]
  <2>1. t \in Turn /\ Mark(t) \in AllParts(heard, maps)
    BY <1>1 DEF Marked
  <2> HIDE DEF t
  <2>2. PICK n \in DOMAIN heard : Mark(t) \in Part(heard[n], n, From(maps, n), UpTo(maps, n))
    BY <2>1 DEF AllParts
  <2> DEFINE hs == heard[n]
             lo == From(maps, n)
             hi == UpTo(maps, n)
  <2>3. Mark(t) \in Part(hs, n, lo, hi)
    BY <2>2
  <2>4. hs \in Seq(Turn)
    BY <1>2
  <2> HIDE DEF hs, lo, hi
  <2>5. PICK j \in DOMAIN hs : Clip(hs[j], lo, hi) > 0 /\ Mark(t) = <<Most(hs[j].st, lo), Least(hs[j].en, hi), n>>
    BY <2>3 DEF Part
  <2> DEFINE a == Most(hs[j].st, lo)
             b == Least(hs[j].en, hi)
  <2>6. b - a > 0 /\ t.st = a /\ t.en = b
    BY <2>5 DEF Clip, Mark
  <2>7. t.st \in Nat /\ t.en \in Nat /\ t.spk \in Nat
    BY <2>1 DEF Turn
  <2> HIDE DEF a, b
  <2>8. t.st < t.en
    BY <2>6, <2>7
  <2>9. t \in Lasting(Nat)
    BY <2>1, <2>7, <2>8 DEF Lasting
  <2> QED BY <2>9 DEF t
<1> DEFINE n == Len(turns)
           U == Lasting(Nat)
<1>4. n \in Nat /\ turns \in [1 .. n -> U]
  <2>1. n \in Nat /\ DOMAIN turns = 1 .. n /\ turns = [i \in DOMAIN turns |-> turns[i]]
    BY <1>1
  <2> HIDE DEF n, U
  <2> QED BY <1>3, <2>1 DEF U
<1>5. turns \in Seq(U)
  <2> HIDE DEF n, U
  <2> QED BY <1>4, FunctionIsSeq
<1> QED BY <1>5

\* What TLC checks as StitchTypeOK and WordsAssigned, with the types of turns
\* and words.
WordsInv ==
    /\ stage \in {"chunks", "assign", "labelled"}
    /\ stage # "chunks" => turns \in Seq(Lasting(Nat))
    /\ words \in Seq(WordsBy(AllLabels))
    /\ stage = "labelled" => Assigned(turns, words, refined)

LEMMA WordsInvInit ==
    ASSUME StitchInit
    PROVE  WordsInv
  BY SpokenWordsAssumption DEF StitchInit, WordsInv, AllLabels

LEMMA WordsInvConsolidate ==
    ASSUME StitchInv, WordsInv, ConsolidateTurns
    PROVE  WordsInv'
<1>1. stage = "chunks" /\ stage' = "assign" /\ words' = words
  BY DEF ConsolidateTurns
<1>2. turns \in Seq(Lasting(Nat))
  BY <1>1, TurnsLast
<1>3. turns' \in Seq(Lasting(Nat))
  <2>1. CASE Cardinality(LabelsOf(turns)) <= 1
    BY <1>2, <2>1 DEF ConsolidateTurns
  <2>2. CASE ~ (Cardinality(LabelsOf(turns)) <= 1)
    <3> DEFINE ts == Renumbered(JoinPauses(ByStart(turns), 400))
               U == Lasting(LabelsOf(ts))
               V == Lasting(Nat)
    <3>1. turns # <<>>
      <4> SUFFICES ASSUME turns = <<>> PROVE Cardinality(LabelsOf(turns)) <= 1
        BY <2>2
      <4>1. LabelsOf(turns) = {}
        BY DEF LabelsOf
      <4> QED BY <4>1, FS_EmptySet
    <3>2. turns' = ts
      BY <2>2, Zenon DEF ConsolidateTurns
    <3>3. ts \in Seq(Lasting(LabelsOf(ts))) /\ LabelsOf(ts) \in SUBSET Nat
      BY <1>2, <3>1, ConsolidatedIs
    <3> HIDE DEF ts
    <3>4. U \subseteq V
      BY <3>3 DEF Lasting
    <3>5. ts \in Seq(U)
      BY <3>3
    <3> HIDE DEF U, V
    <3>6. ts \in Seq(V)
      BY <3>4, <3>5
    <3> QED BY <3>2, <3>6 DEF V
  <2> QED BY <2>1, <2>2
<1>4. words' \in Seq(WordsBy(AllLabels))
  BY <1>1 DEF WordsInv
<1> QED BY <1>1, <1>3, <1>4 DEF WordsInv

LEMMA WordsInvAssign ==
    ASSUME WordsInv, AssignSpeakers
    PROVE  WordsInv'
<1>1. stage = "assign" /\ stage' = "labelled" /\ turns' = turns
  BY DEF AssignSpeakers
<1>2. turns \in Seq(Lasting(Nat)) /\ words \in Seq(WordsBy(AllLabels))
  BY <1>1 DEF WordsInv
<1>3. words' \in Seq(WordsBy(AllLabels)) /\ Assigned(turns, words', refined')
  <2>1. CASE turns = <<>>
    <3>1. words' = Relabel(words, 0) /\ refined' = <<>>
      BY <2>1 DEF AssignSpeakers
    <3> QED BY <1>2, <2>1, <3>1, AssignedNone
  <2>2. CASE turns # <<>>
    <3> DEFINE ts == Renumbered(JoinPauses(ByStart(turns), 300))
               direct == {i \in DOMAIN words : Winners(words[i], ts) # {}}
    <3>1. /\ \E labels \in Labellings(ts) :
                words' = Labelled([i \in DOMAIN words |->
                                      [words[i] EXCEPT !.spk = labels[i]]], direct)
          /\ refined' = Refined(words')
      BY <2>2, Zenon DEF AssignSpeakers
    <3>2. PICK labels \in Labellings(ts) :
              words' = Labelled([i \in DOMAIN words |-> [words[i] EXCEPT !.spk = labels[i]]], direct)
      BY <3>1
    <3> DEFINE ws == words'
               d == direct
               tt == ts
    <3>3. tt = Renumbered(JoinPauses(ByStart(turns), 300)) /\ labels \in Labellings(tt)
      OBVIOUS
    <3>4. ws = Labelled([i \in DOMAIN words |-> [words[i] EXCEPT !.spk = labels[i]]], d)
      BY <3>2
    <3> HIDE DEF ws, d, tt
    <3>5. ws \in Seq(WordsBy(AllLabels)) /\ Assigned(turns, ws, Refined(ws))
      BY <1>2, <2>2, <3>3, <3>4, AssignedSome
    <3> QED BY <3>1, <3>5 DEF ws
  <2> QED BY <2>1, <2>2
<1> QED BY <1>1, <1>2, <1>3 DEF WordsInv

LEMMA WordsInvNext == StitchInv /\ WordsInv /\ [StitchNext]_stitchVars => WordsInv'
<1> SUFFICES ASSUME StitchInv, WordsInv, [StitchNext]_stitchVars PROVE WordsInv'
  OBVIOUS
<1>1. CASE StitchChunk
  BY <1>1 DEF StitchChunk, WordsInv
<1>2. CASE ConsolidateTurns
  BY <1>2, WordsInvConsolidate
<1>3. CASE AssignSpeakers
  BY <1>3, WordsInvAssign
<1>4. CASE UNCHANGED stitchVars
  BY <1>4 DEF stitchVars, WordsInv
<1> QED BY <1>1, <1>2, <1>3, <1>4 DEF StitchNext

LEMMA WordsInvAlways == StitchSpec => []WordsInv
<1>1. StitchInit => WordsInv
  BY WordsInvInit
<1> QED BY <1>1, WordsInvNext, StitchInvAlways, PTL DEF StitchSpec

\* Times, labels and what was kept of the windows have their types, and no turn
\* is empty, for any number of windows and whatever is heard.
THEOREM StitchTyped == StitchSpec => []StitchTypeOK
<1>1. StitchInv /\ WordsInv => StitchTypeOK
  <2> SUFFICES ASSUME StitchInv, WordsInv PROVE StitchTypeOK
    OBVIOUS
  <2>1. turns \in Seq(Lasting(Nat))
    BY TurnsLast DEF WordsInv
  <2>2. \A i \in DOMAIN turns : turns[i].spk \in Nat /\ turns[i].st < turns[i].en
    BY <2>1 DEF Lasting
  <2>3. \A i \in DOMAIN words : words[i].spk \in Nat \cup {-1}
    <3> SUFFICES ASSUME NEW i \in DOMAIN words PROVE words[i].spk \in Nat \cup {-1}
      OBVIOUS
    <3> DEFINE w == words[i]
    <3>1. w \in WordsBy(AllLabels)
      BY DEF WordsInv
    <3> HIDE DEF w
    <3> QED BY <3>1 DEF WordsBy, AllLabels, w
  <2>4. c \in Nat /\ Len(heard) = c - 1 /\ Len(maps) = c - 1
    BY DEF StitchInv
  <2>5. stage \in {"idle", "chunks", "assign", "labelled"}
    BY DEF WordsInv
  <2> QED BY <2>2, <2>3, <2>4, <2>5 DEF StitchTypeOK
<1> QED BY <1>1, StitchInvAlways, WordsInvAlways, PTL

\* What assign_speakers promises, for any transcript and any turns and whichever
\* of the turns a word overlaps wins it: no word is left without a speaker and
\* none is made up, labels count up, "my lord" is not torn apart, and
\* refined_segments are all the words in order, of one speaker each and short.
THEOREM WordsAreAssigned == StitchSpec => []WordsAssigned
<1>1. WordsInv => WordsAssigned
  <2>1. ASSUME WordsInv, stage = "labelled" PROVE Assigned(turns, words, refined)
    BY <2>1 DEF WordsInv
  <2>2. ASSUME Assigned(turns, words, refined)
        PROVE  \A i \in DOMAIN refined : WellCut(refined[i])
    BY <2>2, Zenon DEF Assigned
  <2>3. ASSUME NEW i, WellCut(refined[i])
        PROVE  /\ Cardinality(LabelsOf(refined[i])) = 1
               /\ Len(refined[i]) > 1 => Last(refined[i]).en - refined[i][1].st < 20000
    BY <2>3 DEF WellCut
  <2>4. Assigned(turns, words, refined) => WordsAssigned
    BY <2>2, <2>3 DEF WordsAssigned, Assigned
  <2>5. stage # "labelled" => WordsAssigned
    BY DEF WordsAssigned
  <2> QED BY <2>1, <2>4, <2>5, Zenon
<1> QED BY <1>1, WordsInvAlways, PTL

=============================================================================
