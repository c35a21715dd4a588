------------------------- MODULE SpeakerTurnsProofs -------------------------
(***************************************************************************)
(* Proofs about the passes of reconstruct_speaker_turns.                   *)
(***************************************************************************)
EXTENDS SpeakerTurns, WordStreamProofs

-----------------------------------------------------------------------------
(* Segments                                                                *)

\* A segment, or a run, with the label and the words of speakers of V.
Seg(V) == [spk : V, ws : Seq(Word(V))]

\* p[i] is where the words of the i-th segment end, and those of the next begin.
Places(p, ss, V, a, z) ==
    /\ p \in [0 .. Len(ss) -> Int] /\ p[0] = a /\ p[Len(ss)] = z
    /\ \A i \in 1 .. Len(ss) : ss[i].ws \in Stretch(V, p[i - 1], p[i])

\* Segments whose words stand for what was said from a to z.
Segments(V, a, z) == {ss \in Seq(Seg(V)) : \E p : Places(p, ss, V, a, z)}

\* No segment is without words.
Spoken(ss) == \A i \in 1 .. Len(ss) : ss[i].ws # <<>>

\* u and v share what x and y stand for.
Shared(V, x, y, u, v) ==
    \A b, m, c \in Int :
        x \in Stretch(V, b, m) /\ y \in Stretch(V, m, c)
        => \E l \in Int : u \in Stretch(V, b, l) /\ v \in Stretch(V, l, c)

\* u, v and w share what x, y and q stand for.
SharedByThree(V, x, y, q, u, v, w) ==
    \A b, m, o, c \in Int :
        x \in Stretch(V, b, m) /\ y \in Stretch(V, m, o) /\ q \in Stretch(V, o, c)
        => \E l, r \in Int : u \in Stretch(V, b, l) /\ v \in Stretch(V, l, r) /\ w \in Stretch(V, r, c)

\* t is ss with other segments around i.
ChangedTwo(t, ss, i, u, v) == t = [ss EXCEPT ![i - 1] = u, ![i] = v]
ChangedThree(t, ss, i, u, v, w) == t = [ss EXCEPT ![i - 1] = u, ![i] = v, ![i + 1] = w]

\* The parts of a segment.
LEMMA SegIs ==
    ASSUME NEW V, NEW r \in Seg(V)
    PROVE  r.spk \in V /\ r.ws \in Seq(Word(V)) /\ r = [spk |-> r.spk, ws |-> r.ws]
  BY DEF Seg

\* Another label or other words make another segment.
LEMMA SegMade ==
    ASSUME NEW V, NEW r \in Seg(V), NEW spk \in V, NEW ws \in Seq(Word(V))
    PROVE  /\ [r EXCEPT !.spk = spk] \in Seg(V) /\ [r EXCEPT !.spk = spk].ws = r.ws
           /\ [r EXCEPT !.spk = spk].spk = spk
           /\ [r EXCEPT !.ws = ws] \in Seg(V) /\ [r EXCEPT !.ws = ws].ws = ws
           /\ [r EXCEPT !.ws = ws].spk = r.spk
  BY DEF Seg

\* Other words alone.
LEMMA SegWords ==
    ASSUME NEW V, NEW r \in Seg(V), NEW ws \in Seq(Word(V))
    PROVE  /\ [r EXCEPT !.ws = ws] \in Seg(V) /\ [r EXCEPT !.ws = ws].ws = ws
           /\ [r EXCEPT !.ws = ws].spk = r.spk
  BY DEF Seg

\* What is known of segments.
LEMMA SegmentsAre ==
    ASSUME NEW V, NEW a, NEW z, NEW ss \in Segments(V, a, z)
    PROVE  /\ ss \in Seq(Seg(V)) /\ Len(ss) \in Nat /\ DOMAIN ss = 1 .. Len(ss)
           /\ \A i \in 1 .. Len(ss) : ss[i] \in Seg(V)
           /\ \E p : Places(p, ss, V, a, z)
<1>1. ss \in Seq(Seg(V)) /\ \E p : Places(p, ss, V, a, z)
  BY DEF Segments
<1> QED BY <1>1

\* A segment is as long as what its words stand for.
LEMMA PlacesAre ==
    ASSUME NEW V, NEW a, NEW z, NEW ss \in Segments(V, a, z), NEW p, Places(p, ss, V, a, z)
    PROVE  /\ p[0] = a /\ p[Len(ss)] = z
           /\ \A i \in 0 .. Len(ss) : p[i] \in Int
           /\ \A i \in 1 .. Len(ss) : ss[i].ws \in Stretch(V, p[i - 1], p[i])
  BY DEF Places

\* No segments stand for nothing.
LEMMA SegmentsNone ==
    ASSUME NEW V, NEW a \in Int
    PROVE  <<>> \in Segments(V, a, a)
<1> DEFINE p == [i \in 0 .. 0 |-> a]
<1>1. <<>> \in Seq(Seg(V)) /\ Len(<<>>) = 0
  OBVIOUS
<1>2. p \in [0 .. 0 -> Int] /\ p[0] = a
  OBVIOUS
<1> HIDE DEF p
<1>3. Places(p, <<>>, V, a, a)
  BY <1>1, <1>2 DEF Places
<1> QED BY <1>1, <1>3 DEF Segments

\* One segment more.
LEMMA SegmentsAppend ==
    ASSUME NEW V, NEW a \in Int, NEW b \in Int, NEW z \in Int, NEW ss \in Segments(V, a, b),
           NEW r \in Seg(V), r.ws \in Stretch(V, b, z)
    PROVE  Append(ss, r) \in Segments(V, a, z) /\ Len(Append(ss, r)) = Len(ss) + 1
<1> DEFINE n == Len(ss)
           t == Append(ss, r)
<1>1. ss \in Seq(Seg(V)) /\ n \in Nat
  BY SegmentsAre
<1>2. PICK p : Places(p, ss, V, a, b)
  BY SegmentsAre
<1>3. p[0] = a /\ p[n] = b /\ \A i \in 0 .. n : p[i] \in Int
  BY <1>2, PlacesAre
<1>4. \A i \in 1 .. n : ss[i].ws \in Stretch(V, p[i - 1], p[i])
  BY <1>2, PlacesAre
<1>5. t \in Seq(Seg(V)) /\ Len(t) = n + 1 /\ t[n + 1] = r /\ \A i \in 1 .. n : t[i] = ss[i]
  BY <1>1, AppendProperties
<1> HIDE DEF t, n
<1> DEFINE q == [i \in 0 .. n + 1 |-> IF i = n + 1 THEN z ELSE p[i]]
<1>6. \A i \in 0 .. n : i \in 0 .. n + 1 /\ i # n + 1
  BY <1>1
<1>7. q[n + 1] = z /\ \A i \in 0 .. n : q[i] = p[i]
  BY <1>1, <1>6
<1>8. \A i \in 0 .. n + 1 : i = n + 1 \/ i \in 0 .. n
  BY <1>1
<1>9. q \in [0 .. n + 1 -> Int]
  BY <1>3, <1>8
<1> HIDE DEF q
<1>10. ASSUME NEW i \in 1 .. n + 1 PROVE t[i].ws \in Stretch(V, q[i - 1], q[i])
  <2>1. CASE i = n + 1
    <3>1. i - 1 = n /\ n \in 0 .. n
      BY <1>1, <2>1
    <3>2. q[i - 1] = b /\ q[i] = z /\ t[i] = r
      BY <1>3, <1>5, <1>7, <2>1, <3>1
    <3> QED BY <3>2
  <2>2. CASE i # n + 1
    <3>1. i \in 1 .. n /\ i \in 0 .. n /\ i - 1 \in 0 .. n
      BY <1>1, <2>2
    <3>2. q[i - 1] = p[i - 1] /\ q[i] = p[i] /\ t[i] = ss[i]
      BY <1>5, <1>7, <3>1
    <3> QED BY <1>4, <3>1, <3>2
  <2> QED BY <2>1, <2>2
<1>11. q[0] = a
  <2>1. 0 \in 0 .. n
    BY <1>1
  <2> QED BY <1>3, <1>7, <2>1
<1>12. Places(q, t, V, a, z)
  BY <1>5, <1>7, <1>9, <1>10, <1>11 DEF Places
<1>13. t \in Segments(V, a, z)
  BY <1>5, <1>12 DEF Segments
<1> QED BY <1>5, <1>13 DEF t, n

\* The first m segments, and those behind them.
LEMMA SegmentsCut ==
    ASSUME NEW V, NEW a \in Int, NEW z \in Int, NEW ss \in Segments(V, a, z), NEW p, Places(p, ss, V, a, z),
           NEW t \in Seq(Seg(V)), NEW i \in 0 .. Len(ss), NEW j \in i .. Len(ss), Len(t) = j - i,
           \A m \in 1 .. j - i : t[m] = ss[i + m]
    PROVE  t \in Segments(V, p[i], p[j])
<1> DEFINE n == j - i
           q == [m \in 0 .. n |-> p[i + m]]
<1>1. Len(ss) \in Nat
  BY SegmentsAre
<1>2. n \in Nat /\ \A m \in 0 .. n : i + m \in 0 .. Len(ss)
  BY <1>1
<1>3. /\ \A m \in 0 .. Len(ss) : p[m] \in Int
      /\ \A m \in 1 .. Len(ss) : ss[m].ws \in Stretch(V, p[m - 1], p[m])
  BY PlacesAre
<1>4. \A m \in 0 .. n : q[m] = p[i + m]
  OBVIOUS
<1>5. q \in [0 .. n -> Int]
  BY <1>2, <1>3
<1> HIDE DEF q
<1>6. q[0] = p[i] /\ q[n] = p[j]
  <2>1. 0 \in 0 .. n /\ n \in 0 .. n /\ i + 0 = i /\ i + n = j
    BY <1>1, <1>2
  <2> QED BY <1>4, <2>1
<1>7. ASSUME NEW m \in 1 .. n PROVE t[m].ws \in Stretch(V, q[m - 1], q[m])
  <2>1. m \in 0 .. n /\ m - 1 \in 0 .. n /\ i + m \in 1 .. Len(ss) /\ i + (m - 1) = (i + m) - 1
    BY <1>1, <1>2
  <2>2. q[m - 1] = p[(i + m) - 1] /\ q[m] = p[i + m] /\ t[m] = ss[i + m]
    BY <1>4, <2>1
  <2> QED BY <1>3, <2>1, <2>2
<1>8. Places(q, t, V, p[i], p[j])
  BY <1>5, <1>6, <1>7 DEF Places
<1> QED BY <1>8 DEF Segments

\* Segments changed one by one, each standing for the same.
LEMMA SegmentsLike ==
    ASSUME NEW V, NEW U, NEW a, NEW z, NEW ss \in Segments(V, a, z),
           NEW t \in Seq(Seg(U)), Len(t) = Len(ss),
           \A i \in 1 .. Len(ss) : \A b, c \in Int :
               ss[i].ws \in Stretch(V, b, c) => t[i].ws \in Stretch(U, b, c)
    PROVE  t \in Segments(U, a, z)
<1>1. Len(ss) \in Nat
  BY SegmentsAre
<1>2. PICK p : Places(p, ss, V, a, z)
  BY SegmentsAre
<1>3. ASSUME NEW i \in 1 .. Len(ss) PROVE t[i].ws \in Stretch(U, p[i - 1], p[i])
  <2>1. i \in 0 .. Len(ss) /\ i - 1 \in 0 .. Len(ss)
    BY <1>1
  <2>2. p[i - 1] \in Int /\ p[i] \in Int /\ ss[i].ws \in Stretch(V, p[i - 1], p[i])
    BY <1>2, <2>1 DEF Places
  <2> QED BY <2>2
<1>4. Places(p, t, U, a, z)
  BY <1>2, <1>3 DEF Places
<1> QED BY <1>4 DEF Segments

\* Segment i and the one before it, changed together.
LEMMA SegmentsPair ==
    ASSUME NEW V, NEW a \in Int, NEW z \in Int, NEW ss \in Segments(V, a, z), NEW i \in 2 .. Len(ss),
           NEW u \in Seg(V), NEW v \in Seg(V), Shared(V, ss[i - 1].ws, ss[i].ws, u.ws, v.ws),
           NEW t, ChangedTwo(t, ss, i, u, v)
    PROVE  /\ t \in Segments(V, a, z) /\ Len(t) = Len(ss)
           /\ t[i - 1] = u /\ t[i] = v
           /\ \A j \in 1 .. Len(ss) : j # i - 1 /\ j # i => t[j] = ss[j]
<1> DEFINE n == Len(ss)
<1>1. ss \in Seq(Seg(V)) /\ n \in Nat
  BY SegmentsAre
<1>2. PICK p : Places(p, ss, V, a, z)
  BY SegmentsAre
<1>3. /\ p[0] = a /\ p[n] = z /\ p \in [0 .. n -> Int]
      /\ \A j \in 1 .. n : ss[j].ws \in Stretch(V, p[j - 1], p[j])
  BY <1>2 DEF Places
<1>4. /\ i \in 1 .. n /\ i - 1 \in 1 .. n /\ i - 1 # i /\ i - 2 \in 0 .. n /\ (i - 1) - 1 = i - 2
      /\ i \in 0 .. n /\ i - 1 \in 0 .. n /\ i - 1 # 0 /\ i - 1 # n /\ i - 2 # i - 1
  BY <1>1
<1>5. t \in Seq(Seg(V)) /\ Len(t) = n /\ t[i - 1] = u /\ t[i] = v
      /\ \A j \in 1 .. n : j # i /\ j # i - 1 => t[j] = ss[j]
  <2> DEFINE s == [ss EXCEPT ![i - 1] = u]
  <2>1. s \in Seq(Seg(V)) /\ Len(s) = n
    BY <1>1, <1>4, ExceptSeq
  <2>2. t = [s EXCEPT ![i] = v]
    BY DEF ChangedTwo
  <2>3. s[i - 1] = u /\ \A j \in 1 .. n : j # i - 1 => s[j] = ss[j]
    BY <1>1, <1>4
  <2>4. DOMAIN s = 1 .. n
    BY <1>1, <2>1
  <2> HIDE DEF s
  <2>5. t \in Seq(Seg(V)) /\ Len(t) = n
    BY <1>1, <1>4, <2>1, <2>2, ExceptSeq
  <2>6. t[i] = v /\ \A j \in 1 .. n : j # i => t[j] = s[j]
    BY <1>4, <2>2, <2>4
  <2> QED BY <1>4, <2>3, <2>5, <2>6
<1>6. PICK l \in Int : u.ws \in Stretch(V, p[i - 2], l) /\ v.ws \in Stretch(V, l, p[i])
  <2>1. p[i - 2] \in Int /\ p[i - 1] \in Int /\ p[i] \in Int
    BY <1>3, <1>4
  <2>2. ss[i - 1].ws \in Stretch(V, p[i - 2], p[i - 1]) /\ ss[i].ws \in Stretch(V, p[i - 1], p[i])
    BY <1>3, <1>4
  <2> QED BY <2>1, <2>2 DEF Shared
<1> DEFINE q == [p EXCEPT ![i - 1] = l]
<1>7. q \in [0 .. n -> Int] /\ q[i - 1] = l /\ \A j \in 0 .. n : j # i - 1 => q[j] = p[j]
  BY <1>3, <1>4
<1> HIDE DEF q
<1>8. q[0] = a /\ q[n] = z
  <2>1. 0 \in 0 .. n /\ n \in 0 .. n
    BY <1>1
  <2> QED BY <1>3, <1>4, <1>7, <2>1
<1>9. ASSUME NEW j \in 1 .. n PROVE t[j].ws \in Stretch(V, q[j - 1], q[j])
  <2>1. CASE j = i - 1
    <3>1. j - 1 = i - 2
      BY <1>4, <2>1
    <3> QED BY <1>4, <1>5, <1>6, <1>7, <2>1, <3>1
  <2>2. CASE j = i
    BY <1>4, <1>5, <1>6, <1>7, <2>2
  <2>3. CASE j # i /\ j # i - 1
    <3>1. j - 1 # i - 1 /\ j - 1 \in 0 .. n /\ j \in 0 .. n
      BY <1>1, <2>3
    <3>2. q[j - 1] = p[j - 1] /\ q[j] = p[j] /\ t[j] = ss[j]
      BY <1>5, <1>7, <2>3, <3>1
    <3> QED BY <1>3, <3>2
  <2> QED BY <2>1, <2>2, <2>3
<1>10. Places(q, t, V, a, z)
  BY <1>5, <1>7, <1>8, <1>9 DEF Places
<1>11. t \in Segments(V, a, z)
  BY <1>5, <1>10 DEF Segments
<1> QED BY <1>5, <1>11

\* The last segment grows, whatever becomes of its label.
LEMMA SegmentsLast ==
    ASSUME NEW V, NEW a \in Int, NEW b \in Int, NEW z \in Int, NEW ss \in Segments(V, a, b), ss # <<>>,
           NEW u \in Seg(V), \A c \in Int : Last(ss).ws \in Stretch(V, c, b) => u.ws \in Stretch(V, c, z)
    PROVE  LET t == [ss EXCEPT ![Len(ss)] = u]
           IN  /\ t \in Segments(V, a, z) /\ Len(t) = Len(ss) /\ t[Len(ss)] = u
               /\ \A i \in 1 .. Len(ss) - 1 : t[i] = ss[i]
<1> DEFINE n == Len(ss)
           t == [ss EXCEPT ![n] = u]
           f == SubSeq(ss, 1, n - 1)
<1>1. ss \in Seq(Seg(V)) /\ n \in Nat /\ DOMAIN ss = 1 .. n /\ \A i \in 1 .. n : ss[i] \in Seg(V)
  BY SegmentsAre
<1>2. n \in 1 .. n
  BY <1>1, EmptySeq
<1>3. PICK p : Places(p, ss, V, a, b)
  BY SegmentsAre
<1>4. /\ p[0] = a /\ p[n] = b /\ \A i \in 0 .. n : p[i] \in Int
      /\ ss[n].ws \in Stretch(V, p[n - 1], p[n])
  BY <1>2, <1>3, PlacesAre
<1>5. /\ f \in Seq(Seg(V)) /\ Len(f) = n - 1 /\ \A i \in 1 .. n - 1 : f[i] = ss[i]
  BY <1>1, <1>2, SubSeqProperties
<1>6. t \in Seq(Seg(V)) /\ Len(t) = n /\ t[n] = u /\ \A i \in 1 .. n - 1 : t[i] = ss[i]
  <2>1. t \in Seq(Seg(V)) /\ Len(t) = n /\ \A i \in 1 .. n : t[i] = IF i = n THEN u ELSE ss[i]
    BY <1>1, <1>2, ExceptSeq
  <2> HIDE DEF t, n
  <2>2. \A i \in 1 .. n - 1 : i \in 1 .. n /\ i # n
    BY <1>1
  <2> QED BY <1>2, <2>1, <2>2
<1> HIDE DEF f, t
<1>7. f \in Segments(V, a, p[n - 1]) /\ p[n - 1] \in Int
  <2>1. 0 \in 0 .. n /\ n - 1 \in 0 .. n /\ (n - 1) - 0 = n - 1
    BY <1>2
  <2>2. \A m \in 1 .. (n - 1) - 0 : f[m] = ss[0 + m]
    BY <1>5, <2>1
  <2>3. f \in Segments(V, p[0], p[n - 1])
    BY <1>3, <1>5, <2>1, <2>2, SegmentsCut
  <2> QED BY <1>4, <2>1, <2>3
<1>8. u.ws \in Stretch(V, p[n - 1], z)
  BY <1>4, <1>7 DEF Last
<1>9. Append(f, u) \in Segments(V, a, z)
  BY <1>7, <1>8, SegmentsAppend
<1>10. t = Append(f, u)
  <2> DEFINE x == Append(f, u)
  <2>1. x \in Seq(Seg(V)) /\ Len(x) = n /\ x[n] = u /\ \A i \in 1 .. n - 1 : x[i] = f[i]
    BY <1>2, <1>5, AppendProperties
  <2> HIDE DEF x
  <2>2. \A i \in 1 .. n : t[i] = x[i]
    BY <1>2, <1>5, <1>6, <2>1
  <2>3. t = x
    BY <1>6, <2>1, <2>2, SeqEqual
  <2> QED BY <2>3 DEF x
<1> QED BY <1>6, <1>9, <1>10 DEF t

\* Segments after segments.
LEMMA SegmentsConcat ==
    ASSUME NEW V, NEW a \in Int, NEW b \in Int, NEW z \in Int,
           NEW x \in Segments(V, a, b), NEW y \in Segments(V, b, z)
    PROVE  x \o y \in Segments(V, a, z) /\ Len(x \o y) = Len(x) + Len(y)
<1> DEFINE m == Len(x)
           n == Len(y)
           t == x \o y
<1>1. x \in Seq(Seg(V)) /\ y \in Seq(Seg(V)) /\ m \in Nat /\ n \in Nat
  BY SegmentsAre
<1>2. PICK p : Places(p, x, V, a, b)
  BY SegmentsAre
<1>3. PICK r : Places(r, y, V, b, z)
  BY SegmentsAre
<1>4. /\ p[0] = a /\ p[m] = b /\ \A i \in 0 .. m : p[i] \in Int
      /\ \A i \in 1 .. m : x[i].ws \in Stretch(V, p[i - 1], p[i])
  BY <1>2, PlacesAre
<1>5. /\ r[0] = b /\ r[n] = z /\ \A i \in 0 .. n : r[i] \in Int
      /\ \A i \in 1 .. n : y[i].ws \in Stretch(V, r[i - 1], r[i])
  BY <1>3, PlacesAre
<1>6. /\ t \in Seq(Seg(V)) /\ Len(t) = m + n /\ \A i \in 1 .. m : t[i] = x[i]
      /\ \A i \in 1 .. m + n : i > m => t[i] = y[i - m]
  BY <1>1, ConcatProperties
<1> DEFINE q == [i \in 0 .. m + n |-> IF i <= m THEN p[i] ELSE r[i - m]]
<1> HIDE DEF t, m, n
<1>7. /\ \A i \in 0 .. m + n : i <= m => q[i] = p[i]
      /\ \A i \in 0 .. m + n : i > m => q[i] = r[i - m]
  BY <1>1
<1>8. \A i \in 0 .. m + n : i >= m => q[i] = r[i - m]
  <2> SUFFICES ASSUME NEW i \in 0 .. m + n, i >= m PROVE q[i] = r[i - m]
    OBVIOUS
  <2>1. CASE i = m
    <3>1. i - m = 0 /\ i <= m
      BY <1>1, <2>1
    <3> QED BY <1>4, <1>5, <1>7, <2>1, <3>1
  <2>2. CASE i # m
    <3>1. i > m
      BY <1>1, <2>2
    <3> QED BY <1>7, <3>1
  <2> QED BY <2>1, <2>2
<1>9. q \in [0 .. m + n -> Int]
  <2>1. \A i \in 0 .. m + n : i <= m => p[i] \in Int
    BY <1>1, <1>4
  <2>2. \A i \in 0 .. m + n : ~ (i <= m) => r[i - m] \in Int
    BY <1>1, <1>5
  <2> QED BY <2>1, <2>2
<1> HIDE DEF q
<1>10. ASSUME NEW i \in 1 .. m + n PROVE t[i].ws \in Stretch(V, q[i - 1], q[i])
  <2>0. i \in 0 .. m + n /\ i - 1 \in 0 .. m + n
    BY <1>1
  <2>1. CASE i <= m
    <3>1. i \in 1 .. m /\ i - 1 <= m
      BY <1>1, <2>1
    <3>2. q[i - 1] = p[i - 1] /\ q[i] = p[i] /\ t[i] = x[i]
      BY <1>6, <1>7, <2>0, <2>1, <3>1
    <3> QED BY <1>4, <3>1, <3>2
  <2>2. CASE i > m
    <3>1. i - m \in 1 .. n /\ i - 1 >= m /\ i >= m /\ (i - 1) - m = (i - m) - 1
      BY <1>1, <2>2
    <3>2. q[i - 1] = r[(i - m) - 1] /\ q[i] = r[i - m] /\ t[i] = y[i - m]
      BY <1>6, <1>8, <2>0, <2>2, <3>1
    <3> QED BY <1>5, <3>1, <3>2
  <2> QED BY <1>1, <2>1, <2>2
<1>11. q[0] = a /\ q[m + n] = z
  <2>1. 0 \in 0 .. m + n /\ 0 <= m /\ m + n \in 0 .. m + n /\ m + n >= m /\ (m + n) - m = n
    BY <1>1
  <2> QED BY <1>4, <1>5, <1>7, <1>8, <2>1
<1>12. Places(q, t, V, a, z)
  BY <1>6, <1>9, <1>10, <1>11 DEF Places
<1>13. t \in Segments(V, a, z)
  BY <1>6, <1>12 DEF Segments
<1> QED BY <1>6, <1>13 DEF t, m, n

\* Segment i and its two neighbours, changed together.
LEMMA SegmentsThree ==
    ASSUME NEW V, NEW a \in Int, NEW z \in Int, NEW ss \in Segments(V, a, z), NEW i \in 2 .. Len(ss) - 1,
           NEW u \in Seg(V), NEW v \in Seg(V), NEW w \in Seg(V),
           SharedByThree(V, ss[i - 1].ws, ss[i].ws, ss[i + 1].ws, u.ws, v.ws, w.ws),
           NEW t, ChangedThree(t, ss, i, u, v, w)
    PROVE  /\ t \in Segments(V, a, z) /\ Len(t) = Len(ss)
           /\ t[i - 1] = u /\ t[i] = v /\ t[i + 1] = w
           /\ \A j \in 1 .. Len(ss) : j # i - 1 /\ j # i /\ j # i + 1 => t[j] = ss[j]
<1> DEFINE n == Len(ss)
<1>1. ss \in Seq(Seg(V)) /\ n \in Nat /\ DOMAIN ss = 1 .. n
  BY SegmentsAre
<1>2. PICK p : Places(p, ss, V, a, z)
  BY SegmentsAre
<1>3. /\ p[0] = a /\ p[n] = z /\ p \in [0 .. n -> Int]
      /\ \A j \in 1 .. n : ss[j].ws \in Stretch(V, p[j - 1], p[j])
  BY <1>2 DEF Places
<1>4. /\ i \in 1 .. n /\ i - 1 \in 1 .. n /\ i + 1 \in 1 .. n /\ i - 1 # i /\ i + 1 # i /\ i - 1 # i + 1
      /\ i - 2 \in 0 .. n /\ (i - 1) - 1 = i - 2 /\ (i + 1) - 1 = i
      /\ i \in 0 .. n /\ i - 1 \in 0 .. n /\ i + 1 \in 0 .. n /\ i - 1 # 0 /\ i # 0 /\ i # n /\ i - 1 # n
      /\ i - 2 # i - 1 /\ i - 2 # i
  <2>1. i \in 2 .. n - 1
    OBVIOUS
  <2> HIDE DEF n
  <2>2. i \in Int /\ n \in Int /\ 2 <= i /\ i <= n - 1
    BY <1>1, <2>1
  <2> QED BY <2>2
<1>5. t \in Seq(Seg(V)) /\ Len(t) = n /\ t[i - 1] = u /\ t[i] = v /\ t[i + 1] = w
      /\ \A j \in 1 .. n : j # i - 1 /\ j # i /\ j # i + 1 => t[j] = ss[j]
  <2> DEFINE s == [ss EXCEPT ![i - 1] = u]
             x == [s EXCEPT ![i] = v]
  <2>1. t = [x EXCEPT ![i + 1] = w]
    BY DEF ChangedThree
  <2> HIDE DEF n
  <2>2. /\ s \in Seq(Seg(V)) /\ Len(s) = n
        /\ \A j \in 1 .. n : s[j] = IF j = i - 1 THEN u ELSE ss[j]
    <3>1. i - 1 \in 1 .. Len(ss)
      BY <1>4 DEF n
    <3>2. /\ s \in Seq(Seg(V)) /\ Len(s) = Len(ss)
          /\ \A j \in 1 .. Len(ss) : s[j] = IF j = i - 1 THEN u ELSE ss[j]
      BY <1>1, <3>1, ExceptSeq
    <3> QED BY <3>2 DEF n
  <2> HIDE DEF s
  <2>3. /\ x \in Seq(Seg(V)) /\ Len(x) = n
        /\ \A j \in 1 .. n : x[j] = IF j = i THEN v ELSE s[j]
    BY <1>4, <2>2, ExceptSeq
  <2> HIDE DEF x
  <2>4. /\ t \in Seq(Seg(V)) /\ Len(t) = n
        /\ \A j \in 1 .. n : t[j] = IF j = i + 1 THEN w ELSE x[j]
    <3>1. i + 1 \in 1 .. Len(x)
      BY <1>4, <2>3
    <3>2. LET y == [x EXCEPT ![i + 1] = w]
          IN  /\ y \in Seq(Seg(V)) /\ Len(y) = Len(x)
              /\ \A j \in 1 .. Len(x) : y[j] = IF j = i + 1 THEN w ELSE x[j]
      BY <2>3, <3>1, ExceptSeq
    <3> QED BY <2>1, <2>3, <3>2
  <2> QED BY <1>4, <2>2, <2>3, <2>4
<1>6. PICK l \in Int, r \in Int : /\ u.ws \in Stretch(V, p[i - 2], l) /\ v.ws \in Stretch(V, l, r)
                                  /\ w.ws \in Stretch(V, r, p[i + 1])
  <2>1. p[i - 2] \in Int /\ p[i - 1] \in Int /\ p[i] \in Int /\ p[i + 1] \in Int
    BY <1>3, <1>4
  <2>2. /\ ss[i - 1].ws \in Stretch(V, p[i - 2], p[i - 1]) /\ ss[i].ws \in Stretch(V, p[i - 1], p[i])
        /\ ss[i + 1].ws \in Stretch(V, p[i], p[i + 1])
    BY <1>3, <1>4
  <2> DEFINE b == p[i - 2]
             m == p[i - 1]
             o == p[i]
             c == p[i + 1]
  <2>3. b \in Int /\ m \in Int /\ o \in Int /\ c \in Int
    BY <2>1
  <2>4. /\ ss[i - 1].ws \in Stretch(V, b, m) /\ ss[i].ws \in Stretch(V, m, o)
        /\ ss[i + 1].ws \in Stretch(V, o, c)
    BY <2>2
  <2> HIDE DEF b, m, o, c
  <2>5. \E l, r \in Int : /\ u.ws \in Stretch(V, b, l) /\ v.ws \in Stretch(V, l, r)
                         /\ w.ws \in Stretch(V, r, c)
    BY <2>3, <2>4 DEF SharedByThree
  <2> QED BY <2>5 DEF b, c
<1> DEFINE q == [p EXCEPT ![i - 1] = l, ![i] = r]
<1>7. /\ q \in [0 .. n -> Int] /\ q[i - 1] = l /\ q[i] = r
      /\ \A j \in 0 .. n : j # i - 1 /\ j # i => q[j] = p[j]
  BY <1>3, <1>4
<1> HIDE DEF q
<1>8. q[0] = a /\ q[n] = z
  <2>1. 0 \in 0 .. n /\ n \in 0 .. n
    BY <1>1
  <2> QED BY <1>3, <1>4, <1>7, <2>1
<1>9. ASSUME NEW j \in 1 .. n PROVE t[j].ws \in Stretch(V, q[j - 1], q[j])
  <2>1. CASE j = i - 1
    <3>1. j - 1 = i - 2
      BY <1>4, <2>1
    <3> QED BY <1>4, <1>5, <1>6, <1>7, <2>1, <3>1
  <2>2. CASE j = i
    BY <1>4, <1>5, <1>6, <1>7, <2>2
  <2>3. CASE j = i + 1
    <3>1. j - 1 = i /\ q[j] = p[i + 1]
      BY <1>4, <1>7, <2>3
    <3> QED BY <1>4, <1>5, <1>6, <1>7, <2>3, <3>1
  <2>4. CASE j # i /\ j # i - 1 /\ j # i + 1
    <3>1. j - 1 # i - 1 /\ j - 1 # i /\ j - 1 \in 0 .. n /\ j \in 0 .. n
      BY <1>1, <2>4
    <3>2. q[j - 1] = p[j - 1] /\ q[j] = p[j] /\ t[j] = ss[j]
      BY <1>5, <1>7, <2>4, <3>1
    <3> QED BY <1>3, <3>2
  <2> QED BY <2>1, <2>2, <2>3, <2>4
<1>10. Places(q, t, V, a, z)
  BY <1>5, <1>7, <1>8, <1>9 DEF Places
<1>11. t \in Segments(V, a, z)
  BY <1>5, <1>10 DEF Segments
<1> QED BY <1>5, <1>11

\* Segments of speakers of V are segments of speakers of U when V is part of U.
LEMMA SegmentsOf ==
    ASSUME NEW V, NEW U, V \subseteq U, NEW a, NEW z, NEW ss \in Segments(V, a, z)
    PROVE  ss \in Segments(U, a, z)
<1>1. ss \in Seq(Seg(V)) /\ Len(ss) \in Nat /\ DOMAIN ss = 1 .. Len(ss) /\ \A i \in 1 .. Len(ss) : ss[i] \in Seg(V)
  BY SegmentsAre
<1>2. ASSUME NEW i \in 1 .. Len(ss) PROVE ss[i] \in Seg(U)
  <2>1. /\ ss[i].spk \in V /\ ss[i].ws \in Seq(Word(V))
        /\ ss[i] = [spk |-> ss[i].spk, ws |-> ss[i].ws]
    BY <1>1, SegIs
  <2> DEFINE spk == ss[i].spk
             ws == ss[i].ws
  <2>2. spk \in U
    BY <2>1
  <2>3. ws \in Seq(Word(U))
    <3>1. /\ Len(ws) \in Nat /\ ws \in [1 .. Len(ws) -> Word(V)]
      BY <2>1, LenProperties
    <3>2. Word(V) \subseteq Word(U)
      BY WordOf
    <3>3. ws \in [1 .. Len(ws) -> Word(U)]
      BY <3>1, <3>2
    <3> QED BY <3>1, <3>3, MappingIsSeq
  <2> HIDE DEF spk, ws
  <2>4. [spk |-> spk, ws |-> ws] \in Seg(U)
    BY <2>2, <2>3 DEF Seg
  <2> QED BY <2>1, <2>4 DEF spk, ws
<1>3. ss \in Seq(Seg(U))
  <2>1. ss \in [1 .. Len(ss) -> Seg(U)]
    BY <1>1, <1>2
  <2> QED BY <1>1, <2>1, MappingIsSeq
<1>4. \A i \in 1 .. Len(ss) : \A b, c \in Int : ss[i].ws \in Stretch(V, b, c) => ss[i].ws \in Stretch(U, b, c)
  BY StretchOf
<1> QED BY <1>3, <1>4, SegmentsLike

\* The words of segments, one after the other.
LEMMA FlatIs ==
    ASSUME NEW V, NEW a \in Int, NEW z \in Int, NEW ss \in Segments(V, a, z)
    PROVE  Flat(ss) \in Stretch(V, a, z)
<1> DEFINE n == Len(ss)
           q == [i \in DOMAIN ss |-> ss[i].ws]
<1>1. n \in Nat /\ DOMAIN ss = 1 .. n /\ \A i \in 1 .. n : ss[i] \in Seg(V)
  BY SegmentsAre
<1>2. PICK p : Places(p, ss, V, a, z)
  BY SegmentsAre
<1>3. /\ p[0] = a /\ p[n] = z /\ p \in [0 .. n -> Int]
      /\ \A i \in 1 .. n : ss[i].ws \in Stretch(V, p[i - 1], p[i])
  BY <1>2 DEF Places
<1>4. \A i \in 1 .. n : ss[i].ws \in Seq(Word(V))
  BY <1>1, SegIs
<1>5. q \in [1 .. n -> Seq(Word(V))] /\ \A i \in 1 .. n : q[i] = ss[i].ws
  BY <1>1, <1>4
<1> HIDE DEF q
<1>6. q \in Seq(Seq(Word(V))) /\ Len(q) = n
  BY <1>1, <1>5, MappingIsSeq
<1>7. FlattenSeq(q) \in Stretch(V, p[0], p[n])
  <2>1. \A i \in 1 .. n : q[i] \in Stretch(V, p[i - 1], p[i])
    BY <1>3, <1>5
  <2> QED BY <1>1, <1>3, <1>6, <2>1, FlattenStretch
<1> QED BY <1>3, <1>7 DEF Flat, q

-----------------------------------------------------------------------------
(* Stretches cut in two and three                                          *)

\* The first words of a stretch and the others.
LEMMA TwoParts ==
    ASSUME NEW V, NEW a \in Int, NEW z \in Int, NEW ws \in Stretch(V, a, z), NEW i \in 0 .. Len(ws)
    PROVE  /\ \E l \in Int : /\ SubSeq(ws, 1, i) \in Stretch(V, a, l)
                             /\ SubSeq(ws, i + 1, Len(ws)) \in Stretch(V, l, z)
           /\ Len(SubSeq(ws, 1, i)) = i /\ Len(SubSeq(ws, i + 1, Len(ws))) = Len(ws) - i
<1> DEFINE n == Len(ws)
<1>1. n \in Nat /\ Point(ws, a, 0) = a /\ Point(ws, a, n) = z
  <2>1. /\ ws \in Seq(Word(V)) /\ Len(ws) \in Nat /\ Point(ws, a, 0) = a /\ Point(ws, a, Len(ws)) = z
        /\ \A m \in 1 .. Len(ws) : ws[m] \in Word(V)
    BY StretchIs
  <2> QED BY <2>1
<1>2. 1 \in 1 .. n + 1 /\ i + 1 \in 1 .. n + 1 /\ i \in 0 .. n /\ n \in 0 .. n /\ 1 <= i + 1 /\ i + 1 <= n + 1
  BY <1>1
<1>3. 1 - 1 = 0 /\ (i + 1) - 1 = i /\ i - 1 + 1 = i /\ n - (i + 1) + 1 = n - i
  BY <1>1, <1>2
<1>4. /\ SubSeq(ws, 1, i) \in Stretch(V, Point(ws, a, 1 - 1), Point(ws, a, i))
      /\ Point(ws, a, i) \in Int /\ Len(SubSeq(ws, 1, i)) = i - 1 + 1
  BY <1>2, StretchCut
<1>5. /\ SubSeq(ws, i + 1, n) \in Stretch(V, Point(ws, a, (i + 1) - 1), Point(ws, a, n))
      /\ Len(SubSeq(ws, i + 1, n)) = n - (i + 1) + 1
  BY <1>2, StretchCut
<1> QED BY <1>1, <1>3, <1>4, <1>5

\* What is before, between and behind two words.
LEMMA ThreeParts ==
    ASSUME NEW V, NEW a \in Int, NEW z \in Int, NEW ws \in Stretch(V, a, z),
           NEW i \in 1 .. Len(ws), NEW j \in i .. Len(ws)
    PROVE  /\ \E l, r \in Int : /\ SubSeq(ws, 1, i - 1) \in Stretch(V, a, l)
                                /\ SubSeq(ws, i, j) \in Stretch(V, l, r)
                                /\ SubSeq(ws, j + 1, Len(ws)) \in Stretch(V, r, z)
           /\ SubSeq(ws, i, j) # <<>> /\ Len(SubSeq(ws, i, j)) = j - i + 1
           /\ Len(SubSeq(ws, j + 1, Len(ws))) = Len(ws) - j /\ Len(SubSeq(ws, 1, i - 1)) = i - 1
<1> DEFINE n == Len(ws)
<1>1. n \in Nat /\ Point(ws, a, 0) = a /\ Point(ws, a, n) = z
  <2>1. /\ ws \in Seq(Word(V)) /\ Len(ws) \in Nat /\ Point(ws, a, 0) = a /\ Point(ws, a, Len(ws)) = z
        /\ \A m \in 1 .. Len(ws) : ws[m] \in Word(V)
    BY StretchIs
  <2> QED BY <2>1
<1>2. /\ 1 \in 1 .. n + 1 /\ i \in 1 .. n + 1 /\ j + 1 \in 1 .. n + 1 /\ i - 1 \in 0 .. n /\ j \in 0 .. n
      /\ n \in 0 .. n /\ 1 <= (i - 1) + 1 /\ i <= j + 1 /\ j + 1 <= n + 1
  BY <1>1
<1>3. 1 - 1 = 0 /\ (j + 1) - 1 = j /\ j - i + 1 > 0 /\ (i - 1) - 1 + 1 = i - 1 /\ n - (j + 1) + 1 = n - j
  BY <1>1, <1>2
<1>4. /\ SubSeq(ws, 1, i - 1) \in Stretch(V, Point(ws, a, 1 - 1), Point(ws, a, i - 1))
      /\ Point(ws, a, i - 1) \in Int /\ Len(SubSeq(ws, 1, i - 1)) = (i - 1) - 1 + 1
  BY <1>2, StretchCut, SMTT(60)
<1>5. /\ SubSeq(ws, i, j) \in Stretch(V, Point(ws, a, i - 1), Point(ws, a, j))
      /\ Point(ws, a, j) \in Int /\ Len(SubSeq(ws, i, j)) = j - i + 1
  BY <1>2, StretchCut, SMTT(60)
<1>6. /\ SubSeq(ws, j + 1, n) \in Stretch(V, Point(ws, a, (j + 1) - 1), Point(ws, a, n))
      /\ Len(SubSeq(ws, j + 1, n)) = n - (j + 1) + 1
  BY <1>2, StretchCut, SMTT(60)
<1>7. SubSeq(ws, i, j) # <<>>
  BY <1>3, <1>5
<1> QED BY <1>1, <1>3, <1>4, <1>5, <1>6, <1>7

\* One word after the other words.
LEMMA StretchAppend ==
    ASSUME NEW V, NEW a \in Int, NEW z \in Int, NEW ws \in Stretch(V, a, z), NEW w \in Word(V), w.from = z
    PROVE  /\ Append(ws, w) \in Stretch(V, a, w.upto) /\ w.upto \in Int /\ Append(ws, w) # <<>>
           /\ Len(Append(ws, w)) = Len(ws) + 1
<1>1. <<w>> \in Stretch(V, z, w.upto) /\ w.upto \in Int
  BY StretchOne
<1>2. ws \o <<w>> \in Stretch(V, a, w.upto)
  BY <1>1, StretchConcat
<1>3. ws \in Seq(Word(V)) /\ Len(ws) \in Nat
  BY StretchIs
<1>4. Append(ws, w) = ws \o <<w>>
  BY <1>3, AppendIsConcat
<1> QED BY <1>1, <1>2, <1>3, <1>4

\* The first word and the others.
LEMMA StretchTail ==
    ASSUME NEW V, NEW a \in Int, NEW z \in Int, NEW ws \in Stretch(V, a, z), ws # <<>>
    PROVE  /\ ws[1] \in Word(V) /\ ws[1].from = a /\ ws[1].upto \in Int
           /\ Tail(ws) \in Stretch(V, ws[1].upto, z)
           /\ Len(Tail(ws)) = Len(ws) - 1 /\ Len(ws) \in Nat \ {0}
<1>1. /\ ws \in Seq(Word(V)) /\ Len(ws) \in Nat /\ Point(ws, a, 0) = a /\ Point(ws, a, Len(ws)) = z
      /\ \A i \in 1 .. Len(ws) : ws[i].from = Point(ws, a, i - 1) /\ ws[i].upto = Point(ws, a, i)
      /\ \A i \in 1 .. Len(ws) : ws[i] \in Word(V)
  BY StretchIs, SMTT(60)
<1>2. Len(ws) \in Nat \ {0} /\ 1 \in 1 .. Len(ws) /\ 1 - 1 = 0
  BY <1>1, EmptySeq
<1>3. ws[1] \in Word(V) /\ ws[1].from = a /\ ws[1].upto = Point(ws, a, 1)
  BY <1>1, <1>2
<1>4. 2 \in 1 .. Len(ws) + 1 /\ Len(ws) \in 0 .. Len(ws) /\ 2 <= Len(ws) + 1 /\ 2 - 1 = 1
      /\ Len(ws) - 2 + 1 = Len(ws) - 1
  BY <1>2
<1>5. /\ SubSeq(ws, 2, Len(ws)) \in Stretch(V, Point(ws, a, 2 - 1), Point(ws, a, Len(ws)))
      /\ Point(ws, a, 2 - 1) \in Int /\ Len(SubSeq(ws, 2, Len(ws))) = Len(ws) - 2 + 1
  BY <1>4, StretchCut
<1>6. Tail(ws) = SubSeq(ws, 2, Len(ws))
  BY <1>1, <1>2, TailIsSubSeq
<1> QED BY <1>1, <1>2, <1>3, <1>4, <1>5, <1>6

\* Words before words: none are lost.
LEMMA ConcatSpoken ==
    ASSUME NEW V, NEW a \in Int, NEW b \in Int, NEW z \in Int,
           NEW u \in Stretch(V, a, b), NEW v \in Stretch(V, b, z)
    PROVE  u \o v \in Stretch(V, a, z) /\ Len(u \o v) = Len(u) + Len(v)
           /\ (u # <<>> \/ v # <<>> => u \o v # <<>>)
<1>1. u \in Seq(Word(V)) /\ v \in Seq(Word(V)) /\ Len(u) \in Nat /\ Len(v) \in Nat
  BY StretchIs
<1>2. u \o v \in Stretch(V, a, z)
  BY StretchConcat
<1>3. Len(u \o v) = Len(u) + Len(v)
  BY <1>1, ConcatProperties
<1>4. u # <<>> \/ v # <<>> => Len(u) + Len(v) > 0
  BY <1>1, EmptySeq
<1>5. u # <<>> \/ v # <<>> => u \o v # <<>>
  BY <1>3, <1>4
<1> QED BY <1>2, <1>3, <1>5

\* A segment with words after segments with words.
LEMMA SpokenAppend ==
    ASSUME NEW S, NEW ss \in Seq(S), Spoken(ss), NEW r \in S, r.ws # <<>>
    PROVE  Spoken(Append(ss, r))
<1> DEFINE n == Len(ss)
           t == Append(ss, r)
<1>1. /\ n \in Nat /\ Len(t) = n + 1
      /\ \A i \in 1 .. n : t[i] = ss[i]
      /\ t[n + 1] = r
  BY AppendProperties
<1> HIDE DEF t
<1>2. ASSUME NEW i \in 1 .. Len(t) PROVE t[i].ws # <<>>
  <2> HIDE DEF n
  <2>1. i \in 1 .. n \/ i = n + 1
    BY <1>1
  <2>2. CASE i \in 1 .. n
    BY <1>1, <2>2 DEF Spoken, n
  <2>3. CASE i = n + 1
    BY <1>1, <2>3
  <2> QED BY <2>1, <2>2, <2>3
<1>3. Spoken(t)
  BY <1>2 DEF Spoken
<1> QED BY <1>3 DEF t

\* The same for segments after segments.
LEMMA SpokenConcat ==
    ASSUME NEW S, NEW x \in Seq(S), NEW y \in Seq(S), Spoken(x), Spoken(y)
    PROVE  Spoken(x \o y)
<1> DEFINE m == Len(x)
           n == Len(y)
           t == x \o y
<1>1. /\ m \in Nat /\ n \in Nat /\ Len(t) = m + n
      /\ \A i \in 1 .. m + n : t[i] = IF i <= m THEN x[i] ELSE y[i - m]
  BY ConcatProperties
<1>2. /\ \A i \in 1 .. m : x[i].ws # <<>>
      /\ \A i \in 1 .. n : y[i].ws # <<>>
  BY DEF Spoken
<1> HIDE DEF t, m, n
<1>3. ASSUME NEW i \in 1 .. Len(t) PROVE t[i].ws # <<>>
  <2>1. CASE i <= m
    <3>1. i \in 1 .. m /\ t[i] = x[i]
      BY <1>1, <2>1
    <3> QED BY <1>2, <3>1
  <2>2. CASE ~ (i <= m)
    <3>1. i - m \in 1 .. n /\ t[i] = y[i - m]
      BY <1>1, <2>2
    <3> QED BY <1>2, <3>1
  <2> QED BY <2>1, <2>2
<1>4. Spoken(t)
  BY <1>3 DEF Spoken
<1> QED BY <1>4 DEF t

\* Segments with words, one of them changed.
LEMMA SpokenExcept ==
    ASSUME NEW S, NEW ss \in Seq(S), Spoken(ss), NEW i \in 1 .. Len(ss), NEW r \in S, r.ws # <<>>
    PROVE  Spoken([ss EXCEPT ![i] = r])
<1> DEFINE t == [ss EXCEPT ![i] = r]
<1>1. /\ t \in Seq(S) /\ Len(t) = Len(ss)
      /\ \A j \in 1 .. Len(ss) : t[j] = IF j = i THEN r ELSE ss[j]
  BY ExceptSeq
<1> HIDE DEF t
<1>2. \A j \in 1 .. Len(t) : t[j].ws # <<>>
  BY <1>1 DEF Spoken
<1>3. Spoken(t)
  BY <1>2 DEF Spoken
<1> QED BY <1>3 DEF t

Keeping(h, ss) ==
    LET q == ss
    IN  h = [s \in SUBSET DOMAIN q |->
                IF s = {} THEN <<>> ELSE KeepSpoken(h[s \ {Max(s)}], q[Max(s)])]

\* What FoldLeft makes of KeepSpoken, for any set T that KeepSpoken stays in.
LEMMA KeepSpokenFold ==
    ASSUME NEW ss, NEW U, ss \in Seq(U),
           NEW T, <<>> \in T, \A x \in T : \A i \in 1 .. Len(ss) : KeepSpoken(x, ss[i]) \in T
    PROVE  \E g \in [0 .. Len(ss) -> T] :
               /\ g[0] = <<>> /\ g[Len(ss)] = NonEmpty(ss)
               /\ \A m \in 1 .. Len(ss) : g[m] = KeepSpoken(g[m - 1], ss[m])
<1> DEFINE q == ss
           n == Len(ss)
           b == <<>>
           step == [p \in T \X (1 .. n) |-> KeepSpoken(p[1], q[p[2]])]
           f == CHOOSE h : Keeping(h, ss)
<1>1. NonEmpty(ss) = f[DOMAIN q]
  BY Zenon DEF NonEmpty, FoldLeft, MapThenFoldSet, Keeping
<1>2. n \in Nat /\ DOMAIN q = 1 .. n /\ \A i \in 1 .. n : q[i] = ss[i]
  BY LenProperties
<1> HIDE DEF n, q, b
<1>3. step \in [T \X (1 .. n) -> T] /\ b \in T
  <2>1. \A x \in T : \A i \in 1 .. n : KeepSpoken(x, q[i]) \in T
    BY <1>2 DEF n
  <2> QED BY <2>1 DEF b
<1>4. \A x \in T : \A i \in 1 .. n : step[<<x, i>>] = KeepSpoken(x, q[i])
  OBVIOUS
<1> HIDE DEF step
<1>5. \A s \in SUBSET (1 .. n) : s # {} => Max(s) \in 1 .. n /\ s \ {Max(s)} \in SUBSET (1 .. n)
  BY <1>2, MaxUpTo
<1>6. \E h : Keeping(h, ss)
  <2>1. PICK h \in [SUBSET (1 .. n) -> T] : IsFold(h, n, b, step)
    BY <1>2, <1>3, FoldExists
  <2>2. ASSUME NEW s \in SUBSET (1 .. n), s # {}
        PROVE  h[s] = KeepSpoken(h[s \ {Max(s)}], q[Max(s)])
    <3>1. h[s \ {Max(s)}] \in T /\ Max(s) \in 1 .. n
      BY <1>5, <2>1, <2>2
    <3>2. h[s] = step[<<h[s \ {Max(s)}], Max(s)>>]
      BY <2>1, <2>2, Zenon DEF IsFold
    <3> QED BY <1>4, <3>1, <3>2, Zenon
  <2>3. h[{}] = b
    BY <2>1 DEF IsFold
  <2>4. h = [s \in SUBSET (1 .. n) |-> h[s]]
    BY <2>1
  <2>5. h = [s \in SUBSET (1 .. n) |->
                IF s = {} THEN b ELSE KeepSpoken(h[s \ {Max(s)}], q[Max(s)])]
    BY <2>2, <2>3, <2>4, Zenon
  <2>6. h = [s \in SUBSET DOMAIN q |->
                IF s = {} THEN b ELSE KeepSpoken(h[s \ {Max(s)}], q[Max(s)])]
    BY <1>2, <2>5, Zenon
  <2>7. Keeping(h, ss)
    BY <2>6, Zenon DEF Keeping, q, b
  <2> QED BY <2>7, Zenon
<1>7. f = [s \in SUBSET (1 .. n) |->
              IF s = {} THEN b ELSE KeepSpoken(f[s \ {Max(s)}], q[Max(s)])]
  <2>1. Keeping(f, ss)
    BY <1>6, Zenon
  <2> HIDE DEF f
  <2>2. f = [s \in SUBSET DOMAIN q |->
                IF s = {} THEN b ELSE KeepSpoken(f[s \ {Max(s)}], q[Max(s)])]
    BY <2>1, Zenon DEF Keeping, q, b
  <2> QED BY <1>2, <2>2, Zenon
<1> HIDE DEF f
<1>8. {} \in SUBSET (1 .. n)
  OBVIOUS
<1>9. f[{}] = b
  BY <1>7, <1>8, Zenon
<1>10. ASSUME NEW s \in SUBSET (1 .. n), s # {}, f[s \ {Max(s)}] \in T
       PROVE  f[s] = step[<<f[s \ {Max(s)}], Max(s)>>]
  <2>1. f[s] = KeepSpoken(f[s \ {Max(s)}], q[Max(s)])
    BY <1>7, <1>10, Zenon
  <2> QED BY <1>4, <1>5, <1>10, <2>1, Zenon
<1>11. PICK g \in [0 .. n -> T] : Iterates(g, n, b, step, f[1 .. n])
  <2>1. IsFoldIn(f, n, b, step, T)
    BY <1>9, <1>10, Zenon DEF IsFoldIn
  <2> QED BY <1>2, <1>3, <2>1, FoldValues
<1>12. ASSUME NEW m \in 1 .. n PROVE g[m] = KeepSpoken(g[m - 1], ss[m])
  <2>1. m - 1 \in 0 .. n
    BY <1>2
  <2>2. g[m - 1] \in T /\ g[m] = step[<<g[m - 1], m>>]
    BY <1>11, <2>1 DEF Iterates
  <2> QED BY <1>2, <1>4, <2>2, Zenon
<1>13. g[0] = b /\ g[n] = NonEmpty(ss)
  BY <1>1, <1>2, <1>11, Zenon DEF Iterates
<1> QED BY <1>11, <1>12, <1>13, Zenon DEF n, b

\* Segments without words are left out, and with them nothing that was said.
LEMMA NonEmptyIs ==
    ASSUME NEW V, NEW a \in Int, NEW z \in Int, NEW ss \in Segments(V, a, z)
    PROVE  NonEmpty(ss) \in Segments(V, a, z) /\ Spoken(NonEmpty(ss))
<1> DEFINE n == Len(ss)
           T == Seq(Seg(V))
<1>1. ss \in Seq(Seg(V)) /\ n \in Nat /\ \A i \in 1 .. n : ss[i] \in Seg(V)
  BY SegmentsAre
<1>2. PICK p : Places(p, ss, V, a, z)
  BY SegmentsAre
<1>3. /\ p[0] = a /\ p[n] = z /\ \A i \in 0 .. n : p[i] \in Int
      /\ \A i \in 1 .. n : ss[i].ws \in Stretch(V, p[i - 1], p[i])
  BY <1>2, PlacesAre
<1>4. <<>> \in T /\ \A x \in T : \A i \in 1 .. n : KeepSpoken(x, ss[i]) \in T
  BY <1>1 DEF KeepSpoken
<1> HIDE DEF T
<1>5. PICK g \in [0 .. n -> T] :
          /\ g[0] = <<>> /\ g[n] = NonEmpty(ss)
          /\ \A m \in 1 .. n : g[m] = KeepSpoken(g[m - 1], ss[m])
  BY <1>1, <1>4, KeepSpokenFold, SMTT(60)
<1> DEFINE S == {m \in 0 .. n : g[m] \in Segments(V, a, p[m]) /\ Spoken(g[m])}
<1>6. 0 \in S
  <2>1. Spoken(<<>>)
    BY DEF Spoken
  <2> QED BY <1>1, <1>3, <1>5, <2>1, SegmentsNone
<1>7. ASSUME NEW m \in 0 .. n - 1, m \in S PROVE m + 1 \in S
  <2> DEFINE i == m + 1
  <2>1. i \in 1 .. n /\ i \in 0 .. n /\ m \in 0 .. n /\ i - 1 = m
    BY <1>1
  <2>2. g[i] = KeepSpoken(g[m], ss[i])
    BY <1>5, <2>1
  <2>3. g[m] \in Segments(V, a, p[m]) /\ Spoken(g[m]) /\ p[m] \in Int /\ p[i] \in Int
    BY <1>3, <1>7, <2>1
  <2>4. ss[i] \in Seg(V) /\ ss[i].ws \in Stretch(V, p[m], p[i])
    BY <1>1, <1>3, <2>1
  <2> HIDE DEF i
  <2>5. CASE ss[i].ws = <<>>
    <3>1. p[m] = p[i] /\ g[i] = g[m]
      BY <2>2, <2>3, <2>4, <2>5, StretchGrows DEF KeepSpoken
    <3> QED BY <2>1, <2>3, <3>1 DEF i
  <2>6. CASE ss[i].ws # <<>>
    <3>1. g[i] = Append(g[m], ss[i])
      BY <2>2, <2>6 DEF KeepSpoken
    <3>2. g[i] \in Segments(V, a, p[i])
      BY <1>1, <2>3, <2>4, <3>1, SegmentsAppend
    <3>3. Spoken(g[i])
      <4>1. g[m] \in Seq(Seg(V))
        BY <2>3, SegmentsAre
      <4> QED BY <2>3, <2>4, <2>6, <3>1, <4>1, SpokenAppend
    <3> QED BY <2>1, <3>2, <3>3 DEF i
  <2> QED BY <2>5, <2>6
<1>8. n \in S
  <2> HIDE DEF S
  <2>1. 0 .. n \subseteq S
    BY <1>1, <1>6, <1>7, InductionUpTo
  <2> QED BY <1>1, <2>1
<1> QED BY <1>3, <1>5, <1>8

-----------------------------------------------------------------------------
(* The words of a segment                                                  *)

\* A word is left with a speaker and an end not before its start.
LEMMA CleanWordIs ==
    ASSUME NEW V, NEW seg, seg.spk \in V, NEW w \in WordsBy(Nat \cup {NoSpeaker}),
           w.spk = NoSpeaker \/ w.spk \in V, w.upto = w.from + 10
    PROVE  /\ CleanWord(seg, w) \in Word(V)
           /\ CleanWord(seg, w).from = w.from /\ CleanWord(seg, w).upto = w.upto
<1> DEFINE spk == IF w.spk = NoSpeaker THEN seg.spk ELSE w.spk
           en == IF w.en < w.st THEN w.st + 50 ELSE w.en
           x == [w EXCEPT !.spk = spk, !.en = en]
<1>1. w.st \in Int /\ w.en \in Int /\ w.from \in Nat /\ w.upto \in Nat
  BY DEF WordsBy
<1>2. spk \in V /\ en \in Int
  BY <1>1
<1>3. CleanWord(seg, w) = x
  BY DEF CleanWord, WordsBy
<1> HIDE DEF spk, en
<1>4. x \in WordFields(V)
  BY <1>2 DEF WordFields, WordsBy, Tokens
<1>5. x.from = w.from /\ x.upto = w.upto
  BY DEF WordsBy
<1> HIDE DEF x
<1>6. Sized(x)
  BY <1>1, <1>5 DEF Sized
<1> QED BY <1>3, <1>4, <1>5, <1>6 DEF Word

\* What is known of a transcript and its n-th segment.
LEMMA TranscriptsAre ==
    ASSUME NEW t \in Transcripts, NEW n \in 1 .. Len(t)
    PROVE  LET ws == t[n].ws
           IN  /\ t[n].spk \in Came(t)
               /\ ws \in Seq(WordsBy(Nat \cup {NoSpeaker})) /\ Len(ws) \in Nat /\ DOMAIN ws = 1 .. Len(ws)
               /\ \A j \in 1 .. Len(ws) : /\ ws[j] \in WordsBy(Nat \cup {NoSpeaker})
                                          /\ ws[j].spk = NoSpeaker \/ ws[j].spk \in Came(t)
               /\ Len(WordsUpTo(t, n - 1)) \in Nat
               /\ Len(WordsUpTo(t, n)) = Len(WordsUpTo(t, n - 1)) + Len(ws)
               /\ \A j \in 1 .. Len(ws) :
                     /\ ws[j].from = 10 * (Len(WordsUpTo(t, n - 1)) + j - 1)
                     /\ ws[j].upto = 10 * (Len(WordsUpTo(t, n - 1)) + j)
<1> DEFINE S == [spk : Nat, ws : Seq(WordsBy(Nat \cup {NoSpeaker}))]
           W == WordsBy(Nat \cup {NoSpeaker})
           ws == t[n].ws
           before == WordsUpTo(t, n - 1)
           now == WordsUpTo(t, n)
<1>1. t \in Seq(S)
  BY TranscriptsAssumption
<1>2. DOMAIN t = 1 .. Len(t) /\ Len(t) \in Nat /\ \A i \in 1 .. Len(t) : t[i] \in S
  BY <1>1, LenProperties, ElementOfSeq
<1>3. \A i \in 1 .. Len(t) : t[i].spk \in Nat /\ t[i].ws \in Seq(W)
  BY <1>2
<1>4. ws \in Seq(W) /\ Len(ws) \in Nat /\ DOMAIN ws = 1 .. Len(ws) /\ \A j \in 1 .. Len(ws) : ws[j] \in W
  <2> HIDE DEF W
  <2>1. ws \in Seq(W)
    BY <1>3
  <2> HIDE DEF ws
  <2> QED BY <2>1, LenProperties, ElementOfSeq
<1>5. t[n].spk \in Came(t)
  <2>1. t[n].spk \in Nat /\ n \in DOMAIN t
    BY <1>2, <1>3
  <2>2. t[n].spk # NoSpeaker
    BY <2>1 DEF NoSpeaker
  <2>3. t[n].spk \in Voices(t)
    BY <2>1 DEF Voices
  <2> QED BY <2>2, <2>3 DEF Came
<1>6. ASSUME NEW j \in 1 .. Len(ws) PROVE ws[j].spk = NoSpeaker \/ ws[j].spk \in Came(t)
  <2>1. n \in DOMAIN t
    BY <1>2
  <2>2. ws[j] \in ToSet(ws)
    BY <1>4 DEF ToSet
  <2>3. ws[j].spk \in {w.spk : w \in ToSet(t[n].ws)}
    BY <2>2
  <2> QED BY <2>1, <2>3 DEF Came
<1>7. Len(before) \in Nat /\ Len(now) = Len(before) + Len(ws)
  <2> HIDE DEF W
  <2> DEFINE x == [i \in 1 .. n - 1 |-> t[i].ws]
             y == [i \in 1 .. n |-> t[i].ws]
  <2>1. n - 1 \in Nat /\ n \in Nat /\ \A i \in 1 .. n : i \in 1 .. Len(t)
    BY <1>2
  <2>2. x \in [1 .. n - 1 -> Seq(W)] /\ y \in [1 .. n -> Seq(W)]
    BY <1>3, <2>1
  <2>3. (\A i \in 1 .. n - 1 : y[i] = x[i]) /\ y[n] = ws
    BY <2>1
  <2> HIDE DEF x, y, ws
  <2>4. x \in Seq(Seq(W)) /\ Len(x) = n - 1 /\ y \in Seq(Seq(W)) /\ Len(y) = n
    BY <2>1, <2>2, MappingIsSeq
  <2>5. Len(y) = Len(x) + 1
    BY <2>1, <2>4
  <2>6. FlattenSeq(y) = FlattenSeq(x) \o ws /\ FlattenSeq(x) \in Seq(W)
    BY <2>3, <2>4, <2>5, FlattenMore
  <2>7. Len(FlattenSeq(y)) = Len(FlattenSeq(x)) + Len(ws) /\ Len(FlattenSeq(x)) \in Nat
    BY <1>4, <2>6, ConcatProperties, LenProperties
  <2> QED BY <2>7 DEF WordsUpTo, x, y
<1>8. ASSUME NEW j \in 1 .. Len(ws)
      PROVE  ws[j].from = 10 * (Len(before) + j - 1) /\ ws[j].upto = 10 * (Len(before) + j)
  <2>1. n \in DOMAIN t /\ j \in DOMAIN t[n].ws
    BY <1>2, <1>4
  <2>2. LET number == Len(WordsUpTo(t, n - 1)) + j
        IN  t[n].ws[j].from = 10 * (number - 1) /\ t[n].ws[j].upto = 10 * number
    BY <2>1, TranscriptsAssumption
  <2> QED BY <2>2
<1> QED BY <1>4, <1>5, <1>6, <1>7, <1>8

\* The words of a segment, cleaned and normalised, stand for its words.
LEMMA CleanWordsIs ==
    ASSUME NEW t \in Transcripts, NEW n \in 1 .. Len(t)
    PROVE  CleanWords(t[n]) \in
               Stretch(Came(t), 10 * Len(WordsUpTo(t, n - 1)), 10 * Len(WordsUpTo(t, n)))
<1> DEFINE seg == t[n]
           m == Len(seg.ws)
           V == Came(t)
           b == Len(WordsUpTo(t, n - 1))
           c == Len(WordsUpTo(t, n))
           W == WordsBy(Nat \cup {NoSpeaker})
           ws == [i \in DOMAIN seg.ws |-> CleanWord(seg, seg.ws[i])]
<1>1. /\ seg.spk \in V /\ m \in Nat /\ DOMAIN seg.ws = 1 .. m
      /\ \A j \in 1 .. m : seg.ws[j] \in W /\ (seg.ws[j].spk = NoSpeaker \/ seg.ws[j].spk \in V)
      /\ b \in Nat /\ c = b + m
      /\ \A j \in 1 .. m : seg.ws[j].from = 10 * (b + j - 1) /\ seg.ws[j].upto = 10 * (b + j)
  BY TranscriptsAre
<1> HIDE DEF V, b, c, seg, m
<1>2. ASSUME NEW j \in 1 .. m
      PROVE  /\ ws[j] \in Word(V)
             /\ ws[j].from = 10 * (b + j - 1) /\ ws[j].upto = 10 * (b + j)
  <2>1. ws[j] = CleanWord(seg, seg.ws[j])
    BY <1>1
  <2>2. seg.ws[j].upto = seg.ws[j].from + 10
    BY <1>1
  <2>3. /\ CleanWord(seg, seg.ws[j]) \in Word(V)
        /\ CleanWord(seg, seg.ws[j]).from = seg.ws[j].from /\ CleanWord(seg, seg.ws[j]).upto = seg.ws[j].upto
    <3> DEFINE w == seg.ws[j]
    <3>1. w \in W /\ (w.spk = NoSpeaker \/ w.spk \in V) /\ w.upto = w.from + 10 /\ seg.spk \in V
      BY <1>1, <2>2
    <3> HIDE DEF w
    <3>2. /\ CleanWord(seg, w) \in Word(V)
          /\ CleanWord(seg, w).from = w.from /\ CleanWord(seg, w).upto = w.upto
      BY <3>1, CleanWordIs, ZenonT(60)
    <3> QED BY <3>2 DEF w
  <2> QED BY <1>1, <2>1, <2>3
<1>3. ws \in [1 .. m -> Word(V)]
  BY <1>1, <1>2
<1> HIDE DEF ws
<1>4. ws \in Seq(Word(V)) /\ Len(ws) = m
  BY <1>1, <1>3, MappingIsSeq
<1>5. ws \in Stretch(V, 10 * b, 10 * c)
  <2> DEFINE a == 10 * b
             z == 10 * c
  <2>1. a \in Int /\ z \in Int
    BY <1>1
  <2>2. ASSUME NEW j \in 1 .. m PROVE ws[j].from = Point(ws, a, j - 1)
    <3>1. CASE j = 1
      BY <1>1, <1>2, <3>1 DEF Point
    <3>2. CASE j # 1
      <4>1. j - 1 \in 1 .. m /\ j - 1 # 0
        BY <1>1, <3>2
      <4>2. ws[j - 1].upto = 10 * (b + (j - 1))
        BY <1>2, <4>1
      <4>3. ws[j].from = 10 * (b + j - 1)
        BY <1>2
      <4> QED BY <1>1, <4>1, <4>2, <4>3 DEF Point
    <3> QED BY <3>1, <3>2
  <2>3. Point(ws, a, m) = z
    <3>1. CASE m = 0
      BY <1>1, <3>1 DEF Point
    <3>2. CASE m # 0
      <4>1. m \in 1 .. m
        BY <1>1, <3>2
      <4>2. ws[m].upto = 10 * (b + m)
        BY <1>2, <4>1
      <4> QED BY <1>1, <3>2, <4>2 DEF Point
    <3> QED BY <3>1, <3>2
  <2> HIDE DEF a, z
  <2>4. ws \in Stretch(V, a, z)
    BY <1>4, <2>1, <2>2, <2>3, StretchMade
  <2> QED BY <2>4 DEF a, z
<1>6. normalize_word_stream(ws) \in Stretch(V, 10 * b, 10 * c)
  <2> DEFINE a == 10 * b
             z == 10 * c
  <2>1. a \in Int /\ z \in Int
    BY <1>1
  <2> HIDE DEF a, z

  <2>2. ws \in Stretch(V, a, z)
    BY <1>5 DEF a, z
  <2>3. normalize_word_stream(ws) \in Stretch(V, a, z)
    BY <2>1, <2>2, StreamIs
  <2> QED BY <2>3 DEF a, z
<1> QED BY <1>6 DEF CleanWords, ws, V, b, c, seg

Snapping(h, ws) ==
    LET q == [i \in DOMAIN ws |-> i]
    IN  h = [s \in SUBSET DOMAIN q |->
                IF s = {} THEN ws ELSE SnapAt(h[s \ {Max(s)}], q[Max(s)])]

\* The same for SnapAt.
LEMMA SnapFold ==
    ASSUME NEW ws, NEW U, ws \in Seq(U),
           NEW T, ws \in T, \A x \in T : \A i \in 1 .. Len(ws) : SnapAt(x, i) \in T
    PROVE  \E g \in [0 .. Len(ws) -> T] :
               /\ g[0] = ws /\ g[Len(ws)] = Snap(ws)
               /\ \A m \in 1 .. Len(ws) : g[m] = SnapAt(g[m - 1], m)
<1> DEFINE q == [i \in DOMAIN ws |-> i]
           n == Len(ws)
           b == ws
           step == [p \in T \X (1 .. n) |-> SnapAt(p[1], q[p[2]])]
           f == CHOOSE h : Snapping(h, ws)
<1>1. Snap(ws) = f[DOMAIN q]
  BY Zenon DEF Snap, FoldLeftDomain, FoldLeft, MapThenFoldSet, Snapping
<1>2. n \in Nat /\ DOMAIN q = 1 .. n /\ \A i \in 1 .. n : q[i] = i
  BY LenProperties
<1> HIDE DEF n, q, b
<1>3. step \in [T \X (1 .. n) -> T] /\ b \in T
  <2>1. \A x \in T : \A i \in 1 .. n : SnapAt(x, q[i]) \in T
    BY <1>2 DEF n
  <2> QED BY <2>1 DEF b
<1>4. \A x \in T : \A i \in 1 .. n : step[<<x, i>>] = SnapAt(x, q[i])
  OBVIOUS
<1> HIDE DEF step
<1>5. \A s \in SUBSET (1 .. n) : s # {} => Max(s) \in 1 .. n /\ s \ {Max(s)} \in SUBSET (1 .. n)
  BY <1>2, MaxUpTo
<1>6. \E h : Snapping(h, ws)
  <2>1. PICK h \in [SUBSET (1 .. n) -> T] : IsFold(h, n, b, step)
    BY <1>2, <1>3, FoldExists
  <2>2. ASSUME NEW s \in SUBSET (1 .. n), s # {}
        PROVE  h[s] = SnapAt(h[s \ {Max(s)}], q[Max(s)])
    <3>1. h[s \ {Max(s)}] \in T /\ Max(s) \in 1 .. n
      BY <1>5, <2>1, <2>2
    <3>2. h[s] = step[<<h[s \ {Max(s)}], Max(s)>>]
      BY <2>1, <2>2, Zenon DEF IsFold
    <3> QED BY <1>4, <3>1, <3>2, Zenon
  <2>3. h[{}] = b
    BY <2>1 DEF IsFold
  <2>4. h = [s \in SUBSET (1 .. n) |-> h[s]]
    BY <2>1
  <2>5. h = [s \in SUBSET (1 .. n) |->
                IF s = {} THEN b ELSE SnapAt(h[s \ {Max(s)}], q[Max(s)])]
    BY <2>2, <2>3, <2>4, Zenon
  <2>6. h = [s \in SUBSET DOMAIN q |->
                IF s = {} THEN b ELSE SnapAt(h[s \ {Max(s)}], q[Max(s)])]
    BY <1>2, <2>5, Zenon
  <2>7. Snapping(h, ws)
    BY <2>6, Zenon DEF Snapping, q, b
  <2> QED BY <2>7, Zenon
<1>7. f = [s \in SUBSET (1 .. n) |->
              IF s = {} THEN b ELSE SnapAt(f[s \ {Max(s)}], q[Max(s)])]
  <2>1. Snapping(f, ws)
    BY <1>6, Zenon
  <2> HIDE DEF f
  <2>2. f = [s \in SUBSET DOMAIN q |->
                IF s = {} THEN b ELSE SnapAt(f[s \ {Max(s)}], q[Max(s)])]
    BY <2>1, Zenon DEF Snapping, q, b
  <2> QED BY <1>2, <2>2, Zenon
<1> HIDE DEF f
<1>8. {} \in SUBSET (1 .. n)
  OBVIOUS
<1>9. f[{}] = b
  BY <1>7, <1>8, Zenon
<1>10. ASSUME NEW s \in SUBSET (1 .. n), s # {}, f[s \ {Max(s)}] \in T
       PROVE  f[s] = step[<<f[s \ {Max(s)}], Max(s)>>]
  <2>1. f[s] = SnapAt(f[s \ {Max(s)}], q[Max(s)])
    BY <1>7, <1>10, Zenon
  <2> QED BY <1>4, <1>5, <1>10, <2>1, Zenon
<1>11. PICK g \in [0 .. n -> T] : Iterates(g, n, b, step, f[1 .. n])
  <2>1. IsFoldIn(f, n, b, step, T)
    BY <1>9, <1>10, Zenon DEF IsFoldIn
  <2> QED BY <1>2, <1>3, <2>1, FoldValues
<1>12. ASSUME NEW m \in 1 .. n PROVE g[m] = SnapAt(g[m - 1], m)
  <2>1. m - 1 \in 0 .. n
    BY <1>2
  <2>2. g[m - 1] \in T /\ g[m] = step[<<g[m - 1], m>>]
    BY <1>11, <2>1 DEF Iterates
  <2> QED BY <1>2, <1>4, <2>2, ZenonT(60)
<1>13. g[0] = b /\ g[n] = Snap(ws)
  BY <1>1, <1>2, <1>11, Zenon DEF Iterates
<1> QED BY <1>11, <1>12, <1>13, Zenon DEF n, b

AddingRuns(h, rs) ==
    LET q == rs
    IN  h = [s \in SUBSET DOMAIN q |->
                IF s = {} THEN <<>> ELSE AddRun(h[s \ {Max(s)}], q[Max(s)])]

\* The same for AddRun.
LEMMA AddRunFold ==
    ASSUME NEW rs, NEW U, rs \in Seq(U),
           NEW T, <<>> \in T, \A x \in T : \A i \in 1 .. Len(rs) : AddRun(x, rs[i]) \in T
    PROVE  \E g \in [0 .. Len(rs) -> T] :
               /\ g[0] = <<>> /\ g[Len(rs)] = FoldLeft(AddRun, <<>>, rs)
               /\ \A m \in 1 .. Len(rs) : g[m] = AddRun(g[m - 1], rs[m])
<1> DEFINE q == rs
           n == Len(rs)
           b == <<>>
           step == [p \in T \X (1 .. n) |-> AddRun(p[1], q[p[2]])]
           f == CHOOSE h : AddingRuns(h, rs)
<1>1. FoldLeft(AddRun, <<>>, rs) = f[DOMAIN q]
  BY Zenon DEF FoldLeft, MapThenFoldSet, AddingRuns
<1>2. n \in Nat /\ DOMAIN q = 1 .. n /\ \A i \in 1 .. n : q[i] = rs[i]
  BY LenProperties
<1> HIDE DEF n, q, b
<1>3. step \in [T \X (1 .. n) -> T] /\ b \in T
  <2>1. \A x \in T : \A i \in 1 .. n : AddRun(x, q[i]) \in T
    BY <1>2 DEF n
  <2> QED BY <2>1 DEF b
<1>4. \A x \in T : \A i \in 1 .. n : step[<<x, i>>] = AddRun(x, q[i])
  OBVIOUS
<1> HIDE DEF step
<1>5. \A s \in SUBSET (1 .. n) : s # {} => Max(s) \in 1 .. n /\ s \ {Max(s)} \in SUBSET (1 .. n)
  BY <1>2, MaxUpTo
<1>6. \E h : AddingRuns(h, rs)
  <2>1. PICK h \in [SUBSET (1 .. n) -> T] : IsFold(h, n, b, step)
    BY <1>2, <1>3, FoldExists
  <2>2. ASSUME NEW s \in SUBSET (1 .. n), s # {}
        PROVE  h[s] = AddRun(h[s \ {Max(s)}], q[Max(s)])
    <3>1. h[s \ {Max(s)}] \in T /\ Max(s) \in 1 .. n
      BY <1>5, <2>1, <2>2
    <3>2. h[s] = step[<<h[s \ {Max(s)}], Max(s)>>]
      BY <2>1, <2>2, Zenon DEF IsFold
    <3> QED BY <1>4, <3>1, <3>2, Zenon
  <2>3. h[{}] = b
    BY <2>1 DEF IsFold
  <2>4. h = [s \in SUBSET (1 .. n) |-> h[s]]
    BY <2>1
  <2>5. h = [s \in SUBSET (1 .. n) |->
                IF s = {} THEN b ELSE AddRun(h[s \ {Max(s)}], q[Max(s)])]
    BY <2>2, <2>3, <2>4, Zenon
  <2>6. h = [s \in SUBSET DOMAIN q |->
                IF s = {} THEN b ELSE AddRun(h[s \ {Max(s)}], q[Max(s)])]
    BY <1>2, <2>5, Zenon
  <2>7. AddingRuns(h, rs)
    BY <2>6, Zenon DEF AddingRuns, q, b
  <2> QED BY <2>7, Zenon
<1>7. f = [s \in SUBSET (1 .. n) |->
              IF s = {} THEN b ELSE AddRun(f[s \ {Max(s)}], q[Max(s)])]
  <2>1. AddingRuns(f, rs)
    BY <1>6, Zenon
  <2> HIDE DEF f
  <2>2. f = [s \in SUBSET DOMAIN q |->
                IF s = {} THEN b ELSE AddRun(f[s \ {Max(s)}], q[Max(s)])]
    BY <2>1, Zenon DEF AddingRuns, q, b
  <2> QED BY <1>2, <2>2, Zenon
<1> HIDE DEF f
<1>8. {} \in SUBSET (1 .. n)
  OBVIOUS
<1>9. f[{}] = b
  BY <1>7, <1>8, Zenon
<1>10. ASSUME NEW s \in SUBSET (1 .. n), s # {}, f[s \ {Max(s)}] \in T
       PROVE  f[s] = step[<<f[s \ {Max(s)}], Max(s)>>]
  <2>1. f[s] = AddRun(f[s \ {Max(s)}], q[Max(s)])
    BY <1>7, <1>10, Zenon
  <2> QED BY <1>4, <1>5, <1>10, <2>1, Zenon
<1>11. PICK g \in [0 .. n -> T] : Iterates(g, n, b, step, f[1 .. n])
  <2>1. IsFoldIn(f, n, b, step, T)
    BY <1>9, <1>10, Zenon DEF IsFoldIn
  <2> QED BY <1>2, <1>3, <2>1, FoldValues
<1>12. ASSUME NEW m \in 1 .. n PROVE g[m] = AddRun(g[m - 1], rs[m])
  <2>1. m - 1 \in 0 .. n
    BY <1>2
  <2>2. g[m - 1] \in T /\ g[m] = step[<<g[m - 1], m>>]
    BY <1>11, <2>1 DEF Iterates
  <2> QED BY <1>2, <1>4, <2>2, Zenon
<1>13. g[0] = b /\ g[n] = FoldLeft(AddRun, <<>>, rs)
  BY <1>1, <1>2, <1>11, Zenon DEF Iterates
<1> QED BY <1>11, <1>12, <1>13, Zenon DEF n, b

\* A snap at a boundary changes speakers only.
LEMMA SnapAtIs ==
    ASSUME NEW V, NEW a \in Int, NEW z \in Int, NEW ws \in Stretch(V, a, z), NEW i \in 1 .. Len(ws)
    PROVE  SnapAt(ws, i) \in Stretch(V, a, z) /\ Len(SnapAt(ws, i)) = Len(ws)
<1> DEFINE n == Len(ws)
           moved == Max(SnapPoints(ws, i)) .. i - 1
           x == [m \in DOMAIN ws |-> IF m \in moved THEN [ws[m] EXCEPT !.spk = ws[i].spk] ELSE ws[m]]
<1>1. n \in Nat /\ DOMAIN ws = 1 .. n /\ \A m \in 1 .. n : ws[m] \in Word(V)
  BY StretchIs
<1>2. ASSUME NEW m \in 1 .. n
      PROVE  x[m] \in Word(V) /\ x[m].from = ws[m].from /\ x[m].upto = ws[m].upto
  <2>1. ws[i].spk \in V /\ ws[m] \in Word(V)
    BY <1>1, WordIs
  <2>2. x[m] = IF m \in moved THEN [ws[m] EXCEPT !.spk = ws[i].spk] ELSE ws[m]
    BY <1>1
  <2> HIDE DEF x, moved
  <2>3. CASE m \in moved
    <3>1. x[m] = [ws[m] EXCEPT !.spk = ws[i].spk]
      BY <2>2, <2>3
    <3> QED BY <2>1, <3>1, WordRelabelled
  <2>4. CASE m \notin moved
    BY <2>1, <2>2, <2>4
  <2> QED BY <2>3, <2>4
<1>3. SnapAt(ws, i) \in {ws, x}
  BY Zenon DEF SnapAt
<1>4. x \in [1 .. n -> Word(V)]
  <2>1. x = [m \in 1 .. n |-> x[m]]
    BY <1>1
  <2> HIDE DEF x
  <2> QED BY <1>2, <2>1
<1> HIDE DEF x
<1>5. x \in Stretch(V, a, z) /\ Len(x) = n
  BY <1>2, <1>4, StretchLike
<1> QED BY <1>3, <1>5

\* So do all the snaps of a segment.
LEMMA SnapIs ==
    ASSUME NEW V, NEW a \in Int, NEW z \in Int, NEW ws \in Stretch(V, a, z)
    PROVE  Snap(ws) \in Stretch(V, a, z)
<1> DEFINE n == Len(ws)
           T == {x \in Stretch(V, a, z) : Len(x) = n}
<1>1. n \in Nat /\ ws \in T /\ \A x \in T : \A i \in 1 .. n : SnapAt(x, i) \in T
  BY StretchIs, SnapAtIs
<1>2. ws \in Seq(Word(V))
  BY StretchIs
<1> HIDE DEF T
<1>3. PICK g \in [0 .. n -> T] :
          /\ g[0] = ws /\ g[n] = Snap(ws)
          /\ \A m \in 1 .. n : g[m] = SnapAt(g[m - 1], m)
  BY <1>1, <1>2, SnapFold, SMTT(60)
<1>4. Snap(ws) \in T
  BY <1>1, <1>3
<1> QED BY <1>4 DEF T

-----------------------------------------------------------------------------
(* Runs                                                                    *)

\* Words put at the end of the last run leave as many runs.
LEMMA ExtendIs ==
    ASSUME NEW V, NEW rs \in Seq(Seg(V)), NEW ws, rs # <<>> => ws \in Seq(Word(V))
    PROVE  Extend(rs, ws) \in Seq(Seg(V)) /\ Len(Extend(rs, ws)) = Len(rs)
<1> DEFINE n == Len(rs)
<1>1. n \in Nat /\ DOMAIN rs = 1 .. n /\ \A i \in 1 .. n : rs[i] \in Seg(V)
  OBVIOUS
<1>2. CASE rs = <<>>
  <2>1. n = 0 /\ 1 .. n = {}
    BY <1>2
  <2>2. Extend(rs, ws) \in [1 .. n -> Seg(V)]
    BY <1>1, <2>1 DEF Extend
  <2> QED BY <1>1, <2>2, MappingIsSeq
<1>3. CASE rs # <<>>
  <2>1. n \in 1 .. n
    BY <1>1, <1>3
  <2> DEFINE more == rs[n].ws \o ws
  <2>2. rs[n] \in Seg(V)
    BY <1>1, <2>1
  <2>3. rs[n].ws \in Seq(Word(V))
    BY <2>2, SegIs
  <2>4. more \in Seq(Word(V))
    BY <1>3, <2>3, ConcatProperties
  <2>5. Extend(rs, ws) = [rs EXCEPT ![n] = [rs[n] EXCEPT !.ws = more]]
    BY <2>1 DEF Extend
  <2> HIDE DEF more
  <2>6. [rs[n] EXCEPT !.ws = more] \in Seg(V)
    BY <2>2, <2>4, SegMade, SegIs
  <2> QED BY <2>1, <2>5, <2>6, ExceptSeq
<1> QED BY <1>2, <1>3

\* What the last run says is said for longer.
LEMMA ExtendMore ==
    ASSUME NEW V, NEW a \in Int, NEW b \in Int, NEW z \in Int, NEW rs \in Segments(V, a, b), rs # <<>>,
           Spoken(rs), NEW ws \in Stretch(V, b, z)
    PROVE  Extend(rs, ws) \in Segments(V, a, z) /\ Spoken(Extend(rs, ws)) /\ Len(Extend(rs, ws)) = Len(rs)
<1> DEFINE n == Len(rs)
           more == rs[n].ws \o ws
           u == [rs[n] EXCEPT !.ws = more]
<1>1. rs \in Seq(Seg(V)) /\ n \in Nat /\ \A i \in 1 .. n : rs[i] \in Seg(V)
  BY SegmentsAre
<1>2. n \in 1 .. n /\ Last(rs) = rs[n]
  BY <1>1, EmptySeq DEF Last
<1>3. rs[n] \in Seg(V) /\ rs[n].ws \in Seq(Word(V)) /\ rs[n].spk \in V /\ ws \in Seq(Word(V))
  BY <1>1, <1>2, SegIs, StretchIs
<1>4. rs[n].ws # <<>>
  BY <1>2 DEF Spoken
<1>5. more \in Seq(Word(V)) /\ Len(more) = Len(rs[n].ws) + Len(ws) /\ Len(rs[n].ws) \in Nat /\ Len(ws) \in Nat
  <2> DEFINE x == rs[n].ws
  <2>1. x \in Seq(Word(V)) /\ ws \in Seq(Word(V))
    BY <1>3
  <2> HIDE DEF x
  <2>2. x \o ws \in Seq(Word(V)) /\ Len(x \o ws) = Len(x) + Len(ws) /\ Len(x) \in Nat /\ Len(ws) \in Nat
    BY <2>1, ConcatProperties, LenProperties
  <2> QED BY <2>2 DEF x
<1>6. more # <<>>
  <2>1. Len(rs[n].ws) # 0
    BY <1>3, <1>4, EmptySeq
  <2> HIDE DEF more
  <2>2. Len(more) # 0
    BY <1>5, <2>1
  <2> QED BY <2>2
<1>7. Extend(rs, ws) = [rs EXCEPT ![n] = u]
  BY <1>2 DEF Extend
<1>8. ASSUME NEW c \in Int, rs[n].ws \in Stretch(V, c, b) PROVE more \in Stretch(V, c, z)
  BY <1>8, StretchConcat
<1> HIDE DEF more
<1>9. u \in Seg(V) /\ u.ws = more
  <2> DEFINE r0 == rs[n]
  <2>1. r0 \in Seg(V) /\ r0.spk \in V /\ more \in Seq(Word(V))
    BY <1>3, <1>5
  <2> HIDE DEF r0
  <2>2. [r0 EXCEPT !.ws = more] \in Seg(V) /\ [r0 EXCEPT !.ws = more].ws = more
    BY <2>1, SegWords
  <2> QED BY <2>2 DEF r0
<1> HIDE DEF u
<1>10. \A c \in Int : Last(rs).ws \in Stretch(V, c, b) => u.ws \in Stretch(V, c, z)
  BY <1>2, <1>8, <1>9
<1>11. [rs EXCEPT ![n] = u] \in Segments(V, a, z) /\ Len([rs EXCEPT ![n] = u]) = n
  BY <1>9, <1>10, SegmentsLast
<1>12. Spoken([rs EXCEPT ![n] = u])
  BY <1>1, <1>2, <1>6, <1>9, SpokenExcept
<1> QED BY <1>7, <1>11, <1>12

\* A run added is at most one run more.
LEMMA AddRunIs ==
    ASSUME NEW V, NEW rs \in Seq(Seg(V)), NEW r \in Seg(V)
    PROVE  AddRun(rs, r) \in Seq(Seg(V)) /\ Len(AddRun(rs, r)) <= Len(rs) + 1
<1>1. Len(rs) \in Nat /\ r.ws \in Seq(Word(V))
  BY SegIs
<1>2. Extend(rs, r.ws) \in Seq(Seg(V)) /\ Len(Extend(rs, r.ws)) = Len(rs)
  BY <1>1, ExtendIs
<1>3. Append(rs, r) \in Seq(Seg(V)) /\ Len(Append(rs, r)) = Len(rs) + 1
  OBVIOUS
<1> QED BY <1>1, <1>2, <1>3 DEF AddRun

\* It stands for what follows.
LEMMA AddRunMore ==
    ASSUME NEW V, NEW a \in Int, NEW b \in Int, NEW z \in Int, NEW rs \in Segments(V, a, b), Spoken(rs),
           NEW r \in Seg(V), r.ws \in Stretch(V, b, z), r.ws # <<>>
    PROVE  AddRun(rs, r) \in Segments(V, a, z) /\ Spoken(AddRun(rs, r))
<1>1. rs \in Seq(Seg(V))
  BY SegmentsAre
<1>2. CASE rs # <<>> /\ Last(rs).spk = r.spk
  <2>1. AddRun(rs, r) = Extend(rs, r.ws)
    BY <1>2 DEF AddRun
  <2> QED BY <1>2, <2>1, ExtendMore
<1>3. CASE ~ (rs # <<>> /\ Last(rs).spk = r.spk)
  <2>1. AddRun(rs, r) = Append(rs, r)
    BY <1>3 DEF AddRun
  <2> QED BY <1>1, <2>1, SegmentsAppend, SpokenAppend
<1> QED BY <1>2, <1>3

\* Joining runs makes no more of them, and loses nothing.
LEMMA RunsAdded ==
    ASSUME NEW V, NEW a \in Int, NEW z \in Int, NEW rs \in Segments(V, a, z), Spoken(rs)
    PROVE  LET x == FoldLeft(AddRun, <<>>, rs)
           IN  x \in Segments(V, a, z) /\ Spoken(x) /\ Len(x) <= Len(rs)
<1> DEFINE n == Len(rs)
           T == Seq(Seg(V))
<1>1. rs \in Seq(Seg(V)) /\ n \in Nat /\ \A i \in 1 .. n : rs[i] \in Seg(V)
  BY SegmentsAre
<1>2. <<>> \in T /\ \A x \in T : \A i \in 1 .. n : AddRun(x, rs[i]) \in T
  <2>1. <<>> \in T
    OBVIOUS
  <2>2. ASSUME NEW x \in T, NEW i \in 1 .. n PROVE AddRun(x, rs[i]) \in T
    <3> DEFINE r == rs[i]
    <3>1. r \in Seg(V) /\ x \in Seq(Seg(V))
      BY <1>1
    <3> HIDE DEF r
    <3>2. AddRun(x, r) \in Seq(Seg(V))
      BY <3>1, AddRunIs
    <3> QED BY <3>2 DEF r
  <2> QED BY <2>1, <2>2
<1> HIDE DEF T
<1>3. PICK g \in [0 .. n -> T] :
          /\ g[0] = <<>> /\ g[n] = FoldLeft(AddRun, <<>>, rs)
          /\ \A m \in 1 .. n : g[m] = AddRun(g[m - 1], rs[m])
  BY <1>1, <1>2, AddRunFold, ZenonT(60)
<1> USE DEF T
<1>4. PICK p : Places(p, rs, V, a, z)
  BY SegmentsAre
<1>5. /\ p[0] = a /\ p[n] = z /\ \A i \in 0 .. n : p[i] \in Int
      /\ \A i \in 1 .. n : rs[i].ws \in Stretch(V, p[i - 1], p[i])
  BY <1>4, PlacesAre
<1> DEFINE S == {m \in 0 .. n : g[m] \in Segments(V, a, p[m]) /\ Spoken(g[m]) /\ Len(g[m]) <= m}
<1>6. 0 \in S
  <2>1. Spoken(<<>>) /\ Len(<<>>) <= 0
    BY DEF Spoken
  <2> QED BY <1>1, <1>3, <1>5, <2>1, SegmentsNone
<1>7. ASSUME NEW m \in 0 .. n - 1, m \in S PROVE m + 1 \in S
  <2> DEFINE i == m + 1
  <2>1. i \in 1 .. n /\ i \in 0 .. n /\ m \in 0 .. n /\ i - 1 = m /\ m \in Nat
    BY <1>1
  <2>2. g[i] = AddRun(g[m], rs[i]) /\ rs[i] \in Seg(V)
    BY <1>1, <1>3, <2>1
  <2>3. g[m] \in Segments(V, a, p[m]) /\ Spoken(g[m]) /\ p[m] \in Int /\ p[i] \in Int /\ Len(g[m]) <= m
    BY <1>5, <1>7, <2>1
  <2>4. rs[i].ws \in Stretch(V, p[m], p[i]) /\ rs[i].ws # <<>>
    BY <1>5, <2>1 DEF Spoken
  <2> HIDE DEF i
  <2>5. g[i] \in Segments(V, a, p[i]) /\ Spoken(g[i])
    BY <2>2, <2>3, <2>4, AddRunMore
  <2>6. Len(g[i]) <= i
    <3>1. g[m] \in Seq(Seg(V)) /\ Len(g[m]) \in Nat
      BY <2>3, SegmentsAre
    <3>2. Len(g[i]) <= Len(g[m]) + 1 /\ Len(g[i]) \in Nat
      BY <2>2, <3>1, AddRunIs, LenProperties
    <3> QED BY <2>1, <2>3, <3>1, <3>2 DEF i
  <2> QED BY <2>1, <2>5, <2>6 DEF i
<1>8. n \in S
  <2> HIDE DEF S
  <2>1. 0 .. n \subseteq S
    BY <1>1, <1>6, <1>7, InductionUpTo
  <2> QED BY <1>1, <2>1
<1> QED BY <1>3, <1>5, <1>8

\* Grouping words by speaker gives runs.
LEMMA GroupIs ==
    ASSUME NEW V, NEW a \in Int, NEW z \in Int, NEW ws \in Stretch(V, a, z)
    PROVE  Group(ws) \in Segments(V, a, z) /\ Spoken(Group(ws))
<1> DEFINE n == Len(ws)
           q == [i \in DOMAIN ws |-> [spk |-> ws[i].spk, ws |-> <<ws[i]>>]]
           p == [i \in 0 .. n |-> Point(ws, a, i)]
<1>1. /\ n \in Nat /\ DOMAIN ws = 1 .. n /\ Point(ws, a, 0) = a /\ Point(ws, a, n) = z
      /\ \A i \in 1 .. n : ws[i] \in Word(V)
      /\ \A i \in 0 .. n : Point(ws, a, i) \in Int
      /\ \A i \in 1 .. n : ws[i].from = Point(ws, a, i - 1) /\ ws[i].upto = Point(ws, a, i)
  BY StretchIs
<1>2. ASSUME NEW i \in 1 .. n
      PROVE  /\ q[i] \in Seg(V) /\ q[i].ws = <<ws[i]>> /\ q[i].ws # <<>>
             /\ q[i].ws \in Stretch(V, Point(ws, a, i - 1), Point(ws, a, i))
  <2>1. q[i] = [spk |-> ws[i].spk, ws |-> <<ws[i]>>]
    BY <1>1
  <2>2. ws[i].spk \in V /\ <<ws[i]>> \in Seq(Word(V)) /\ <<ws[i]>> # <<>>
    BY <1>1, WordIs
  <2>3. <<ws[i]>> \in Stretch(V, ws[i].from, ws[i].upto)
    BY <1>1, StretchOne
  <2> HIDE DEF q
  <2>4. q[i] \in Seg(V) /\ q[i].ws = <<ws[i]>>
    BY <2>1, <2>2 DEF Seg
  <2> QED BY <1>1, <2>2, <2>3, <2>4
<1>3. q \in [1 .. n -> Seg(V)]
  <2>1. q = [i \in 1 .. n |-> q[i]]
    BY <1>1
  <2> HIDE DEF q
  <2> QED BY <1>2, <2>1
<1>4. p \in [0 .. n -> Int] /\ \A i \in 0 .. n : p[i] = Point(ws, a, i)
  BY <1>1
<1> HIDE DEF q, p
<1>5. q \in Seq(Seg(V)) /\ Len(q) = n
  BY <1>1, <1>3, MappingIsSeq
<1>6. Places(p, q, V, a, z)
  <2>1. 0 \in 0 .. n /\ n \in 0 .. n /\ \A i \in 1 .. n : i \in 0 .. n /\ i - 1 \in 0 .. n
    BY <1>1
  <2> QED BY <1>1, <1>2, <1>4, <1>5, <2>1 DEF Places
<1>7. q \in Segments(V, a, z) /\ Spoken(q)
  BY <1>2, <1>5, <1>6 DEF Segments, Spoken
<1> QED BY <1>7, RunsAdded DEF Group, q

Isolating(h, rs) ==
    LET q == [i \in DOMAIN rs |-> i]
    IN  h = [s \in SUBSET DOMAIN q |->
                IF s = {} THEN rs ELSE IsolateAt(h[s \ {Max(s)}], q[Max(s)])]

\* The same for IsolateAt.
LEMMA IsolateFold ==
    ASSUME NEW rs, NEW U, rs \in Seq(U),
           NEW T, rs \in T, \A x \in T : \A i \in 1 .. Len(rs) : IsolateAt(x, i) \in T
    PROVE  \E g \in [0 .. Len(rs) -> T] :
               /\ g[0] = rs /\ g[Len(rs)] = Isolate(rs)
               /\ \A m \in 1 .. Len(rs) : g[m] = IsolateAt(g[m - 1], m)
<1> DEFINE q == [i \in DOMAIN rs |-> i]
           n == Len(rs)
           b == rs
           step == [p \in T \X (1 .. n) |-> IsolateAt(p[1], q[p[2]])]
           f == CHOOSE h : Isolating(h, rs)
<1>1. Isolate(rs) = f[DOMAIN q]
  BY Zenon DEF Isolate, FoldLeftDomain, FoldLeft, MapThenFoldSet, Isolating
<1>2. n \in Nat /\ DOMAIN q = 1 .. n /\ \A i \in 1 .. n : q[i] = i
  BY LenProperties
<1> HIDE DEF n, q, b
<1>3. step \in [T \X (1 .. n) -> T] /\ b \in T
  <2>1. \A x \in T : \A i \in 1 .. n : IsolateAt(x, q[i]) \in T
    BY <1>2 DEF n
  <2> QED BY <2>1 DEF b
<1>4. \A x \in T : \A i \in 1 .. n : step[<<x, i>>] = IsolateAt(x, q[i])
  OBVIOUS
<1> HIDE DEF step
<1>5. \A s \in SUBSET (1 .. n) : s # {} => Max(s) \in 1 .. n /\ s \ {Max(s)} \in SUBSET (1 .. n)
  BY <1>2, MaxUpTo
<1>6. \E h : Isolating(h, rs)
  <2>1. PICK h \in [SUBSET (1 .. n) -> T] : IsFold(h, n, b, step)
    BY <1>2, <1>3, FoldExists
  <2>2. ASSUME NEW s \in SUBSET (1 .. n), s # {}
        PROVE  h[s] = IsolateAt(h[s \ {Max(s)}], q[Max(s)])
    <3>1. h[s \ {Max(s)}] \in T /\ Max(s) \in 1 .. n
      BY <1>5, <2>1, <2>2
    <3>2. h[s] = step[<<h[s \ {Max(s)}], Max(s)>>]
      BY <2>1, <2>2, Zenon DEF IsFold
    <3> QED BY <1>4, <3>1, <3>2, Zenon
  <2>3. h[{}] = b
    BY <2>1 DEF IsFold
  <2>4. h = [s \in SUBSET (1 .. n) |-> h[s]]
    BY <2>1
  <2>5. h = [s \in SUBSET (1 .. n) |->
                IF s = {} THEN b ELSE IsolateAt(h[s \ {Max(s)}], q[Max(s)])]
    BY <2>2, <2>3, <2>4, Zenon
  <2>6. h = [s \in SUBSET DOMAIN q |->
                IF s = {} THEN b ELSE IsolateAt(h[s \ {Max(s)}], q[Max(s)])]
    BY <1>2, <2>5, Zenon
  <2>7. Isolating(h, rs)
    BY <2>6, Zenon DEF Isolating, q, b
  <2> QED BY <2>7, Zenon
<1>7. f = [s \in SUBSET (1 .. n) |->
              IF s = {} THEN b ELSE IsolateAt(f[s \ {Max(s)}], q[Max(s)])]
  <2>1. Isolating(f, rs)
    BY <1>6, Zenon
  <2> HIDE DEF f
  <2>2. f = [s \in SUBSET DOMAIN q |->
                IF s = {} THEN b ELSE IsolateAt(f[s \ {Max(s)}], q[Max(s)])]
    BY <2>1, Zenon DEF Isolating, q, b
  <2> QED BY <1>2, <2>2, Zenon
<1> HIDE DEF f
<1>8. {} \in SUBSET (1 .. n)
  OBVIOUS
<1>9. f[{}] = b
  BY <1>7, <1>8, Zenon
<1>10. ASSUME NEW s \in SUBSET (1 .. n), s # {}, f[s \ {Max(s)}] \in T
       PROVE  f[s] = step[<<f[s \ {Max(s)}], Max(s)>>]
  <2>1. f[s] = IsolateAt(f[s \ {Max(s)}], q[Max(s)])
    BY <1>7, <1>10, Zenon
  <2> QED BY <1>4, <1>5, <1>10, <2>1, Zenon
<1>11. PICK g \in [0 .. n -> T] : Iterates(g, n, b, step, f[1 .. n])
  <2>1. IsFoldIn(f, n, b, step, T)
    BY <1>9, <1>10, Zenon DEF IsFoldIn
  <2> QED BY <1>2, <1>3, <2>1, FoldValues
<1>12. ASSUME NEW m \in 1 .. n PROVE g[m] = IsolateAt(g[m - 1], m)
  <2>1. m - 1 \in 0 .. n
    BY <1>2
  <2>2. g[m - 1] \in T /\ g[m] = step[<<g[m - 1], m>>]
    BY <1>11, <2>1 DEF Iterates
  <2> QED BY <1>2, <1>4, <2>2, ZenonT(60)
<1>13. g[0] = b /\ g[n] = Isolate(rs)
  BY <1>1, <1>2, <1>11, Zenon DEF Iterates
<1> QED BY <1>11, <1>12, <1>13, Zenon DEF n, b

\* The ends of a backchannel phrase found in a run lie in the run.
LEMMA SpanIs ==
    ASSUME NEW S, NEW ws \in Seq(S), find_bc_span(ws) # {}
    PROVE  LET bc == find_bc_span(ws)
           IN  Min(bc) \in 1 .. Len(ws) /\ Max(bc) \in Min(bc) .. Len(ws)
<1> DEFINE bc == find_bc_span(ws)
<1>1. Len(ws) \in Nat /\ DOMAIN ws = 1 .. Len(ws)
  OBVIOUS
<1>2. \A i \in bc : i \in DOMAIN ws
  BY Zenon DEF find_bc_span
<1> HIDE DEF bc
<1>3. bc \in SUBSET (1 .. Len(ws))
  BY <1>1, <1>2
<1>4. bc # {}
  BY DEF bc
<1>5. /\ Min(bc) \in bc /\ Max(bc) \in bc /\ \A y \in bc : Min(bc) <= y
  BY <1>1, <1>3, <1>4, MinUpTo, MaxUpTo
<1>6. Min(bc) \in 1 .. Len(ws) /\ Max(bc) \in Min(bc) .. Len(ws)
  <2> DEFINE u == Min(bc)
             v == Max(bc)
  <2>1. u \in 1 .. Len(ws) /\ v \in 1 .. Len(ws) /\ u <= v
    BY <1>3, <1>5
  <2> HIDE DEF u, v
  <2>2. v \in u .. Len(ws)
    BY <1>1, <2>1
  <2> QED BY <2>1, <2>2 DEF u, v
<1> QED BY <1>6 DEF bc

\* Isolating a backchannel moves words between three runs.
LEMMA IsolateAtIs ==
    ASSUME NEW V, NEW a \in Int, NEW z \in Int, NEW rs \in Segments(V, a, z), Spoken(rs),
           NEW i \in 1 .. Len(rs)
    PROVE  LET x == IsolateAt(rs, i)
           IN  x \in Segments(V, a, z) /\ Spoken(x) /\ Len(x) = Len(rs)
<1> DEFINE n == Len(rs)
           before == rs[i - 1].ws
           ws == rs[i].ws
           after == rs[i + 1].ws
           bc == find_bc_span(ws)
           x == Min(bc)
           y == Max(bc)
           first == SubSeq(ws, 1, x - 1)
           core == SubSeq(ws, x, y)
           rest == SubSeq(ws, y + 1, Len(ws))
           lead == Relabel(first, rs[i - 1].spk)
           trail == Relabel(rest, rs[i + 1].spk)
           Cut == [rs EXCEPT ![i - 1].ws = @ \o lead, ![i].ws = core, ![i + 1].ws = trail \o @]
<1>1. rs \in Seq(Seg(V)) /\ n \in Nat /\ DOMAIN rs = 1 .. n /\ \A j \in 1 .. n : rs[j] \in Seg(V)
  BY SegmentsAre
<1>2. IsolateAt(rs, i) = rs \/ (IsolateAt(rs, i) = Cut /\ 1 < i /\ i < n /\ bc # {})
  BY ZenonT(60) DEF IsolateAt
<1>3. CASE IsolateAt(rs, i) = rs
  BY <1>3
<1>4. CASE IsolateAt(rs, i) = Cut /\ 1 < i /\ i < n /\ bc # {}
  <2>1. /\ i - 1 \in 1 .. n /\ i + 1 \in 1 .. n /\ i \in 1 .. n /\ i - 1 # i /\ i - 1 # i + 1 /\ i # i + 1
        /\ i \in 2 .. n - 1
    BY <1>1, <1>4, SMTT(30)
  <2>2. \A j \in 1 .. n : rs[j].spk \in V /\ rs[j].ws \in Seq(Word(V)) /\ rs[j].ws # <<>>
    BY <1>1, SegIs DEF Spoken
  <2>3. before # <<>> /\ after # <<>> /\ rs[i - 1].spk \in V /\ rs[i + 1].spk \in V
        /\ ws \in Seq(Word(V)) /\ before \in Seq(Word(V)) /\ after \in Seq(Word(V))
    BY <2>1, <2>2
  <2>4. x \in 1 .. Len(ws) /\ y \in x .. Len(ws)
    BY <1>4, <2>3, SpanIs
  <2> DEFINE one == before \o lead
             three == trail \o after
             u == [rs[i - 1] EXCEPT !.ws = one]
             v == [rs[i] EXCEPT !.ws = core]
             w == [rs[i + 1] EXCEPT !.ws = three]
  <2>5. ASSUME NEW b \in Int, NEW m \in Int, NEW o \in Int, NEW c \in Int,
               before \in Stretch(V, b, m), ws \in Stretch(V, m, o), after \in Stretch(V, o, c)
        PROVE  /\ \E l, r \in Int : /\ one \in Stretch(V, b, l) /\ core \in Stretch(V, l, r)
                                    /\ three \in Stretch(V, r, c)
               /\ one # <<>> /\ core # <<>> /\ three # <<>>
    <3> HIDE DEF x, y, before, after, ws
    <3>1. PICK l \in Int, r \in Int : /\ first \in Stretch(V, m, l) /\ core \in Stretch(V, l, r)
                                      /\ rest \in Stretch(V, r, o)
      BY <2>4, <2>5, ThreeParts
    <3>2. core # <<>>
      BY <2>4, <2>5, ThreeParts
    <3> HIDE DEF first, core, rest
    <3>3. lead \in Stretch(V, m, l) /\ trail \in Stretch(V, r, o)
      BY <2>3, <2>5, <3>1, RelabelIs
    <3> HIDE DEF lead, trail
    <3>4. one \in Stretch(V, b, l) /\ three \in Stretch(V, r, c) /\ one # <<>> /\ three # <<>>
      BY <2>3, <2>5, <3>1, <3>3, ConcatSpoken
    <3> QED BY <3>1, <3>2, <3>4
  <2>6. PICK p : Places(p, rs, V, a, z)
    BY SegmentsAre
  <2>7. one \in Seq(Word(V)) /\ core \in Seq(Word(V)) /\ three \in Seq(Word(V))
        /\ one # <<>> /\ core # <<>> /\ three # <<>>
    <3> DEFINE b == p[(i - 1) - 1]
               m == p[i - 1]
               o == p[i]
               c == p[i + 1]
    <3>1. \A j \in 1 .. n : rs[j].ws \in Stretch(V, p[j - 1], p[j]) /\ p[j - 1] \in Int /\ p[j] \in Int
      <4>1. \A j \in 1 .. n : j \in 0 .. n /\ j - 1 \in 0 .. n
        BY <1>1
      <4> QED BY <2>6, <4>1, PlacesAre
    <3>2. (i + 1) - 1 = i
      BY <2>1
    <3>3. /\ b \in Int /\ m \in Int /\ o \in Int /\ c \in Int
          /\ before \in Stretch(V, b, m) /\ ws \in Stretch(V, m, o) /\ after \in Stretch(V, o, c)
      BY <2>1, <3>1, <3>2
    <3> HIDE DEF b, m, o, c
    <3>4. PICK l \in Int, r \in Int : /\ one \in Stretch(V, b, l) /\ core \in Stretch(V, l, r)
                                      /\ three \in Stretch(V, r, c)
      <4> HIDE DEF one, core, three, before, ws, after
      <4> QED BY <2>5, <3>3
    <3>5. one # <<>> /\ core # <<>> /\ three # <<>>
      <4> HIDE DEF one, core, three, before, ws, after
      <4> QED BY <2>5, <3>3
    <3> HIDE DEF one, core, three
    <3> QED BY <3>3, <3>4, <3>5, StretchIs
  <2>8. Cut = [rs EXCEPT ![i - 1] = u, ![i] = v, ![i + 1] = w]
    <3> HIDE DEF lead, trail, core
    <3> QED BY <1>1, <2>1
  <2> HIDE DEF one, core, three
  <2>9. u \in Seg(V) /\ v \in Seg(V) /\ w \in Seg(V) /\ u.ws = one /\ v.ws = core /\ w.ws = three
    <3> DEFINE x1 == rs[i - 1]
               x2 == rs[i]
               x3 == rs[i + 1]
    <3>1. x1 \in Seg(V) /\ x2 \in Seg(V) /\ x3 \in Seg(V)
      BY <1>1, <2>1
    <3> HIDE DEF x1, x2, x3
    <3>2. /\ [x1 EXCEPT !.ws = one] \in Seg(V) /\ [x1 EXCEPT !.ws = one].ws = one
          /\ [x2 EXCEPT !.ws = core] \in Seg(V) /\ [x2 EXCEPT !.ws = core].ws = core
          /\ [x3 EXCEPT !.ws = three] \in Seg(V) /\ [x3 EXCEPT !.ws = three].ws = three
      BY <2>7, <3>1, SegWords
    <3> QED BY <3>2 DEF x1, x2, x3
  <2> DEFINE t == [rs EXCEPT ![i - 1] = u, ![i] = v, ![i + 1] = w]
  <2> HIDE DEF u, v, w, Cut
  <2>10. SharedByThree(V, rs[i - 1].ws, rs[i].ws, rs[i + 1].ws, u.ws, v.ws, w.ws)
    BY <2>5, <2>9 DEF SharedByThree
  <2>11. /\ t \in Segments(V, a, z) /\ Len(t) = n /\ t[i - 1] = u /\ t[i] = v /\ t[i + 1] = w
         /\ \A j \in 1 .. n : j # i - 1 /\ j # i /\ j # i + 1 => t[j] = rs[j]
    <3> HIDE DEF t
    <3>1. ChangedThree(t, rs, i, u, v, w)
      BY DEF t, ChangedThree
    <3>2. u \in Seg(V) /\ v \in Seg(V) /\ w \in Seg(V)
      BY <2>9
    <3> HIDE DEF n
    <3>3. i \in 2 .. Len(rs) - 1
      BY <2>1 DEF n
    <3>4. /\ t \in Segments(V, a, z) /\ Len(t) = Len(rs) /\ t[i - 1] = u /\ t[i] = v /\ t[i + 1] = w
          /\ \A j \in 1 .. Len(rs) : j # i - 1 /\ j # i /\ j # i + 1 => t[j] = rs[j]
      BY <2>10, <3>1, <3>2, <3>3, SegmentsThree
    <3> QED BY <3>4 DEF n
  <2> HIDE DEF t
  <2>12. Spoken(t)
    BY <2>2, <2>7, <2>9, <2>11 DEF Spoken
  <2>13. IsolateAt(rs, i) = t
    BY <1>4, <2>8 DEF t
  <2> QED BY <2>11, <2>12, <2>13
<1> QED BY <1>2, <1>3, <1>4

\* Runs stay runs through every isolation.
LEMMA IsolateIs ==
    ASSUME NEW V, NEW a \in Int, NEW z \in Int, NEW rs \in Segments(V, a, z), Spoken(rs)
    PROVE  Isolate(rs) \in Segments(V, a, z) /\ Spoken(Isolate(rs))
<1> DEFINE n == Len(rs)
           T == {x \in Segments(V, a, z) : Spoken(x) /\ Len(x) = n}
<1>1. n \in Nat /\ rs \in T /\ \A x \in T : \A i \in 1 .. n : IsolateAt(x, i) \in T
  BY SegmentsAre, IsolateAtIs, SMTT(60)
<1>2. rs \in Seq(Seg(V))
  BY SegmentsAre
<1> HIDE DEF T
<1>3. PICK g \in [0 .. n -> T] :
          /\ g[0] = rs /\ g[n] = Isolate(rs)
          /\ \A m \in 1 .. n : g[m] = IsolateAt(g[m - 1], m)
  BY <1>1, <1>2, IsolateFold, SMTT(60)
<1>4. Isolate(rs) \in T
  BY <1>1, <1>3
<1> QED BY <1>4 DEF T

Smoothing(h, rs) ==
    LET q == [i \in DOMAIN rs |-> i]
    IN  h = [s \in SUBSET DOMAIN q |->
                IF s = {} THEN [runs |-> rs, new |-> <<>>, changed |-> FALSE] ELSE SmoothAt(h[s \ {Max(s)}], q[Max(s)])]

\* The same for SmoothAt.
LEMMA SmoothFold ==
    ASSUME NEW rs, NEW U, rs \in Seq(U),
           NEW T, [runs |-> rs, new |-> <<>>, changed |-> FALSE] \in T, \A x \in T : \A i \in 1 .. Len(rs) : SmoothAt(x, i) \in T
    PROVE  \E g \in [0 .. Len(rs) -> T] :
               /\ g[0] = [runs |-> rs, new |-> <<>>, changed |-> FALSE] /\ g[Len(rs)] = SmoothPass(rs)
               /\ \A m \in 1 .. Len(rs) : g[m] = SmoothAt(g[m - 1], m)
<1> DEFINE q == [i \in DOMAIN rs |-> i]
           n == Len(rs)
           b == [runs |-> rs, new |-> <<>>, changed |-> FALSE]
           step == [p \in T \X (1 .. n) |-> SmoothAt(p[1], q[p[2]])]
           f == CHOOSE h : Smoothing(h, rs)
<1>1. SmoothPass(rs) = f[DOMAIN q]
  BY Zenon DEF SmoothPass, FoldLeftDomain, FoldLeft, MapThenFoldSet, Smoothing
<1>2. n \in Nat /\ DOMAIN q = 1 .. n /\ \A i \in 1 .. n : q[i] = i
  BY LenProperties
<1> HIDE DEF n, q, b
<1>3. step \in [T \X (1 .. n) -> T] /\ b \in T
  <2>1. \A x \in T : \A i \in 1 .. n : SmoothAt(x, q[i]) \in T
    BY <1>2 DEF n
  <2> QED BY <2>1 DEF b
<1>4. \A x \in T : \A i \in 1 .. n : step[<<x, i>>] = SmoothAt(x, q[i])
  OBVIOUS
<1> HIDE DEF step
<1>5. \A s \in SUBSET (1 .. n) : s # {} => Max(s) \in 1 .. n /\ s \ {Max(s)} \in SUBSET (1 .. n)
  BY <1>2, MaxUpTo
<1>6. \E h : Smoothing(h, rs)
  <2>1. PICK h \in [SUBSET (1 .. n) -> T] : IsFold(h, n, b, step)
    BY <1>2, <1>3, FoldExists
  <2>2. ASSUME NEW s \in SUBSET (1 .. n), s # {}
        PROVE  h[s] = SmoothAt(h[s \ {Max(s)}], q[Max(s)])
    <3>1. h[s \ {Max(s)}] \in T /\ Max(s) \in 1 .. n
      BY <1>5, <2>1, <2>2
    <3>2. h[s] = step[<<h[s \ {Max(s)}], Max(s)>>]
      BY <2>1, <2>2, Zenon DEF IsFold
    <3> QED BY <1>4, <3>1, <3>2, Zenon
  <2>3. h[{}] = b
    BY <2>1 DEF IsFold
  <2>4. h = [s \in SUBSET (1 .. n) |-> h[s]]
    BY <2>1
  <2>5. h = [s \in SUBSET (1 .. n) |->
                IF s = {} THEN b ELSE SmoothAt(h[s \ {Max(s)}], q[Max(s)])]
    BY <2>2, <2>3, <2>4, Zenon
  <2>6. h = [s \in SUBSET DOMAIN q |->
                IF s = {} THEN b ELSE SmoothAt(h[s \ {Max(s)}], q[Max(s)])]
    BY <1>2, <2>5, Zenon
  <2>7. Smoothing(h, rs)
    BY <2>6, Zenon DEF Smoothing, q, b
  <2> QED BY <2>7, Zenon
<1>7. f = [s \in SUBSET (1 .. n) |->
              IF s = {} THEN b ELSE SmoothAt(f[s \ {Max(s)}], q[Max(s)])]
  <2>1. Smoothing(f, rs)
    BY <1>6, Zenon
  <2> HIDE DEF f
  <2>2. f = [s \in SUBSET DOMAIN q |->
                IF s = {} THEN b ELSE SmoothAt(f[s \ {Max(s)}], q[Max(s)])]
    BY <2>1, Zenon DEF Smoothing, q, b
  <2> QED BY <1>2, <2>2, Zenon
<1> HIDE DEF f
<1>8. {} \in SUBSET (1 .. n)
  OBVIOUS
<1>9. f[{}] = b
  BY <1>7, <1>8, Zenon
<1>10. ASSUME NEW s \in SUBSET (1 .. n), s # {}, f[s \ {Max(s)}] \in T
       PROVE  f[s] = step[<<f[s \ {Max(s)}], Max(s)>>]
  <2>1. f[s] = SmoothAt(f[s \ {Max(s)}], q[Max(s)])
    BY <1>7, <1>10, Zenon
  <2> QED BY <1>4, <1>5, <1>10, <2>1, Zenon
<1>11. PICK g \in [0 .. n -> T] : Iterates(g, n, b, step, f[1 .. n])
  <2>1. IsFoldIn(f, n, b, step, T)
    BY <1>9, <1>10, Zenon DEF IsFoldIn
  <2> QED BY <1>2, <1>3, <2>1, FoldValues
<1>12. ASSUME NEW m \in 1 .. n PROVE g[m] = SmoothAt(g[m - 1], m)
  <2>1. m - 1 \in 0 .. n
    BY <1>2
  <2>2. g[m - 1] \in T /\ g[m] = step[<<g[m - 1], m>>]
    BY <1>11, <2>1 DEF Iterates
  <2> QED BY <1>2, <1>4, <2>2, ZenonT(60)
<1>13. g[0] = b /\ g[n] = SmoothPass(rs)
  BY <1>1, <1>2, <1>11, Zenon DEF Iterates
<1> QED BY <1>11, <1>12, <1>13, Zenon DEF n, b


-----------------------------------------------------------------------------
(* Smoothing                                                               *)

\* What a pass over n runs works on.
Smoothed(V, n) == [runs : {x \in Seq(Seg(V)) : Len(x) = n}, new : Seq(Seg(V)), changed : BOOLEAN]

\* The runs kept stand for what comes before p[m], and those still to be read
\* for what comes behind.
HalfRead(V, a, z, n, m, acc, p) ==
    /\ p \in [0 .. n -> Int] /\ p[n] = z
    /\ acc.new \in Segments(V, a, p[m])
    /\ \A j \in m + 1 .. n : acc.runs[j].ws \in Stretch(V, p[j - 1], p[j])

\* After m runs of a pass: nothing is lost, a change has made the runs fewer, and
\* from the second run on there is one kept that can take a word up.  (A first run
\* given away makes the second too long to be jitter.)
PassInv(V, a, z, n, m, acc) ==
    /\ acc \in Smoothed(V, n) /\ Spoken(acc.runs) /\ Spoken(acc.new)
    /\ \E p : HalfRead(V, a, z, n, m, acc, p)
    /\ Len(acc.new) <= m /\ (acc.changed => Len(acc.new) < m)
    /\ m = 1 /\ n > 1 /\ acc.new = <<>> => Len(acc.runs[2].ws) > 1
    /\ m > 1 => acc.new # <<>>

LEMMA SmoothedIs ==
    ASSUME NEW V, NEW n \in Nat, NEW acc \in Smoothed(V, n)
    PROVE  /\ acc.runs \in Seq(Seg(V)) /\ Len(acc.runs) = n /\ DOMAIN acc.runs = 1 .. n
           /\ acc.new \in Seq(Seg(V)) /\ Len(acc.new) \in Nat /\ acc.changed \in BOOLEAN
           /\ \A j \in 1 .. n : /\ acc.runs[j] \in Seg(V) /\ acc.runs[j].spk \in V
                                /\ acc.runs[j].ws \in Seq(Word(V))
<1>1. /\ acc.runs \in Seq(Seg(V)) /\ Len(acc.runs) = n
      /\ acc.new \in Seq(Seg(V)) /\ acc.changed \in BOOLEAN
  BY DEF Smoothed
<1>2. \A j \in 1 .. n : acc.runs[j] \in Seg(V)
  BY <1>1
<1>3. DOMAIN acc.runs = 1 .. n /\ Len(acc.new) \in Nat
  BY <1>1
<1> QED BY <1>1, <1>2, <1>3, SegIs

\* The three things a pass does with a run.
Kept(acc, i) == [acc EXCEPT !.new = Append(@, acc.runs[i])]

TakenUp(acc, i, spk) == [acc EXCEPT !.new = Extend(@, Relabel(acc.runs[i].ws, spk)), !.changed = TRUE]

Given(acc) == [acc EXCEPT !.runs[2].ws = Relabel(acc.runs[1].ws, acc.runs[2].spk) \o @, !.changed = TRUE]

\* Words with another label are words.
LEMMA RelabelTyped ==
    ASSUME NEW V, NEW ws \in Seq(Word(V)), NEW spk \in V
    PROVE  Relabel(ws, spk) \in Seq(Word(V))
<1> DEFINE n == Len(ws)
           x == Relabel(ws, spk)
<1>1. n \in Nat /\ DOMAIN ws = 1 .. n /\ \A j \in 1 .. n : ws[j] \in Word(V)
  BY LenProperties
<1>2. x = [j \in 1 .. n |-> [ws[j] EXCEPT !.spk = spk]]
  BY <1>1 DEF Relabel
<1>3. \A w \in Word(V) : [w EXCEPT !.spk = spk] \in Word(V)
  BY WordRelabelled
<1> HIDE DEF n, x
<1>4. x \in [1 .. n -> Word(V)]
  BY <1>1, <1>2, <1>3
<1> QED BY <1>1, <1>4, MappingIsSeq DEF x

\* A run is kept, taken up by the last one kept, or given to the second.
LEMMA SmoothAtMakes ==
    ASSUME NEW V, NEW n \in Nat, NEW acc \in Smoothed(V, n), NEW i \in 1 .. n
    PROVE  \/ SmoothAt(acc, i) = Kept(acc, i)
           \/ /\ 1 < i /\ Len(acc.runs[i].ws) = 1
              /\ \E spk : /\ spk = acc.runs[i - 1].spk \/ spk = Last(acc.new).spk
                          /\ SmoothAt(acc, i) = TakenUp(acc, i, spk)
           \/ i = 1 /\ n > 1 /\ SmoothAt(acc, i) = Given(acc)
<1> DEFINE rs == acc.runs
           r == rs[i]
           jitter == Jitter(rs, i)
           both == TakenUp(acc, i, rs[i - 1].spk)
           back == TakenUp(acc, i, Last(acc.new).spk)
           same == rs[i - 1].spk = rs[i + 1].spk
           given == [acc EXCEPT !.runs[2].ws = Relabel(r.ws, acc.runs[2].spk) \o @, !.changed = TRUE]
<1>1. Len(rs) = n
  BY SmoothedIs
<1>2. SmoothAt(acc, i) =
          CASE ~ jitter -> Kept(acc, i)
            [] jitter /\ 1 < i /\ i < n /\ same -> both
            [] jitter /\ i = 1 /\ n > 1 -> given
            [] jitter /\ 1 < i /\ i = n -> back
            [] OTHER -> Kept(acc, i)
  BY <1>1, Zenon DEF SmoothAt, Kept, TakenUp
<1>3. jitter => Len(r.ws) = 1
  BY DEF Jitter
<1>4. i = 1 => given = Given(acc)
  BY DEF Given
<1> HIDE DEF jitter, both, back, same, given
<1>5. \/ SmoothAt(acc, i) = Kept(acc, i)
      \/ SmoothAt(acc, i) = both /\ 1 < i /\ jitter
      \/ SmoothAt(acc, i) = given /\ i = 1 /\ n > 1
      \/ SmoothAt(acc, i) = back /\ 1 < i /\ jitter
  BY <1>2
<1>6. CASE SmoothAt(acc, i) = both /\ 1 < i /\ jitter
  BY <1>3, <1>6, Zenon DEF both
<1>7. CASE SmoothAt(acc, i) = back /\ 1 < i /\ jitter
  BY <1>3, <1>7, Zenon DEF back
<1> QED BY <1>4, <1>5, <1>6, <1>7

\* Whatever a pass has kept so far, it goes on to keep runs.
LEMMA SmoothAtIs ==
    ASSUME NEW V, NEW n \in Nat, NEW acc \in Smoothed(V, n), NEW i \in 1 .. n
    PROVE  SmoothAt(acc, i) \in Smoothed(V, n)
<1> DEFINE rs == acc.runs
           r == rs[i]
<1>1. /\ rs \in Seq(Seg(V)) /\ Len(rs) = n /\ DOMAIN rs = 1 .. n /\ acc.new \in Seq(Seg(V)) /\ Len(acc.new) \in Nat
      /\ \A j \in 1 .. n : rs[j] \in Seg(V) /\ rs[j].spk \in V /\ rs[j].ws \in Seq(Word(V))
  BY SmoothedIs
<1>2. r \in Seg(V) /\ r.ws \in Seq(Word(V))
  BY <1>1
<1>3. CASE SmoothAt(acc, i) = Kept(acc, i)
  <2> DEFINE new == Append(acc.new, r)
  <2>1. new \in Seq(Seg(V))
    BY <1>1, <1>2
  <2> HIDE DEF new
  <2>2. [acc EXCEPT !.new = new] \in Smoothed(V, n)
    BY <1>1, <2>1 DEF Smoothed
  <2> QED BY <1>3, <2>2 DEF new, Kept
<1>4. CASE /\ 1 < i /\ Len(r.ws) = 1
           /\ \E spk : /\ spk = rs[i - 1].spk \/ spk = Last(acc.new).spk
                       /\ SmoothAt(acc, i) = TakenUp(acc, i, spk)
  <2>1. PICK spk : /\ spk = rs[i - 1].spk \/ spk = Last(acc.new).spk
                   /\ SmoothAt(acc, i) = TakenUp(acc, i, spk)
    BY <1>4
  <2>2. acc.new # <<>> => spk \in V
    <3>1. i - 1 \in 1 .. n
      BY <1>4
    <3>2. acc.new # <<>> => acc.new[Len(acc.new)] \in Seg(V)
      BY <1>1, ElementOfSeq, EmptySeq
    <3>3. acc.new # <<>> => Last(acc.new).spk \in V
      BY <3>2, SegIs DEF Last
    <3> QED BY <1>1, <2>1, <3>1, <3>3
  <2> DEFINE more == Relabel(r.ws, spk)
             new == Extend(acc.new, more)
  <2>3. acc.new # <<>> => more \in Seq(Word(V))
    BY <1>2, <2>2, RelabelTyped
  <2> HIDE DEF more
  <2>4. new \in Seq(Seg(V))
    BY <1>1, <2>3, ExtendIs
  <2> HIDE DEF new
  <2>5. [acc EXCEPT !.new = new, !.changed = TRUE] \in Smoothed(V, n)
    BY <1>1, <2>4 DEF Smoothed
  <2> QED BY <2>1, <2>5 DEF new, more, TakenUp
<1>5. CASE /\ i = 1 /\ n > 1
           /\ SmoothAt(acc, i) = Given(acc)
  <2> DEFINE r2 == rs[2]
             one == Relabel(r.ws, r2.spk)
             two == one \o r2.ws
             u == [r2 EXCEPT !.ws = two]
             x == [rs EXCEPT ![2] = u]
  <2>1. 2 \in 1 .. n
    BY <1>5
  <2>2. r2 \in Seg(V) /\ r2.spk \in V /\ r2.ws \in Seq(Word(V))
    BY <1>1, <2>1
  <2>3. SmoothAt(acc, i) = [acc EXCEPT !.runs = x, !.changed = TRUE]
    BY <1>1, <1>5, <2>1 DEF Smoothed, Given
  <2> HIDE DEF r2
  <2>4. one \in Seq(Word(V))
    BY <1>2, <2>2, RelabelTyped
  <2> HIDE DEF one
  <2>5. two \in Seq(Word(V))
    BY <2>2, <2>4, ConcatProperties
  <2> HIDE DEF two
  <2>6. u \in Seg(V)
    BY <2>2, <2>5, SegWords
  <2> HIDE DEF u
  <2>7. x \in Seq(Seg(V)) /\ Len(x) = n
    BY <1>1, <2>1, <2>6, ExceptSeq
  <2> HIDE DEF x
  <2>8. [acc EXCEPT !.runs = x, !.changed = TRUE] \in Smoothed(V, n)
    BY <1>1, <2>7 DEF Smoothed
  <2> QED BY <2>3, <2>8
<1>6. \/ SmoothAt(acc, i) = Kept(acc, i)
      \/ /\ 1 < i /\ Len(r.ws) = 1
         /\ \E spk : /\ spk = rs[i - 1].spk \/ spk = Last(acc.new).spk
                     /\ SmoothAt(acc, i) = TakenUp(acc, i, spk)
      \/ /\ i = 1 /\ n > 1
         /\ SmoothAt(acc, i) = Given(acc)
  BY SmoothAtMakes
<1> QED BY <1>3, <1>4, <1>5, <1>6

\* A run is kept.
LEMMA PassKeeps ==
    ASSUME NEW V, NEW a \in Int, NEW z \in Int, NEW n \in Nat, NEW m \in 0 .. n - 1,
           NEW acc, PassInv(V, a, z, n, m, acc), NEW i, i = m + 1
    PROVE  PassInv(V, a, z, n, i, Kept(acc, i))
<1> DEFINE r == acc.runs[i]
           new == Append(acc.new, r)
           x == [acc EXCEPT !.new = new]
<1>1. acc \in Smoothed(V, n) /\ Spoken(acc.runs) /\ Spoken(acc.new) /\ Len(acc.new) <= m
      /\ (acc.changed => Len(acc.new) < m)
  BY DEF PassInv
<1>2. PICK p : HalfRead(V, a, z, n, m, acc, p)
  BY DEF PassInv
<1>3. i \in 1 .. n /\ i \in 0 .. n /\ m \in 0 .. n /\ i - 1 = m /\ i \in m + 1 .. n
      /\ \A j \in i + 1 .. n : j \in m + 1 .. n
  OBVIOUS
<1>4. /\ r \in Seg(V) /\ acc.runs \in Seq(Seg(V)) /\ Len(acc.runs) = n
      /\ acc.new \in Seq(Seg(V)) /\ Len(acc.new) \in Nat
  BY <1>1, <1>3, SmoothedIs
<1>5. r.ws # <<>>
  BY <1>1, <1>3, <1>4 DEF Spoken
<1>6. p[m] \in Int /\ p[i] \in Int /\ r.ws \in Stretch(V, p[m], p[i]) /\ acc.new \in Segments(V, a, p[m])
  BY <1>2, <1>3 DEF HalfRead
<1>7. p \in [0 .. n -> Int] /\ p[n] = z /\ \A j \in i + 1 .. n : acc.runs[j].ws \in Stretch(V, p[j - 1], p[j])
  BY <1>2, <1>3 DEF HalfRead
<1> HIDE DEF r
<1>8. new \in Segments(V, a, p[i]) /\ Len(new) = Len(acc.new) + 1
  BY <1>4, <1>6, SegmentsAppend
<1>9. Spoken(new)
  BY <1>1, <1>4, <1>5, SpokenAppend
<1>10. new \in Seq(Seg(V))
  BY <1>4
<1> HIDE DEF new
<1>11. x \in Smoothed(V, n) /\ x.new = new /\ x.runs = acc.runs /\ x.changed = acc.changed
  BY <1>1, <1>4, <1>10 DEF Smoothed
<1> HIDE DEF x
<1>12. new # <<>>
  BY <1>4, <1>8, <1>10, EmptySeq
<1>13. HalfRead(V, a, z, n, i, x, p)
  BY <1>7, <1>8, <1>11 DEF HalfRead
<1>14. Len(x.new) <= i /\ (x.changed => Len(x.new) < i)
  BY <1>1, <1>3, <1>4, <1>8, <1>11
<1>15. PassInv(V, a, z, n, i, x)
  BY <1>1, <1>9, <1>11, <1>12, <1>13, <1>14 DEF PassInv
<1> QED BY <1>15 DEF x, new, r, Kept

\* A run is taken up by the last one kept.
LEMMA PassTakesUp ==
    ASSUME NEW V, NEW a \in Int, NEW z \in Int, NEW n \in Nat, NEW m \in 0 .. n - 1,
           NEW acc, PassInv(V, a, z, n, m, acc), NEW i, i = m + 1, 1 < i, Len(acc.runs[i].ws) = 1,
           NEW spk, spk = acc.runs[i - 1].spk \/ spk = Last(acc.new).spk
    PROVE  PassInv(V, a, z, n, i, TakenUp(acc, i, spk))
<1> DEFINE r == acc.runs[i]
           more == Relabel(r.ws, spk)
           new == Extend(acc.new, more)
           x == [acc EXCEPT !.new = new, !.changed = TRUE]
<1>1. acc \in Smoothed(V, n) /\ Spoken(acc.runs) /\ Spoken(acc.new) /\ Len(acc.new) <= m
  BY DEF PassInv
<1>2. PICK p : HalfRead(V, a, z, n, m, acc, p)
  BY DEF PassInv
<1>3. i \in 1 .. n /\ i \in 0 .. n /\ m \in 0 .. n /\ i - 1 = m /\ i \in m + 1 .. n /\ i - 1 \in 1 .. n
      /\ \A j \in i + 1 .. n : j \in m + 1 .. n
  OBVIOUS
<1>4. /\ r \in Seg(V) /\ acc.runs \in Seq(Seg(V)) /\ Len(acc.runs) = n /\ acc.runs[i - 1].spk \in V
      /\ acc.new \in Seq(Seg(V)) /\ Len(acc.new) \in Nat
  BY <1>1, <1>3, SmoothedIs
<1>5. acc.new # <<>>
  <2>1. CASE m = 1
    <3>1. i = 2 /\ n > 1
      BY <1>3, <2>1
    <3>2. Len(acc.runs[2].ws) = 1
      BY <3>1
    <3> QED BY <2>1, <3>1, <3>2 DEF PassInv
  <2>2. CASE m > 1
    BY <2>2 DEF PassInv
  <2> QED BY <2>1, <2>2
<1>6. p[m] \in Int /\ p[i] \in Int /\ r.ws \in Stretch(V, p[m], p[i]) /\ acc.new \in Segments(V, a, p[m])
  BY <1>2, <1>3 DEF HalfRead
<1>7. p \in [0 .. n -> Int] /\ p[n] = z /\ \A j \in i + 1 .. n : acc.runs[j].ws \in Stretch(V, p[j - 1], p[j])
  BY <1>2, <1>3 DEF HalfRead
<1> HIDE DEF r
<1>8. spk \in V
  <2>1. acc.new[Len(acc.new)] \in Seg(V)
    BY <1>4, <1>5, ElementOfSeq, EmptySeq
  <2>2. Last(acc.new).spk \in V
    BY <2>1, SegIs DEF Last
  <2> QED BY <1>4, <2>2
<1>9. more \in Stretch(V, p[m], p[i])
  BY <1>6, <1>8, RelabelIs
<1> HIDE DEF more
<1>10. new \in Segments(V, a, p[i]) /\ Spoken(new) /\ Len(new) = Len(acc.new)
  BY <1>1, <1>5, <1>6, <1>9, ExtendMore
<1>11. new \in Seq(Seg(V))
  BY <1>10, SegmentsAre
<1> HIDE DEF new
<1>12. x \in Smoothed(V, n) /\ x.new = new /\ x.runs = acc.runs /\ x.changed = TRUE
  BY <1>1, <1>4, <1>11 DEF Smoothed
<1> HIDE DEF x
<1>13. new # <<>>
  BY <1>4, <1>5, <1>10, <1>11, EmptySeq
<1>14. HalfRead(V, a, z, n, i, x, p)
  BY <1>7, <1>10, <1>12 DEF HalfRead
<1>15. Len(x.new) < i /\ Len(x.new) <= i
  BY <1>1, <1>3, <1>4, <1>10, <1>12
<1>16. PassInv(V, a, z, n, i, x)
  BY <1>1, <1>10, <1>12, <1>13, <1>14, <1>15 DEF PassInv
<1> QED BY <1>16 DEF x, new, more, r, TakenUp

\* The first run is given to the second.
LEMMA PassGives ==
    ASSUME NEW V, NEW a \in Int, NEW z \in Int, NEW n \in Nat, n > 1,
           NEW acc, PassInv(V, a, z, n, 0, acc)
    PROVE  PassInv(V, a, z, n, 1, Given(acc))
<1> DEFINE r1 == acc.runs[1]
           r2 == acc.runs[2]
           one == Relabel(r1.ws, r2.spk)
           two == one \o r2.ws
           u == [r2 EXCEPT !.ws = two]
           rs == [acc.runs EXCEPT ![2] = u]
           x == [acc EXCEPT !.runs = rs, !.changed = TRUE]
<1>1. acc \in Smoothed(V, n) /\ Spoken(acc.runs) /\ Spoken(acc.new) /\ Len(acc.new) <= 0
      /\ (acc.changed => Len(acc.new) < 0)
  BY DEF PassInv
<1>2. PICK p : HalfRead(V, a, z, n, 0, acc, p)
  BY DEF PassInv
<1>3. 1 \in 1 .. n /\ 2 \in 1 .. n /\ 0 \in 0 .. n /\ 1 \in 0 .. n /\ 2 \in 0 .. n /\ 2 - 1 = 1 /\ 1 - 1 = 0
      /\ 1 \in 0 + 1 .. n /\ 2 \in 0 + 1 .. n
      /\ n \in 0 .. n /\ \A j \in 3 .. n : j \in 0 .. n /\ j - 1 \in 0 .. n /\ j \in 1 .. n /\ j # 2 /\ j # 1 /\ j - 1 # 1
                                           /\ j \in 0 + 1 .. n
  OBVIOUS
<1>4. /\ r1 \in Seg(V) /\ r2 \in Seg(V) /\ acc.runs \in Seq(Seg(V)) /\ Len(acc.runs) = n
      /\ acc.new \in Seq(Seg(V)) /\ Len(acc.new) \in Nat
  BY <1>1, <1>3, SmoothedIs
<1>5. r1.ws # <<>> /\ r2.ws # <<>> /\ r2.spk \in V
  BY <1>1, <1>3, <1>4, SegIs DEF Spoken
<1>6. /\ p[0] \in Int /\ p[1] \in Int /\ p[2] \in Int /\ acc.new \in Segments(V, a, p[0])
      /\ r1.ws \in Stretch(V, p[0], p[1]) /\ r2.ws \in Stretch(V, p[1], p[2])
  BY <1>2, <1>3 DEF HalfRead
<1>7. p \in [0 .. n -> Int] /\ p[n] = z /\ \A j \in 3 .. n : acc.runs[j].ws \in Stretch(V, p[j - 1], p[j])
  BY <1>2, <1>3 DEF HalfRead
<1>8. x = Given(acc)
  BY <1>1, <1>3, <1>4 DEF Smoothed, Given
<1> HIDE DEF r1, r2
<1>9. /\ one \in Stretch(V, p[0], p[1]) /\ Len(one) = Len(r1.ws)
  BY <1>5, <1>6, RelabelIs
<1> HIDE DEF one
<1>10. two \in Stretch(V, p[0], p[2]) /\ Len(two) = Len(one) + Len(r2.ws)
  <2> DEFINE c0 == p[0]
             c1 == p[1]
             c2 == p[2]
             y == r2.ws
  <2>1. /\ c0 \in Int /\ c1 \in Int /\ c2 \in Int /\ a \in Int
        /\ one \in Stretch(V, c0, c1) /\ y \in Stretch(V, c1, c2)
    BY <1>6, <1>9
  <2> HIDE DEF c0, c1, c2, y
  <2>2. one \o y \in Stretch(V, c0, c2) /\ Len(one \o y) = Len(one) + Len(y)
    BY <2>1, ConcatSpoken
  <2> QED BY <2>2 DEF c0, c2, y
<1>11. Len(two) > 1 /\ two # <<>> /\ two \in Seq(Word(V))
  <2>1. r1.ws \in Seq(Word(V)) /\ r2.ws \in Seq(Word(V)) /\ two \in Seq(Word(V))
    BY <1>6, <1>10, StretchIs
  <2> HIDE DEF two
  <2>2. Len(r1.ws) \in Nat /\ Len(r2.ws) \in Nat /\ Len(r1.ws) # 0 /\ Len(r2.ws) # 0
    BY <1>5, <2>1, EmptySeq
  <2>3. Len(two) > 1
    <3> DEFINE l1 == Len(r1.ws)
               l2 == Len(r2.ws)
    <3>1. Len(two) = l1 + l2
      BY <1>9, <1>10
    <3>2. l1 \in Nat /\ l2 \in Nat /\ l1 # 0 /\ l2 # 0
      BY <2>2
    <3> HIDE DEF l1, l2
    <3>3. l1 + l2 > 1
      BY <3>2
    <3> QED BY <3>1, <3>3
  <2> QED BY <2>1, <2>3
<1> HIDE DEF two
<1>12. u \in Seg(V) /\ u.ws = two
  BY <1>4, <1>11, SegWords
<1> HIDE DEF u
<1>13. /\ rs \in Seq(Seg(V)) /\ Len(rs) = n
       /\ \A j \in 1 .. n : rs[j] = IF j = 2 THEN u ELSE acc.runs[j]
  BY <1>3, <1>4, <1>12, ExceptSeq
<1>14. Spoken(rs)
  <2>1. u.ws # <<>>
    BY <1>11, <1>12
  <2> QED BY <1>1, <1>3, <1>4, <1>12, <2>1, SpokenExcept
<1> HIDE DEF rs
<1>15. x \in Smoothed(V, n) /\ x.new = acc.new /\ x.runs = rs /\ x.changed = TRUE
  BY <1>1, <1>4, <1>13 DEF Smoothed
<1> HIDE DEF x
<1> DEFINE q == [p EXCEPT ![1] = p[0]]
<1>16. q \in [0 .. n -> Int] /\ q[1] = p[0] /\ \A j \in 0 .. n : j # 1 => q[j] = p[j]
  BY <1>3, <1>6, <1>7
<1> HIDE DEF q
<1>17. q[n] = z
  BY <1>3, <1>7, <1>16
<1>18. ASSUME NEW j \in 1 + 1 .. n PROVE rs[j].ws \in Stretch(V, q[j - 1], q[j])
  <2>1. CASE j = 2
    <3>1. rs[j] = u /\ q[j] = p[2] /\ q[j - 1] = p[0]
      BY <1>3, <1>13, <1>16, <2>1
    <3> QED BY <1>10, <1>12, <3>1
  <2>2. CASE j # 2
    <3>1. j \in 3 .. n
      BY <2>2
    <3>2. rs[j] = acc.runs[j] /\ q[j] = p[j] /\ q[j - 1] = p[j - 1]
      BY <1>3, <1>13, <1>16, <3>1
    <3> QED BY <1>7, <3>1, <3>2
  <2> QED BY <2>1, <2>2
<1>19. HalfRead(V, a, z, n, 1, x, q)
  BY <1>6, <1>15, <1>16, <1>17, <1>18 DEF HalfRead
<1>20. Len(x.new) < 1 /\ Len(x.new) <= 1
  BY <1>1, <1>4, <1>15
<1>21. Len(x.runs[2].ws) > 1
  BY <1>3, <1>11, <1>12, <1>13, <1>15
<1>22. PassInv(V, a, z, n, 1, x)
  BY <1>1, <1>14, <1>15, <1>19, <1>20, <1>21 DEF PassInv
<1> QED BY <1>8, <1>22

\* PassInv holds through a pass.
LEMMA PassSteps ==
    ASSUME NEW V, NEW a \in Int, NEW z \in Int, NEW n \in Nat, NEW m \in 0 .. n - 1,
           NEW acc, PassInv(V, a, z, n, m, acc), NEW i, i = m + 1
    PROVE  PassInv(V, a, z, n, i, SmoothAt(acc, i))
<1> DEFINE rs == acc.runs
           r == rs[i]
<1>1. acc \in Smoothed(V, n) /\ i \in 1 .. n
  BY DEF PassInv
<1>2. \/ SmoothAt(acc, i) = Kept(acc, i)
      \/ /\ 1 < i /\ Len(r.ws) = 1
         /\ \E spk : /\ spk = rs[i - 1].spk \/ spk = Last(acc.new).spk
                     /\ SmoothAt(acc, i) = TakenUp(acc, i, spk)
      \/ /\ i = 1 /\ n > 1
         /\ SmoothAt(acc, i) = Given(acc)
  BY <1>1, SmoothAtMakes
<1>3. CASE SmoothAt(acc, i) = Kept(acc, i)
  BY <1>3, PassKeeps, Zenon
<1>4. CASE /\ 1 < i /\ Len(r.ws) = 1
           /\ \E spk : /\ spk = rs[i - 1].spk \/ spk = Last(acc.new).spk
                       /\ SmoothAt(acc, i) = TakenUp(acc, i, spk)
  <2>1. PICK spk : /\ spk = rs[i - 1].spk \/ spk = Last(acc.new).spk
                   /\ SmoothAt(acc, i) = TakenUp(acc, i, spk)
    BY <1>4
  <2> QED BY <1>4, <2>1, PassTakesUp, Zenon
<1>5. CASE /\ i = 1 /\ n > 1
           /\ SmoothAt(acc, i) = Given(acc)
  <2>1. m = 0
    BY <1>5
  <2> QED BY <1>5, <2>1, PassGives, Zenon
<1> QED BY <1>2, <1>3, <1>4, <1>5

\* A pass keeps what its runs stand for; one that changes anything keeps fewer runs.
LEMMA SmoothPassIs ==
    ASSUME NEW V, NEW a \in Int, NEW z \in Int, NEW rs \in Segments(V, a, z), Spoken(rs)
    PROVE  /\ SmoothPass(rs).new \in Segments(V, a, z) /\ Spoken(SmoothPass(rs).new)
           /\ SmoothPass(rs).changed => Len(SmoothPass(rs).new) < Len(rs)
<1> DEFINE n == Len(rs)
           T == Smoothed(V, n)
           b == [runs |-> rs, new |-> <<>>, changed |-> FALSE]
<1>1. n \in Nat /\ rs \in Seq(Seg(V))
  BY SegmentsAre
<1>2. b \in T
  BY <1>1 DEF Smoothed
<1>3. PassInv(V, a, z, n, 0, b)
  <2>1. PICK p : Places(p, rs, V, a, z)
    BY SegmentsAre
  <2>2. p \in [0 .. n -> Int] /\ p[0] = a /\ p[n] = z /\ \A j \in 1 .. n : rs[j].ws \in Stretch(V, p[j - 1], p[j])
    BY <2>1 DEF Places
  <2>3. <<>> \in Segments(V, a, a) /\ Spoken(<<>>) /\ Len(<<>>) = 0
    BY SegmentsNone DEF Spoken
  <2>4. b.runs = rs /\ b.new = <<>> /\ b.changed = FALSE
    OBVIOUS
  <2> HIDE DEF b, n
  <2>5. HalfRead(V, a, z, n, 0, b, p)
    BY <2>2, <2>3, <2>4 DEF HalfRead
  <2>6. Len(b.new) <= 0 /\ ~ b.changed
    BY <2>3, <2>4
  <2> QED BY <1>2, <2>3, <2>4, <2>5, <2>6 DEF PassInv
<1>4. \A x \in T : \A i \in 1 .. n : SmoothAt(x, i) \in T
  BY <1>1, SmoothAtIs
<1> HIDE DEF T
<1>5. PICK g \in [0 .. n -> T] :
          /\ g[0] = b /\ g[n] = SmoothPass(rs)
          /\ \A m \in 1 .. n : g[m] = SmoothAt(g[m - 1], m)
  BY <1>1, <1>2, <1>4, SmoothFold, SMTT(60)
<1> HIDE DEF b, n
<1> DEFINE S == {m \in 0 .. n : PassInv(V, a, z, n, m, g[m])}
<1>6. 0 \in S
  BY <1>1, <1>3, <1>5
<1>7. ASSUME NEW m \in 0 .. n - 1, m \in S PROVE m + 1 \in S
  <2> DEFINE i == m + 1
  <2>1. i \in 1 .. n /\ i \in 0 .. n /\ i - 1 = m
    BY <1>1
  <2>2. g[i] = SmoothAt(g[m], i) /\ PassInv(V, a, z, n, m, g[m])
    BY <1>5, <1>7, <2>1
  <2> HIDE DEF S
  <2>3. PassInv(V, a, z, n, i, g[i])
    BY <1>1, <2>2, PassSteps
  <2> QED BY <2>1, <2>3 DEF S
<1>8. n \in S
  <2> HIDE DEF S
  <2>1. 0 .. n \subseteq S
    BY <1>1, <1>6, <1>7, InductionUpTo
  <2> QED BY <1>1, <2>1
<1>9. PassInv(V, a, z, n, n, SmoothPass(rs))
  BY <1>5, <1>8
<1>10. PICK p : HalfRead(V, a, z, n, n, SmoothPass(rs), p)
  BY <1>9 DEF PassInv
<1>11. SmoothPass(rs).new \in Segments(V, a, z)
  BY <1>10 DEF HalfRead
<1> QED BY <1>9, <1>11 DEF PassInv, n

\* Merging neighbours of one speaker never makes more runs.
LEMMA MergeRunsIs ==
    ASSUME NEW V, NEW a \in Int, NEW z \in Int, NEW rs \in Segments(V, a, z), Spoken(rs)
    PROVE  MergeRuns(rs) \in Segments(V, a, z) /\ Spoken(MergeRuns(rs)) /\ Len(MergeRuns(rs)) <= Len(rs)
  BY RunsAdded DEF MergeRuns

\* A round of smoothing.
LEMMA RoundIs ==
    ASSUME NEW V, NEW a \in Int, NEW z \in Int, NEW rs \in Segments(V, a, z), Spoken(rs)
    PROVE  LET x == MergeRuns(SmoothPass(rs).new)
           IN  /\ x \in Segments(V, a, z) /\ Spoken(x)
               /\ SmoothPass(rs).changed => Len(x) < Len(rs)
<1> DEFINE y == SmoothPass(rs).new
<1>1. y \in Segments(V, a, z) /\ Spoken(y) /\ (SmoothPass(rs).changed => Len(y) < Len(rs))
  BY SmoothPassIs
<1> HIDE DEF y
<1>2. MergeRuns(y) \in Segments(V, a, z) /\ Spoken(MergeRuns(y)) /\ Len(MergeRuns(y)) <= Len(y)
  BY <1>1, MergeRunsIs
<1>3. Len(y) \in Nat /\ Len(MergeRuns(y)) \in Nat /\ Len(rs) \in Nat
  BY <1>1, <1>2, SegmentsAre
<1>4. SmoothPass(rs).changed => Len(MergeRuns(y)) < Len(rs)
  BY <1>1, <1>2, <1>3
<1> QED BY <1>2, <1>4 DEF y

-----------------------------------------------------------------------------
(* Passes that treat segments one by one                                   *)

\* y, of words of U, stands for what x stands for, of words of V.
Alike(V, U, x, y) == \A b, c \in Int : x \in Stretch(V, b, c) => y \in Stretch(U, b, c)

\* Every segment is exchanged for one that stands for the same.
LEMMA SegmentsMapped ==
    ASSUME NEW V, NEW U, NEW a \in Int, NEW z \in Int, NEW ss \in Segments(V, a, z),
           NEW t \in [1 .. Len(ss) -> Seg(U)], \A i \in 1 .. Len(ss) : Alike(V, U, ss[i].ws, t[i].ws)
    PROVE  t \in Segments(U, a, z) /\ Len(t) = Len(ss) /\ (Spoken(ss) => Spoken(t))
<1>1. Len(ss) \in Nat
  BY SegmentsAre
<1>2. PICK p : Places(p, ss, V, a, z)
  BY SegmentsAre
<1>3. t \in Seq(Seg(U)) /\ Len(t) = Len(ss)
  BY <1>1, MappingIsSeq
<1>4. ASSUME NEW i \in 1 .. Len(ss)
      PROVE  t[i].ws \in Stretch(U, p[i - 1], p[i]) /\ (ss[i].ws # <<>> => t[i].ws # <<>>)
  <2> DEFINE b == p[i - 1]
             c == p[i]
             x == ss[i].ws
             y == t[i].ws
  <2>1. i \in 0 .. Len(ss) /\ i - 1 \in 0 .. Len(ss)
    BY <1>1
  <2>2. b \in Int /\ c \in Int /\ x \in Stretch(V, b, c)
    BY <1>2, <2>1, PlacesAre
  <2>3. Alike(V, U, x, y)
    OBVIOUS
  <2> HIDE DEF b, c, x, y
  <2>4. y \in Stretch(U, b, c)
    BY <2>2, <2>3 DEF Alike
  <2>5. x # <<>> => y # <<>>
    BY <2>2, <2>4, StretchGrows
  <2> QED BY <2>4, <2>5 DEF b, c, x, y
<1>5. p \in [0 .. Len(ss) -> Int] /\ p[0] = a /\ p[Len(ss)] = z
  BY <1>2 DEF Places
<1>6. Places(p, t, U, a, z)
  BY <1>3, <1>4, <1>5 DEF Places
<1>7. Spoken(ss) => Spoken(t)
  BY <1>3, <1>4 DEF Spoken
<1> QED BY <1>3, <1>6, <1>7 DEF Segments

\* Segments with words stand for something.
LEMMA SegmentsGrow ==
    ASSUME NEW V, NEW a \in Int, NEW z \in Int, NEW ss \in Segments(V, a, z), Spoken(ss)
    PROVE  a <= z /\ (ss # <<>> => a < z) /\ (ss = <<>> => a = z)
<1> DEFINE n == Len(ss)
<1>1. n \in Nat /\ ss \in Seq(Seg(V))
  BY SegmentsAre
<1>2. PICK p : Places(p, ss, V, a, z)
  BY SegmentsAre
<1>3. /\ p[0] = a /\ p[n] = z /\ \A i \in 0 .. n : p[i] \in Int
      /\ \A i \in 1 .. n : ss[i].ws \in Stretch(V, p[i - 1], p[i])
  BY <1>2, PlacesAre
<1>4. \A i \in 1 .. n : ss[i].ws # <<>>
  BY DEF Spoken
<1>5. ss = <<>> <=> n = 0
  BY <1>1, EmptySeq
<1> HIDE DEF n
<1> DEFINE S == {i \in 0 .. n : p[i] >= a + i}
<1>6. 0 \in S
  BY <1>1, <1>3
<1>7. ASSUME NEW m \in 0 .. n - 1, m \in S PROVE m + 1 \in S
  <2> DEFINE i == m + 1
             b == p[m]
             c == p[i]
             ws == ss[i].ws
  <2>1. i \in 1 .. n /\ i \in 0 .. n /\ i - 1 = m /\ m \in 0 .. n /\ m \in Int
    BY <1>1
  <2>2. b \in Int /\ c \in Int /\ ws \in Stretch(V, b, c) /\ ws # <<>> /\ b >= a + m
    BY <1>3, <1>4, <1>7, <2>1
  <2> HIDE DEF b, c, ws
  <2>3. b < c
    BY <2>2, StretchGrows
  <2>4. c >= a + (m + 1)
    BY <2>1, <2>2, <2>3
  <2> QED BY <2>1, <2>4 DEF c
<1>8. n \in S
  <2> HIDE DEF S
  <2>1. 0 .. n \subseteq S
    BY <1>1, <1>6, <1>7, InductionUpTo
  <2> QED BY <1>1, <2>1
<1>9. z >= a + n
  BY <1>3, <1>8
<1> QED BY <1>1, <1>3, <1>5, <1>9

\* A segment made from words has one label, and so have its words.
LEMMA MkSegIs ==
    ASSUME NEW V, NEW U, NEW a \in Int, NEW z \in Int, NEW ws \in Stretch(V, a, z), NEW spk \in U
    PROVE  /\ MkSeg(ws, spk) \in Seg(U) /\ MkSeg(ws, spk).spk = spk
           /\ MkSeg(ws, spk).ws \in Stretch(U, a, z) /\ MkSeg(ws, spk).ws \in Stretch({spk}, a, z)
           /\ Len(MkSeg(ws, spk).ws) = Len(ws)
           /\ ws # <<>> => MkSeg(ws, spk).ws # <<>>
<1> DEFINE x == Relabel(ws, spk)
<1>1. x \in Stretch(U, a, z) /\ Len(x) = Len(ws)
  BY RelabelIs
<1>2. x \in Stretch({spk}, a, z)
  <2>1. spk \in {spk}
    OBVIOUS
  <2> QED BY <2>1, RelabelIs
<1>3. MkSeg(ws, spk) = [spk |-> spk, ws |-> x]
  BY DEF MkSeg
<1> HIDE DEF x
<1>4. x \in Seq(Word(U))
  BY <1>1, StretchIs
<1>5. MkSeg(ws, spk) \in Seg(U) /\ MkSeg(ws, spk).spk = spk /\ MkSeg(ws, spk).ws = x
  BY <1>3, <1>4 DEF Seg
<1>6. ws # <<>> => x # <<>>
  BY <1>1, StretchGrows
<1> QED BY <1>1, <1>2, <1>5, <1>6

\* It stands for what the words stand for.
LEMMA MkSegAlike ==
    ASSUME NEW V, NEW U, NEW ws, NEW spk \in U
    PROVE  Alike(V, U, ws, MkSeg(ws, spk).ws)
<1> SUFFICES ASSUME NEW b \in Int, NEW c \in Int, ws \in Stretch(V, b, c)
             PROVE  MkSeg(ws, spk).ws \in Stretch(U, b, c)
  BY DEF Alike
<1> QED BY MkSegIs

\* Words numbered by their segment.
LEMMA NumberedIs ==
    ASSUME NEW V, NEW a \in Int, NEW z \in Int, NEW ss \in Segments(V, a, z)
    PROVE  Numbered(ss) \in Segments(V, a, z)
<1> DEFINE n == Len(ss)
           W(i) == [j \in DOMAIN ss[i].ws |-> [ss[i].ws[j] EXCEPT !.seg = i]]
           t == [i \in 1 .. n |-> [ss[i] EXCEPT !.ws = W(i)]]
<1>1. ss \in Seq(Seg(V)) /\ n \in Nat /\ DOMAIN ss = 1 .. n /\ \A i \in 1 .. n : ss[i] \in Seg(V)
  BY SegmentsAre
<1>2. Numbered(ss) = t
  BY <1>1 DEF Numbered
<1>3. ASSUME NEW i \in 1 .. n
      PROVE  Alike(V, V, ss[i].ws, W(i)) /\ W(i) \in Seq(Word(V))
  <2> DEFINE x == ss[i].ws
             y == [j \in DOMAIN x |-> [x[j] EXCEPT !.seg = i]]
  <2>1. x \in Seq(Word(V))
    BY <1>1, SegIs
  <2> HIDE DEF x
  <2>2. Len(x) \in Nat /\ DOMAIN x = 1 .. Len(x) /\ \A j \in 1 .. Len(x) : x[j] \in Word(V)
    BY <2>1, LenProperties
  <2>3. ASSUME NEW j \in 1 .. Len(x)
        PROVE  y[j] \in Word(V) /\ y[j].from = x[j].from /\ y[j].upto = x[j].upto
    <3> DEFINE w == x[j]
               v == [w EXCEPT !.seg = i]
    <3>1. w \in Word(V) /\ i \in Nat
      BY <1>1, <2>2
    <3>2. y[j] = v
      BY <2>2
    <3> HIDE DEF w
    <3>3. v \in Word(V) /\ v.from = w.from /\ v.upto = w.upto
      BY <3>1, WordNumbered
    <3> QED BY <3>2, <3>3 DEF w
  <2>4. y = [j \in 1 .. Len(x) |-> y[j]]
    BY <2>2
  <2> HIDE DEF y
  <2>5. y \in [1 .. Len(x) -> Word(V)]
    BY <2>3, <2>4
  <2>6. y \in Seq(Word(V))
    BY <2>2, <2>5, MappingIsSeq
  <2>7. ASSUME NEW b \in Int, NEW c \in Int, x \in Stretch(V, b, c) PROVE y \in Stretch(V, b, c)
    BY <2>3, <2>5, <2>7, StretchLike
  <2>8. Alike(V, V, x, y)
    BY <2>7 DEF Alike
  <2> QED BY <2>6, <2>8 DEF x, y
<1> HIDE DEF W, n
<1>4. ASSUME NEW i \in 1 .. n
      PROVE  t[i] \in Seg(V) /\ Alike(V, V, ss[i].ws, t[i].ws)
  <2> DEFINE r == ss[i]
             w == W(i)
  <2>1. r \in Seg(V) /\ w \in Seq(Word(V)) /\ Alike(V, V, r.ws, w) /\ t[i] = [r EXCEPT !.ws = w]
    BY <1>1, <1>3
  <2> HIDE DEF r, w, t
  <2>2. [r EXCEPT !.ws = w] \in Seg(V) /\ [r EXCEPT !.ws = w].ws = w
    BY <2>1, SegWords
  <2> QED BY <2>1, <2>2 DEF r
<1>5. t \in [1 .. n -> Seg(V)]
  <2>1. t = [i \in 1 .. n |-> t[i]]
    OBVIOUS
  <2> HIDE DEF t
  <2> QED BY <1>4, <2>1
<1> HIDE DEF t
<1> QED BY <1>2, <1>4, <1>5, SegmentsMapped DEF n

\* Segments normalized keep their labels.
LEMMA NormalizedAre ==
    ASSUME NEW V, NEW a \in Int, NEW z \in Int, NEW ss \in Segments(V, a, z)
    PROVE  /\ Normalized(ss) \in Segments(V, a, z) /\ Len(Normalized(ss)) = Len(ss)
           /\ Spoken(ss) => Spoken(Normalized(ss))
           /\ \A i \in 1 .. Len(ss) : /\ Normalized(ss)[i].spk = ss[i].spk
                                      /\ Normalized(ss)[i].ws = normalize_segment(ss[i].ws)
<1> DEFINE n == Len(ss)
           t == Normalized(ss)
<1>1. ss \in Seq(Seg(V)) /\ n \in Nat /\ DOMAIN ss = 1 .. n /\ \A i \in 1 .. n : ss[i] \in Seg(V)
  BY SegmentsAre
<1>2. PICK p : Places(p, ss, V, a, z)
  BY SegmentsAre
<1>3. t = [i \in 1 .. n |-> [ss[i] EXCEPT !.ws = normalize_segment(@)]]
  BY <1>1 DEF Normalized
<1>4. \A x : Alike(V, V, x, normalize_segment(x))
  BY NormalizedIs DEF Alike
<1>5. ASSUME NEW i \in 1 .. n
      PROVE  /\ t[i] \in Seg(V) /\ Alike(V, V, ss[i].ws, t[i].ws)
             /\ t[i].spk = ss[i].spk /\ t[i].ws = normalize_segment(ss[i].ws)
  <2> DEFINE r == ss[i]
             w == normalize_segment(r.ws)
             b == p[i - 1]
             c == p[i]
  <2>1. i \in 0 .. n /\ i - 1 \in 0 .. n
    BY <1>1
  <2>2. r \in Seg(V) /\ b \in Int /\ c \in Int /\ r.ws \in Stretch(V, b, c)
    BY <1>1, <1>2, <2>1, PlacesAre
  <2>3. t[i] = [r EXCEPT !.ws = w]
    BY <1>3
  <2> HIDE DEF r, b, c, t
  <2>4. w \in Stretch(V, b, c)
    BY <2>2, NormalizedIs
  <2>5. w \in Seq(Word(V)) /\ Alike(V, V, r.ws, w)
    <3>1. Alike(V, V, r.ws, w)
      BY <1>4
    <3> HIDE DEF w
    <3>2. w \in Seq(Word(V)) /\ \A m \in 1 .. Len(w) : w[m] \in Word(V)
      BY <2>2, <2>4, StretchIs
    <3> QED BY <3>1, <3>2
  <2>6. w = normalize_segment(r.ws)
    OBVIOUS
  <2> HIDE DEF w
  <2>7. [r EXCEPT !.ws = w] \in Seg(V) /\ [r EXCEPT !.ws = w].ws = w /\ [r EXCEPT !.ws = w].spk = r.spk
    BY <2>2, <2>5, SegWords
  <2> QED BY <2>3, <2>5, <2>6, <2>7 DEF r
<1>6. t \in [1 .. n -> Seg(V)]
  <2>1. t = [i \in 1 .. n |-> t[i]]
    BY <1>3
  <2> HIDE DEF t
  <2> QED BY <1>5, <2>1
<1> HIDE DEF t
<1>7. t \in Segments(V, a, z) /\ Len(t) = Len(ss) /\ (Spoken(ss) => Spoken(t))
  BY <1>5, <1>6, SegmentsMapped
<1> QED BY <1>5, <1>7 DEF t

\* t is ss with segments handed to speakers of U.
HandedOver(V, U, ss, t) ==
    /\ t = [i \in DOMAIN ss |-> t[i]]
    /\ \A i \in DOMAIN ss : (\E spk \in U : t[i] = MkSeg(ss[i].ws, spk)) \/ (t[i] = ss[i] /\ V = U)

LEMMA HandedOverAre ==
    ASSUME NEW V, NEW U, NEW a \in Int, NEW z \in Int, NEW ss \in Segments(V, a, z),
           NEW t, HandedOver(V, U, ss, t)
    PROVE  t \in Segments(U, a, z) /\ Len(t) = Len(ss) /\ (Spoken(ss) => Spoken(t))
<1> DEFINE n == Len(ss)
<1>1. ss \in Seq(Seg(V)) /\ n \in Nat /\ DOMAIN ss = 1 .. n /\ \A i \in 1 .. n : ss[i] \in Seg(V)
  BY SegmentsAre
<1>2. PICK p : Places(p, ss, V, a, z)
  BY SegmentsAre
<1>3. ASSUME NEW i \in 1 .. n
      PROVE  t[i] \in Seg(U) /\ Alike(V, U, ss[i].ws, t[i].ws)
  <2>1. CASE \E spk \in U : t[i] = MkSeg(ss[i].ws, spk)
    <3> DEFINE x == ss[i].ws
               b == p[i - 1]
               c == p[i]
    <3>1. PICK spk \in U : t[i] = MkSeg(x, spk)
      BY <2>1
    <3>2. i \in 0 .. n /\ i - 1 \in 0 .. n
      BY <1>1
    <3>3. b \in Int /\ c \in Int /\ x \in Stretch(V, b, c)
      BY <1>2, <3>2, PlacesAre
    <3> HIDE DEF x, b, c
    <3>4. MkSeg(x, spk) \in Seg(U)
      BY <3>3, MkSegIs
    <3>5. Alike(V, U, x, MkSeg(x, spk).ws)
      BY MkSegAlike
    <3> QED BY <3>1, <3>4, <3>5 DEF x
  <2>2. CASE t[i] = ss[i] /\ V = U
    BY <1>1, <2>2 DEF Alike
  <2> QED BY <1>1, <2>1, <2>2 DEF HandedOver
<1>4. t \in [1 .. n -> Seg(U)]
  <2>1. t = [i \in 1 .. n |-> t[i]]
    BY <1>1 DEF HandedOver
  <2> QED BY <1>3, <2>1
<1> QED BY <1>3, <1>4, SegmentsMapped
Regrouping(h, ws) ==
    LET q == ws
    IN  h = [s \in SUBSET DOMAIN q |->
                IF s = {} THEN <<>> ELSE RegroupWord(h[s \ {Max(s)}], q[Max(s)])]

\* The same for RegroupWord.
LEMMA RegroupFold ==
    ASSUME NEW ws, NEW U, ws \in Seq(U),
           NEW T, <<>> \in T, \A x \in T : \A i \in 1 .. Len(ws) : RegroupWord(x, ws[i]) \in T
    PROVE  \E g \in [0 .. Len(ws) -> T] :
               /\ g[0] = <<>> /\ g[Len(ws)] = FoldLeft(RegroupWord, <<>>, ws)
               /\ \A m \in 1 .. Len(ws) : g[m] = RegroupWord(g[m - 1], ws[m])
<1> DEFINE q == ws
           n == Len(ws)
           b == <<>>
           step == [p \in T \X (1 .. n) |-> RegroupWord(p[1], q[p[2]])]
           f == CHOOSE h : Regrouping(h, ws)
<1>1. FoldLeft(RegroupWord, <<>>, ws) = f[DOMAIN q]
  BY Zenon DEF FoldLeft, MapThenFoldSet, Regrouping
<1>2. n \in Nat /\ DOMAIN q = 1 .. n /\ \A i \in 1 .. n : q[i] = ws[i]
  BY LenProperties
<1> HIDE DEF n, q, b
<1>3. step \in [T \X (1 .. n) -> T] /\ b \in T
  <2>1. \A x \in T : \A i \in 1 .. n : RegroupWord(x, q[i]) \in T
    BY <1>2 DEF n
  <2> QED BY <2>1 DEF b
<1>4. \A x \in T : \A i \in 1 .. n : step[<<x, i>>] = RegroupWord(x, q[i])
  OBVIOUS
<1> HIDE DEF step
<1>5. \A s \in SUBSET (1 .. n) : s # {} => Max(s) \in 1 .. n /\ s \ {Max(s)} \in SUBSET (1 .. n)
  BY <1>2, MaxUpTo
<1>6. \E h : Regrouping(h, ws)
  <2>1. PICK h \in [SUBSET (1 .. n) -> T] : IsFold(h, n, b, step)
    BY <1>2, <1>3, FoldExists
  <2>2. ASSUME NEW s \in SUBSET (1 .. n), s # {}
        PROVE  h[s] = RegroupWord(h[s \ {Max(s)}], q[Max(s)])
    <3>1. h[s \ {Max(s)}] \in T /\ Max(s) \in 1 .. n
      BY <1>5, <2>1, <2>2
    <3>2. h[s] = step[<<h[s \ {Max(s)}], Max(s)>>]
      BY <2>1, <2>2, Zenon DEF IsFold
    <3> QED BY <1>4, <3>1, <3>2, Zenon
  <2>3. h[{}] = b
    BY <2>1 DEF IsFold
  <2>4. h = [s \in SUBSET (1 .. n) |-> h[s]]
    BY <2>1
  <2>5. h = [s \in SUBSET (1 .. n) |->
                IF s = {} THEN b ELSE RegroupWord(h[s \ {Max(s)}], q[Max(s)])]
    BY <2>2, <2>3, <2>4, Zenon
  <2>6. h = [s \in SUBSET DOMAIN q |->
                IF s = {} THEN b ELSE RegroupWord(h[s \ {Max(s)}], q[Max(s)])]
    BY <1>2, <2>5, Zenon
  <2>7. Regrouping(h, ws)
    BY <2>6, Zenon DEF Regrouping, q, b
  <2> QED BY <2>7, Zenon
<1>7. f = [s \in SUBSET (1 .. n) |->
              IF s = {} THEN b ELSE RegroupWord(f[s \ {Max(s)}], q[Max(s)])]
  <2>1. Regrouping(f, ws)
    BY <1>6, Zenon
  <2> HIDE DEF f
  <2>2. f = [s \in SUBSET DOMAIN q |->
                IF s = {} THEN b ELSE RegroupWord(f[s \ {Max(s)}], q[Max(s)])]
    BY <2>1, Zenon DEF Regrouping, q, b
  <2> QED BY <1>2, <2>2, Zenon
<1> HIDE DEF f
<1>8. {} \in SUBSET (1 .. n)
  OBVIOUS
<1>9. f[{}] = b
  BY <1>7, <1>8, Zenon
<1>10. ASSUME NEW s \in SUBSET (1 .. n), s # {}, f[s \ {Max(s)}] \in T
       PROVE  f[s] = step[<<f[s \ {Max(s)}], Max(s)>>]
  <2>1. f[s] = RegroupWord(f[s \ {Max(s)}], q[Max(s)])
    BY <1>7, <1>10, Zenon
  <2> QED BY <1>4, <1>5, <1>10, <2>1, Zenon
<1>11. PICK g \in [0 .. n -> T] : Iterates(g, n, b, step, f[1 .. n])
  <2>1. IsFoldIn(f, n, b, step, T)
    BY <1>9, <1>10, Zenon DEF IsFoldIn
  <2> QED BY <1>2, <1>3, <2>1, FoldValues
<1>12. ASSUME NEW m \in 1 .. n PROVE g[m] = RegroupWord(g[m - 1], ws[m])
  <2>1. m - 1 \in 0 .. n
    BY <1>2
  <2>2. g[m - 1] \in T /\ g[m] = step[<<g[m - 1], m>>]
    BY <1>11, <2>1 DEF Iterates
  <2> QED BY <1>2, <1>4, <2>2, Zenon
<1>13. g[0] = b /\ g[n] = FoldLeft(RegroupWord, <<>>, ws)
  BY <1>1, <1>2, <1>11, Zenon DEF Iterates
<1> QED BY <1>11, <1>12, <1>13, Zenon DEF n, b


\* One word of a segment.
LEMMA OneWordIs ==
    ASSUME NEW V, NEW w \in Word(V), NEW r, r = [spk |-> w.spk, ws |-> <<w>>]
    PROVE  r \in Seg(V) /\ r.ws = <<w>> /\ r.ws # <<>>
<1>1. w.spk \in V /\ <<w>> \in Seq(Word(V)) /\ <<w>> # <<>>
  BY WordIs
<1> QED BY <1>1 DEF Seg

\* A word more, in the last segment or in one of its own.
LEMMA RegroupWordIs ==
    ASSUME NEW V, NEW acc \in Seq(Seg(V)), NEW w \in Word(V)
    PROVE  RegroupWord(acc, w) \in Seq(Seg(V))
<1> DEFINE r == [spk |-> w.spk, ws |-> <<w>>]
<1>1. r \in Seg(V) /\ <<w>> \in Seq(Word(V))
  BY OneWordIs
<1> HIDE DEF r
<1>2. Extend(acc, <<w>>) \in Seq(Seg(V)) /\ Append(acc, r) \in Seq(Seg(V))
  <2> DEFINE more == <<w>>
  <2>1. more \in Seq(Word(V))
    BY <1>1
  <2>2. Append(acc, r) \in Seq(Seg(V))
    BY <1>1
  <2> HIDE DEF more
  <2>3. Extend(acc, more) \in Seq(Seg(V)) /\ Len(Extend(acc, more)) = Len(acc)
    BY <2>1, ExtendIs
  <2> QED BY <2>2, <2>3 DEF more
<1> QED BY <1>2 DEF RegroupWord, r

LEMMA RegroupWordMore ==
    ASSUME NEW V, NEW a \in Int, NEW b \in Int, NEW acc \in Segments(V, a, b), Spoken(acc),
           NEW w \in Word(V), w.from = b
    PROVE  RegroupWord(acc, w) \in Segments(V, a, w.upto) /\ Spoken(RegroupWord(acc, w))
<1> DEFINE r == [spk |-> w.spk, ws |-> <<w>>]
           z == w.upto
<1>1. r \in Seg(V) /\ r.ws = <<w>> /\ r.ws # <<>>
  BY OneWordIs
<1>2. <<w>> \in Stretch(V, b, z) /\ z \in Int
  BY StretchOne
<1>3. acc \in Seq(Seg(V))
  BY SegmentsAre
<1> HIDE DEF r, z
<1>4. r.ws \in Stretch(V, b, z)
  BY <1>1, <1>2
<1>5. CASE acc # <<>> /\ RegroupWord(acc, w) = Extend(acc, <<w>>)
  BY <1>2, <1>5, ExtendMore DEF z
<1>6. CASE RegroupWord(acc, w) = Append(acc, r)
  <2>1. Append(acc, r) \in Segments(V, a, z)
    BY <1>1, <1>2, <1>4, SegmentsAppend
  <2>2. Spoken(Append(acc, r))
    BY <1>1, <1>3, SpokenAppend
  <2> QED BY <1>6, <2>1, <2>2 DEF z
<1>7. \/ acc # <<>> /\ RegroupWord(acc, w) = Extend(acc, <<w>>)
      \/ RegroupWord(acc, w) = Append(acc, r)
  BY DEF RegroupWord, r
<1> QED BY <1>5, <1>6, <1>7

\* Words grouped again are segments.
LEMMA RegroupedIs ==
    ASSUME NEW V, NEW a \in Int, NEW z \in Int, NEW ws \in Stretch(V, a, z)
    PROVE  /\ FoldLeft(RegroupWord, <<>>, ws) \in Segments(V, a, z)
           /\ Spoken(FoldLeft(RegroupWord, <<>>, ws))
<1> DEFINE n == Len(ws)
           T == Seq(Seg(V))
<1>1. /\ ws \in Seq(Word(V)) /\ n \in Nat /\ \A i \in 1 .. n : ws[i] \in Word(V)
      /\ \A i \in 0 .. n : Point(ws, a, i) \in Int
      /\ Point(ws, a, 0) = a /\ Point(ws, a, n) = z
      /\ \A i \in 1 .. n : ws[i].from = Point(ws, a, i - 1) /\ ws[i].upto = Point(ws, a, i)
  BY StretchIs
<1>2. <<>> \in T /\ \A x \in T : \A i \in 1 .. n : RegroupWord(x, ws[i]) \in T
  <2>1. <<>> \in T
    OBVIOUS
  <2>2. ASSUME NEW x \in T, NEW i \in 1 .. n PROVE RegroupWord(x, ws[i]) \in T
    <3> DEFINE w == ws[i]
    <3>1. w \in Word(V)
      BY <1>1
    <3> HIDE DEF w
    <3>2. RegroupWord(x, w) \in Seq(Seg(V))
      BY <3>1, RegroupWordIs
    <3> QED BY <3>2 DEF w
  <2> QED BY <2>1, <2>2
<1> HIDE DEF T
<1>3. PICK g \in [0 .. n -> T] :
          /\ g[0] = <<>> /\ g[n] = FoldLeft(RegroupWord, <<>>, ws)
          /\ \A m \in 1 .. n : g[m] = RegroupWord(g[m - 1], ws[m])
  BY <1>1, <1>2, RegroupFold, ZenonT(60)
<1> DEFINE S == {m \in 0 .. n : g[m] \in Segments(V, a, Point(ws, a, m)) /\ Spoken(g[m])}
<1>4. 0 \in S
  <2>1. Spoken(<<>>)
    BY DEF Spoken
  <2> QED BY <1>1, <1>3, <2>1, SegmentsNone
<1>5. ASSUME NEW m \in 0 .. n - 1, m \in S PROVE m + 1 \in S
  <2> DEFINE i == m + 1
             b == Point(ws, a, m)
             w == ws[i]
  <2>1. i \in 1 .. n /\ i \in 0 .. n /\ m \in 0 .. n /\ i - 1 = m
    BY <1>1
  <2>2. g[i] = RegroupWord(g[m], w) /\ w \in Word(V) /\ w.from = b /\ w.upto = Point(ws, a, i)
    BY <1>1, <1>3, <2>1
  <2>3. g[m] \in Segments(V, a, b) /\ Spoken(g[m]) /\ b \in Int
    BY <1>1, <1>5, <2>1
  <2> DEFINE c == Point(ws, a, i)
  <2> HIDE DEF i, b, w, S
  <2>4. g[i] \in Segments(V, a, w.upto) /\ Spoken(g[i])
    BY <2>2, <2>3, RegroupWordMore
  <2> QED BY <2>1, <2>2, <2>4 DEF i, S
<1>6. n \in S
  <2> HIDE DEF S
  <2>1. 0 .. n \subseteq S
    BY <1>1, <1>4, <1>5, InductionUpTo
  <2> QED BY <1>1, <2>1
<1> QED BY <1>1, <1>3, <1>6

\* All of Regroup: numbered, normalized across segments, grouped, normalized.
LEMMA RegroupIs ==
    ASSUME NEW V, NEW a \in Int, NEW z \in Int, NEW ss \in Segments(V, a, z)
    PROVE  LET t == Normalized(FoldLeft(RegroupWord, <<>>, normalize_word_stream(Flat(Numbered(ss)))))
           IN  t \in Segments(V, a, z) /\ Spoken(t)
<1> DEFINE w == normalize_word_stream(Flat(Numbered(ss)))
           q == FoldLeft(RegroupWord, <<>>, w)
<1>1. Numbered(ss) \in Segments(V, a, z)
  BY NumberedIs
<1>2. Flat(Numbered(ss)) \in Stretch(V, a, z)
  BY <1>1, FlatIs
<1>3. w \in Stretch(V, a, z)
  BY <1>2, StreamIs
<1> HIDE DEF w
<1>4. q \in Segments(V, a, z) /\ Spoken(q)
  BY <1>3, RegroupedIs
<1> HIDE DEF q
<1>5. Normalized(q) \in Segments(V, a, z) /\ Spoken(Normalized(q))
  BY <1>4, NormalizedAre
<1> QED BY <1>5 DEF q, w

-----------------------------------------------------------------------------
(* Roles                                                                   *)

\* The segments of s with an honorific, with bench language, and all.
Addressing(ss, s) == {i \in DOMAIN ss : ss[i].spk = s /\ Honorific(ss[i])}
Ruling(ss, s) == {i \in DOMAIN ss : ss[i].spk = s /\ BenchTalk(ss[i])}
Speaking(ss, s) == {i \in DOMAIN ss : ss[i].spk = s}

\* No j of I has a better score f than i, or the same and a lower rank r.
IsBest(i, I, f, r) == i \in I /\ \A j \in I : f[i] > f[j] \/ (f[i] = f[j] /\ r[i] <= r[j])

\* Of some positions up to n one is best: first by its score, then by its rank.
LEMMA BestUpTo ==
    ASSUME NEW n \in Nat, NEW I \in SUBSET (1 .. n), I # {},
           NEW f \in [1 .. n -> Int], NEW r \in [1 .. n -> Int]
    PROVE  \E i : IsBest(i, I, f, r)
<1> DEFINE Best(m) == \E i \in I : i <= m /\ \A j \in I : j <= m => f[i] > f[j] \/ (f[i] = f[j] /\ r[i] <= r[j])
           S == {m \in 0 .. n : (\E i \in I : i <= m) => Best(m)}
<1>1. 0 \in S
  OBVIOUS
<1>2. ASSUME NEW m \in 0 .. n - 1, m \in S PROVE m + 1 \in S
  <2> DEFINE k0 == m + 1
  <2>1. k0 \in 1 .. n /\ k0 \in 0 .. n /\ \A j \in I : j <= k0 => j <= m \/ j = k0
    OBVIOUS
  <2>2. \A j \in I : j <= m => j <= k0
    OBVIOUS
  <2>3. (\E i \in I : i <= m) => Best(m)
    BY <1>2
  <2>4. ASSUME NEW i \in I, i <= k0 PROVE Best(k0)
    <3> HIDE DEF k0
    <3>1. CASE k0 \notin I
      <4>1. i <= m
        BY <2>1, <2>4, <3>1
      <4>2. PICK b \in I : b <= m /\ \A j \in I : j <= m => f[b] > f[j] \/ (f[b] = f[j] /\ r[b] <= r[j])
        BY <2>3, <4>1
      <4>3. b <= k0
        BY <2>2, <4>2
      <4>4. \A j \in I : j <= k0 => f[b] > f[j] \/ (f[b] = f[j] /\ r[b] <= r[j])
        BY <2>1, <3>1, <4>2
      <4> QED BY <4>3, <4>4
    <3>2. CASE k0 \in I /\ ~ \E j \in I : j <= m
      <4>1. \A j \in I : j <= k0 => j = k0
        BY <2>1, <3>2
      <4>2. f[k0] \in Int /\ r[k0] \in Int /\ k0 <= k0
        BY <2>1
      <4> QED BY <3>2, <4>1, <4>2
    <3>3. CASE k0 \in I /\ \E j \in I : j <= m
      <4>1. PICK b \in I : b <= m /\ \A j \in I : j <= m => f[b] > f[j] \/ (f[b] = f[j] /\ r[b] <= r[j])
        BY <2>3, <3>3
      <4>2. b <= k0 /\ k0 <= k0
        BY <2>1, <2>2, <4>1
      <4>3. \A j \in I : f[j] \in Int /\ r[j] \in Int
        OBVIOUS
      <4>4. CASE f[b] > f[k0] \/ (f[b] = f[k0] /\ r[b] <= r[k0])
        <5>1. \A j \in I : j <= k0 => f[b] > f[j] \/ (f[b] = f[j] /\ r[b] <= r[j])
          BY <2>1, <4>1, <4>4
        <5> QED BY <4>2, <5>1
      <4>5. CASE ~ (f[b] > f[k0] \/ (f[b] = f[k0] /\ r[b] <= r[k0]))
        <5>1. \A j \in I : j <= k0 => f[k0] > f[j] \/ (f[k0] = f[j] /\ r[k0] <= r[j])
          <6> SUFFICES ASSUME NEW j \in I, j <= k0
                       PROVE  f[k0] > f[j] \/ (f[k0] = f[j] /\ r[k0] <= r[j])
            OBVIOUS
          <6>1. f[k0] \in Int /\ r[k0] \in Int /\ f[b] \in Int /\ r[b] \in Int /\ f[j] \in Int /\ r[j] \in Int
            BY <3>3, <4>3
          <6>2. CASE j = k0
            BY <6>1, <6>2
          <6>3. CASE j <= m
            <7>1. f[b] > f[j] \/ (f[b] = f[j] /\ r[b] <= r[j])
              BY <4>1, <6>3
            <7> QED BY <4>5, <6>1, <7>1
          <6> QED BY <2>1, <6>2, <6>3
        <5> QED BY <3>3, <4>2, <5>1
      <4> QED BY <4>4, <4>5
    <3> QED BY <3>1, <3>2, <3>3
  <2> QED BY <2>1, <2>4
<1>3. n \in S
  <2> HIDE DEF S
  <2>1. 0 .. n \subseteq S
    BY <1>1, <1>2, InductionUpTo
  <2> QED BY <2>1
<1>4. \A i \in I : i <= n
  OBVIOUS
<1>5. Best(n)
  BY <1>3, <1>4
<1> QED BY <1>4, <1>5 DEF IsBest

\* What can be numbered is finite.
LEMMA NumberedFinite ==
    ASSUME NEW T, NEW n \in Nat, NEW f \in [1 .. n -> T], \A t \in T : \E i \in 1 .. n : f[i] = t
    PROVE  IsFiniteSet(T)
<1>1. f \in Seq(T) /\ Len(f) = n
  BY MappingIsSeq
<1> QED BY <1>1 DEF IsFiniteSet

\* What is known of the speakers of segments.
LEMMA VoicesAre ==
    ASSUME NEW V, NEW ss \in Seq(Seg(V))
    PROVE  /\ Voices(ss) \subseteq V /\ IsFiniteSet(Voices(ss))
           /\ \A s \in Voices(ss) : \E i \in 1 .. Len(ss) : ss[i].spk = s
           /\ \A i \in 1 .. Len(ss) : ss[i].spk \in Voices(ss)
           /\ ss # <<>> => Voices(ss) # {}
<1> DEFINE n == Len(ss)
           f == [i \in 1 .. n |-> ss[i].spk]
<1>1. n \in Nat /\ DOMAIN ss = 1 .. n /\ \A i \in 1 .. n : ss[i] \in Seg(V)
  OBVIOUS
<1>2. Voices(ss) = {ss[i].spk : i \in 1 .. n}
  BY <1>1 DEF Voices
<1>3. \A i \in 1 .. n : ss[i].spk \in V
  BY <1>1, SegIs
<1>4. IsFiniteSet({ss[i].spk : i \in 1 .. n})
  <2> DEFINE T == {ss[i].spk : i \in 1 .. n}
  <2>1. f \in [1 .. n -> T] /\ \A t \in T : \E i \in 1 .. n : f[i] = t
    OBVIOUS
  <2> HIDE DEF T, f
  <2>2. IsFiniteSet(T)
    BY <1>1, <2>1, NumberedFinite
  <2> QED BY <2>2 DEF T
<1>5. ss # <<>> => 1 \in 1 .. n
  BY <1>1, EmptySeq
<1> HIDE DEF n
<1> QED BY <1>2, <1>3, <1>4, <1>5 DEF n

\* Of some speakers one is best, which makes CHOOSE choose.
LEMMA BestVoice ==
    ASSUME NEW V, NEW ss \in Seq(Seg(V)), NEW C \in SUBSET Voices(ss), C # {},
           NEW f \in [C -> Int], NEW r \in [C -> Int]
    PROVE  \E s : IsBest(s, C, f, r)
<1> DEFINE n == Len(ss)
           I == {i \in 1 .. n : ss[i].spk \in C}
           g == [i \in 1 .. n |-> IF ss[i].spk \in C THEN f[ss[i].spk] ELSE 0]
           h == [i \in 1 .. n |-> IF ss[i].spk \in C THEN r[ss[i].spk] ELSE 0]
<1>1. n \in Nat /\ g \in [1 .. n -> Int] /\ h \in [1 .. n -> Int]
  OBVIOUS
<1>2. \A s \in C : \E i \in 1 .. n : ss[i].spk = s
  BY VoicesAre
<1>3. I # {} /\ I \in SUBSET (1 .. n)
  BY <1>2
<1>4. \A i \in I : g[i] = f[ss[i].spk] /\ h[i] = r[ss[i].spk] /\ ss[i].spk \in C
  OBVIOUS
<1>5. \A s \in C : \E i \in I : ss[i].spk = s
  BY <1>2
<1> HIDE DEF I, g, h, n
<1>6. PICK i : IsBest(i, I, g, h)
  BY <1>1, <1>3, BestUpTo
<1> DEFINE s == ss[i].spk
<1>7. i \in I /\ s \in C
  BY <1>4, <1>6 DEF IsBest
<1>8. ASSUME NEW t \in C PROVE f[s] > f[t] \/ (f[s] = f[t] /\ r[s] <= r[t])
  <2>1. PICK j \in I : ss[j].spk = t
    BY <1>5
  <2>2. g[i] = f[s] /\ h[i] = r[s] /\ g[j] = f[t] /\ h[j] = r[t]
    BY <1>4, <1>7, <2>1
  <2> QED BY <1>6, <2>2 DEF IsBest
<1> QED BY <1>7, <1>8 DEF IsBest

\* Segments of a speaker are counted.
LEMMA CountsAre ==
    ASSUME NEW V, NEW ss \in Seq(Seg(V)), NEW s
    PROVE  /\ CounselVotes(ss, s) = Cardinality(Addressing(ss, s)) /\ CounselVotes(ss, s) \in Nat
           /\ JudgeVotes(ss, s) = Cardinality(Ruling(ss, s)) /\ JudgeVotes(ss, s) \in Nat
           /\ Addressing(ss, s) \in SUBSET (1 .. Len(ss)) /\ (CounselVotes(ss, s) > 0 => Addressing(ss, s) # {})
           /\ Ruling(ss, s) \in SUBSET (1 .. Len(ss)) /\ (JudgeVotes(ss, s) > 0 => Ruling(ss, s) # {})
           /\ Speaking(ss, s) \in SUBSET (1 .. Len(ss)) /\ (s \in Voices(ss) => Speaking(ss, s) # {})
<1> DEFINE n == Len(ss)
<1>1. n \in Nat /\ DOMAIN ss = 1 .. n /\ IsFiniteSet(1 .. n)
  BY FS_Interval
<1>2. CounselVotes(ss, s) = Cardinality(Addressing(ss, s))
  BY Zenon DEF CounselVotes, Votes, Heard, Addressing
<1>3. JudgeVotes(ss, s) = Cardinality(Ruling(ss, s))
  BY Zenon DEF JudgeVotes, Votes, Heard, Ruling
<1>4. Addressing(ss, s) \in SUBSET (1 .. n) /\ Ruling(ss, s) \in SUBSET (1 .. n) /\ Speaking(ss, s) \in SUBSET (1 .. n)
  BY <1>1 DEF Addressing, Ruling, Speaking
<1>5. ASSUME NEW X \in SUBSET (1 .. n) PROVE Cardinality(X) \in Nat /\ (Cardinality(X) > 0 => X # {})
  <2>1. IsFiniteSet(X)
    BY <1>1, FS_Subset
  <2>2. Cardinality(X) \in Nat
    BY <2>1, FS_CardinalityType
  <2>3. Cardinality({}) = 0
    BY FS_EmptySet
  <2>4. X = {} => ~ (Cardinality(X) > 0)
    BY <2>3
  <2> QED BY <2>2, <2>4
<1>6. s \in Voices(ss) => Speaking(ss, s) # {}
  BY <1>1, VoicesAre DEF Speaking
<1> HIDE DEF n
<1> QED BY <1>2, <1>3, <1>4, <1>5, <1>6 DEF n
Summing(h, ss, spk) ==
    LET q == ss
    IN  h = [s \in SUBSET DOMAIN q |->
                IF s = {} THEN 0 ELSE AddDur(h[s \ {Max(s)}], q[Max(s)], spk)]

\* The same for AddDur.
LEMMA DurationFold ==
    ASSUME NEW ss, NEW U, ss \in Seq(U), NEW spk,
           NEW T, 0 \in T, \A x \in T : \A i \in 1 .. Len(ss) : AddDur(x, ss[i], spk) \in T
    PROVE  \E g \in [0 .. Len(ss) -> T] :
               /\ g[0] = 0 /\ g[Len(ss)] = TotalDur(ss, spk)
               /\ \A m \in 1 .. Len(ss) : g[m] = AddDur(g[m - 1], ss[m], spk)
<1> DEFINE q == ss
           n == Len(ss)
           b == 0
           step == [p \in T \X (1 .. n) |-> AddDur(p[1], q[p[2]], spk)]
           f == CHOOSE h : Summing(h, ss, spk)
<1>1. TotalDur(ss, spk) = f[DOMAIN q]
  BY Zenon DEF TotalDur, FoldLeft, MapThenFoldSet, Summing
<1>2. n \in Nat /\ DOMAIN q = 1 .. n /\ \A i \in 1 .. n : q[i] = ss[i]
  BY LenProperties
<1> HIDE DEF n, q, b
<1>3. step \in [T \X (1 .. n) -> T] /\ b \in T
  <2>1. \A x \in T : \A i \in 1 .. n : AddDur(x, q[i], spk) \in T
    BY <1>2 DEF n
  <2> QED BY <2>1 DEF b
<1>4. \A x \in T : \A i \in 1 .. n : step[<<x, i>>] = AddDur(x, q[i], spk)
  OBVIOUS
<1> HIDE DEF step
<1>5. \A s \in SUBSET (1 .. n) : s # {} => Max(s) \in 1 .. n /\ s \ {Max(s)} \in SUBSET (1 .. n)
  BY <1>2, MaxUpTo
<1>6. \E h : Summing(h, ss, spk)
  <2>1. PICK h \in [SUBSET (1 .. n) -> T] : IsFold(h, n, b, step)
    BY <1>2, <1>3, FoldExists
  <2>2. ASSUME NEW s \in SUBSET (1 .. n), s # {}
        PROVE  h[s] = AddDur(h[s \ {Max(s)}], q[Max(s)], spk)
    <3>1. h[s \ {Max(s)}] \in T /\ Max(s) \in 1 .. n
      BY <1>5, <2>1, <2>2
    <3>2. h[s] = step[<<h[s \ {Max(s)}], Max(s)>>]
      BY <2>1, <2>2, Zenon DEF IsFold
    <3> QED BY <1>4, <3>1, <3>2, Zenon
  <2>3. h[{}] = b
    BY <2>1 DEF IsFold
  <2>4. h = [s \in SUBSET (1 .. n) |-> h[s]]
    BY <2>1
  <2>5. h = [s \in SUBSET (1 .. n) |->
                IF s = {} THEN b ELSE AddDur(h[s \ {Max(s)}], q[Max(s)], spk)]
    BY <2>2, <2>3, <2>4, Zenon
  <2>6. h = [s \in SUBSET DOMAIN q |->
                IF s = {} THEN b ELSE AddDur(h[s \ {Max(s)}], q[Max(s)], spk)]
    BY <1>2, <2>5, Zenon
  <2>7. Summing(h, ss, spk)
    BY <2>6, Zenon DEF Summing, q, b
  <2> QED BY <2>7, Zenon
<1>7. f = [s \in SUBSET (1 .. n) |->
              IF s = {} THEN b ELSE AddDur(f[s \ {Max(s)}], q[Max(s)], spk)]
  <2>1. Summing(f, ss, spk)
    BY <1>6, Zenon
  <2> HIDE DEF f
  <2>2. f = [s \in SUBSET DOMAIN q |->
                IF s = {} THEN b ELSE AddDur(f[s \ {Max(s)}], q[Max(s)], spk)]
    BY <2>1, Zenon DEF Summing, q, b
  <2> QED BY <1>2, <2>2, Zenon
<1> HIDE DEF f
<1>8. {} \in SUBSET (1 .. n)
  OBVIOUS
<1>9. f[{}] = b
  BY <1>7, <1>8, Zenon
<1>10. ASSUME NEW s \in SUBSET (1 .. n), s # {}, f[s \ {Max(s)}] \in T
       PROVE  f[s] = step[<<f[s \ {Max(s)}], Max(s)>>]
  <2>1. f[s] = AddDur(f[s \ {Max(s)}], q[Max(s)], spk)
    BY <1>7, <1>10, Zenon
  <2> QED BY <1>4, <1>5, <1>10, <2>1, Zenon
<1>11. PICK g \in [0 .. n -> T] : Iterates(g, n, b, step, f[1 .. n])
  <2>1. IsFoldIn(f, n, b, step, T)
    BY <1>9, <1>10, Zenon DEF IsFoldIn
  <2> QED BY <1>2, <1>3, <2>1, FoldValues
<1>12. ASSUME NEW m \in 1 .. n PROVE g[m] = AddDur(g[m - 1], ss[m], spk)
  <2>1. m - 1 \in 0 .. n
    BY <1>2
  <2>2. g[m - 1] \in T /\ g[m] = step[<<g[m - 1], m>>]
    BY <1>11, <2>1 DEF Iterates
  <2> QED BY <1>2, <1>4, <2>2, Zenon
<1>13. g[0] = b /\ g[n] = TotalDur(ss, spk)
  BY <1>1, <1>2, <1>11, Zenon DEF Iterates
<1> QED BY <1>11, <1>12, <1>13, Zenon DEF n, b


\* The times of a segment with words.
LEMMA TimesAre ==
    ASSUME NEW V, NEW r \in Seg(V), r.ws # <<>>
    PROVE  Start(r) \in Int /\ End(r) \in Int
<1> DEFINE ws == r.ws
<1>1. ws \in Seq(Word(V)) /\ ws # <<>>
  BY SegIs
<1>2. Start(r) = ws[1].st /\ End(r) = ws[Len(ws)].en
  BY DEF Start, End, Last
<1> HIDE DEF ws
<1>3. ws[1] \in Word(V) /\ ws[Len(ws)] \in Word(V)
  <2>1. 1 \in 1 .. Len(ws) /\ Len(ws) \in 1 .. Len(ws)
    BY <1>1, EmptySeq
  <2> QED BY <1>1, <2>1, ElementOfSeq
<1>4. ws[1].st \in Int /\ ws[Len(ws)].en \in Int
  BY <1>3, WordIs
<1> QED BY <1>2, <1>4

\* How long somebody speaks is a number.
LEMMA DurationIs ==
    ASSUME NEW V, NEW ss \in Seq(Seg(V)), Spoken(ss), NEW s
    PROVE  TotalDur(ss, s) \in Nat
<1> DEFINE n == Len(ss)
<1>1. n \in Nat /\ \A i \in 1 .. n : ss[i] \in Seg(V) /\ ss[i].ws # <<>>
  BY DEF Spoken
<1>2. ASSUME NEW x \in Nat, NEW i \in 1 .. n PROVE AddDur(x, ss[i], s) \in Nat
  <2> DEFINE r == ss[i]
             d == End(r) - Start(r)
             m == Max({50, d})
  <2>1. r \in Seg(V) /\ r.ws # <<>>
    BY <1>1
  <2> HIDE DEF r
  <2>2. d \in Int
    BY <2>1, TimesAre
  <2> HIDE DEF d
  <2>a. 50 \in Int
    OBVIOUS
  <2>b. Max({50, d}) \in {50, d} /\ Max({50, d}) >= 50
    BY <2>a, <2>2, MaxPair
  <2>3. m \in {50, d} /\ m >= 50
    BY <2>b
  <2>4. AddDur(x, r, s) = IF r.spk = s THEN x + m ELSE x
    BY DEF AddDur, d
  <2> HIDE DEF m
  <2>5. m \in Nat
    BY <2>2, <2>3
  <2>6. AddDur(x, r, s) \in Nat
    BY <2>4, <2>5
  <2> QED BY <2>6 DEF r
<1>3. 0 \in Nat /\ \A x \in Nat : \A i \in 1 .. n : AddDur(x, ss[i], s) \in Nat
  BY <1>2
<1>4. \E g \in [0 .. Len(ss) -> Nat] :
          /\ g[0] = 0 /\ g[Len(ss)] = TotalDur(ss, s)
          /\ \A m \in 1 .. Len(ss) : g[m] = AddDur(g[m - 1], ss[m], s)
  <2> HIDE DEF Seg
  <2>1. ss \in Seq(Seg(V)) /\ 0 \in Nat
    BY <1>3
  <2>2. \A x \in Nat : \A i \in 1 .. Len(ss) : AddDur(x, ss[i], s) \in Nat
    BY <1>3
  <2> QED BY <2>1, <2>2, DurationFold, ZenonT(60)
<1>5. n \in 0 .. n
  BY <1>1
<1> QED BY <1>4, <1>5

\* Counsel is somebody who speaks.
LEMMA CounselIs ==
    ASSUME NEW V, NEW ss \in Seq(Seg(V)), ss # <<>>
    PROVE  CounselOf(ss) \in Voices(ss)
<1> DEFINE C == {s \in Voices(ss) : CounselVotes(ss, s) > 0}
           f == [s \in C |-> CounselVotes(ss, s)]
           r == [s \in C |-> Min(Addressing(ss, s))]
           Good(s) == \A t \in C : \/ CounselVotes(ss, s) > CounselVotes(ss, t)
                                   \/ /\ CounselVotes(ss, s) = CounselVotes(ss, t)
                                      /\ Min(Addressing(ss, s)) <= Min(Addressing(ss, t))
<1>1. CounselOf(ss) = IF C = {} THEN ss[1].spk ELSE CHOOSE s \in C : Good(s)
  BY Zenon DEF CounselOf, Leader, Heard, Addressing
<1>2. ss[1].spk \in Voices(ss)
  <2>1. 1 \in 1 .. Len(ss)
    BY EmptySeq
  <2> QED BY <2>1, VoicesAre
<1>3. ASSUME C # {} PROVE \E s \in C : Good(s)
  <2>1. ASSUME NEW s \in C PROVE f[s] \in Int /\ r[s] \in Int
    <3>1. f[s] = CounselVotes(ss, s) /\ r[s] = Min(Addressing(ss, s)) /\ CounselVotes(ss, s) > 0
      OBVIOUS
    <3> HIDE DEF f, r, C
    <3>2. /\ CounselVotes(ss, s) \in Nat
          /\ Addressing(ss, s) \in SUBSET (1 .. Len(ss)) /\ Addressing(ss, s) # {}
      BY <3>1, CountsAre
    <3>3. Min(Addressing(ss, s)) \in Addressing(ss, s) /\ Len(ss) \in Nat
      BY <3>2, MinUpTo, LenProperties
    <3>4. Min(Addressing(ss, s)) \in 1 .. Len(ss)
      BY <3>2, <3>3
    <3> QED BY <3>1, <3>2, <3>4
  <2>2. f \in [C -> Int] /\ r \in [C -> Int]
    <3>1. f = [s \in C |-> f[s]] /\ r = [s \in C |-> r[s]]
      OBVIOUS
    <3> HIDE DEF f, r, C
    <3> QED BY <2>1, <3>1
  <2>3. C \in SUBSET Voices(ss)
    OBVIOUS
  <2>4. \A s \in C : f[s] = CounselVotes(ss, s) /\ r[s] = Min(Addressing(ss, s))
    OBVIOUS
  <2> HIDE DEF f, r, C
  <2>5. PICK s : IsBest(s, C, f, r)
    BY <1>3, <2>2, <2>3, BestVoice
  <2> QED BY <2>4, <2>5 DEF IsBest
<1>4. C # {} => (CHOOSE s \in C : Good(s)) \in C
  <2> HIDE DEF Good, C
  <2> QED BY <1>3
<1> QED BY <1>1, <1>2, <1>4

\* The judge is somebody else who speaks, if there is one.
LEMMA JudgeIs ==
    ASSUME NEW V, NEW ss \in Seq(Seg(V)), Spoken(ss), NEW c
    PROVE  JudgeOf(ss, c) = NoSpeaker \/ JudgeOf(ss, c) \in Voices(ss) \ {c}
<1> DEFINE C == {s \in Voices(ss) \ {c} : JudgeVotes(ss, s) > 0}
           D == {s \in Voices(ss) \ {c} : TotalDur(ss, s) >= 1000}
           score(s) == (1000 * TotalDur(ss, s)) \div (1 + 5 * CounselVotes(ss, s))
           f == [s \in C |-> JudgeVotes(ss, s)]
           r == [s \in C |-> Min(Ruling(ss, s))]
           g == [s \in D |-> score(s)]
           h == [s \in D |-> Min(Speaking(ss, s))]
           Good(s) == \A t \in C : \/ JudgeVotes(ss, s) > JudgeVotes(ss, t)
                                   \/ /\ JudgeVotes(ss, s) = JudgeVotes(ss, t)
                                      /\ Min(Ruling(ss, s)) <= Min(Ruling(ss, t))
           Long(s) == \A t \in D : \/ score(s) > score(t)
                                   \/ /\ score(s) = score(t)
                                      /\ Min(Speaking(ss, s)) <= Min(Speaking(ss, t))
           All(s) == {i \in DOMAIN ss : ss[i].spk = s /\ TRUE}
           Longest(s) == \A t \in D : \/ score(s) > score(t)
                                      \/ score(s) = score(t) /\ Min(All(s)) <= Min(All(t))
<1>1. JudgeOf(ss, c) = IF C # {} THEN CHOOSE s \in C : Good(s)
                       ELSE IF D # {} THEN CHOOSE s \in D : Longest(s) ELSE NoSpeaker
  BY Zenon DEF JudgeOf, Leader, Heard, Ruling
<1>2. ASSUME C # {} PROVE \E s \in C : Good(s)
  <2>1. ASSUME NEW s \in C PROVE f[s] \in Int /\ r[s] \in Int
    <3>1. f[s] = JudgeVotes(ss, s) /\ r[s] = Min(Ruling(ss, s)) /\ JudgeVotes(ss, s) > 0
      OBVIOUS
    <3> HIDE DEF f, r, C
    <3>2. /\ JudgeVotes(ss, s) \in Nat
          /\ Ruling(ss, s) \in SUBSET (1 .. Len(ss)) /\ Ruling(ss, s) # {}
      BY <3>1, CountsAre
    <3>3. Min(Ruling(ss, s)) \in Ruling(ss, s) /\ Len(ss) \in Nat
      BY <3>2, MinUpTo, LenProperties
    <3>4. Min(Ruling(ss, s)) \in 1 .. Len(ss)
      BY <3>2, <3>3
    <3> QED BY <3>1, <3>2, <3>4
  <2>2. f \in [C -> Int] /\ r \in [C -> Int]
    <3>1. f = [s \in C |-> f[s]] /\ r = [s \in C |-> r[s]]
      OBVIOUS
    <3> HIDE DEF f, r, C
    <3> QED BY <2>1, <3>1
  <2>3. C \in SUBSET Voices(ss)
    OBVIOUS
  <2>4. \A s \in C : f[s] = JudgeVotes(ss, s) /\ r[s] = Min(Ruling(ss, s))
    OBVIOUS
  <2> HIDE DEF f, r, C
  <2>5. PICK s : IsBest(s, C, f, r)
    BY <1>2, <2>2, <2>3, BestVoice
  <2> QED BY <2>4, <2>5 DEF IsBest
<1>3. ASSUME D # {} PROVE \E s \in D : Long(s)
  <2>1. ASSUME NEW s \in D PROVE g[s] \in Int /\ h[s] \in Int
    <3>1. g[s] = score(s) /\ h[s] = Min(Speaking(ss, s)) /\ s \in Voices(ss)
      OBVIOUS
    <3>2. score(s) \in Int
      <4> DEFINE x == 1000 * TotalDur(ss, s)
                 y == 1 + 5 * CounselVotes(ss, s)
      <4>1. TotalDur(ss, s) \in Nat /\ CounselVotes(ss, s) \in Nat
        BY DurationIs, CountsAre
      <4>2. x \in Nat /\ y \in Nat \ {0}
        BY <4>1
      <4> HIDE DEF x, y
      <4>3. x \div y \in Int
        BY <4>2
      <4> QED BY <4>3 DEF x, y
    <3> HIDE DEF g, h, D, score
    <3>3. Speaking(ss, s) \in SUBSET (1 .. Len(ss)) /\ Speaking(ss, s) # {}
      BY <3>1, CountsAre
    <3>4. Min(Speaking(ss, s)) \in Speaking(ss, s) /\ Len(ss) \in Nat
      BY <3>3, MinUpTo, LenProperties
    <3>5. Min(Speaking(ss, s)) \in 1 .. Len(ss)
      BY <3>3, <3>4
    <3> QED BY <3>1, <3>2, <3>5
  <2>2. g \in [D -> Int] /\ h \in [D -> Int]
    <3>1. g = [s \in D |-> g[s]] /\ h = [s \in D |-> h[s]]
      OBVIOUS
    <3> HIDE DEF g, h, D
    <3> QED BY <2>1, <3>1
  <2>3. D \in SUBSET Voices(ss)
    OBVIOUS
  <2>4. \A s \in D : g[s] = score(s) /\ h[s] = Min(Speaking(ss, s))
    OBVIOUS
  <2> HIDE DEF g, h, D, score
  <2>5. PICK s : IsBest(s, D, g, h)
    BY <1>3, <2>2, <2>3, BestVoice
  <2> QED BY <2>4, <2>5 DEF IsBest
<1>4. C # {} => (CHOOSE s \in C : Good(s)) \in C
  <2> HIDE DEF Good, C
  <2> QED BY <1>2
<1>a. \A s : All(s) = Speaking(ss, s)
  BY DEF Speaking
<1>b. ASSUME NEW s, Long(s) PROVE Longest(s)
  <2> HIDE DEF All, score, D
  <2> QED BY <1>a, <1>b
<1>5. D # {} => (CHOOSE s \in D : Longest(s)) \in D
  <2> HIDE DEF Long, Longest, D
  <2> QED BY <1>3, <1>b
<1>6. C \subseteq Voices(ss) \ {c} /\ D \subseteq Voices(ss) \ {c}
  OBVIOUS
<1> HIDE DEF C, D, Good, Longest
<1> QED BY <1>1, <1>4, <1>5, <1>6

\* Counsel is one of V, and so is the judge, who is somebody else, if there is one.
RolesIn(rl, V) ==
    /\ rl.counsel \in V
    /\ rl.judge # NoSpeaker => rl.judge \in V /\ rl.judge # rl.counsel

\* Who is left of V when speakers without a role are pruned.
LeftOf(V, rl, lim) == IF lim = 2 /\ rl.judge # NoSpeaker THEN {rl.counsel, rl.judge} ELSE V

\* No third speaker among two.
LEMMA TwoOfTwo ==
    ASSUME NEW S, IsFiniteSet(S), Cardinality(S) <= 2, NEW c \in S, NEW j \in S, c # j, NEW s \in S
    PROVE  s \in {c, j}
<1> SUFFICES ASSUME s \notin {c, j} PROVE FALSE
  OBVIOUS
<1>1. IsFiniteSet({c, j}) /\ Cardinality({c, j}) = 2
  <2>1. IsFiniteSet({c}) /\ Cardinality({c}) = 1
    BY FS_Singleton
  <2>2. j \notin {c} /\ {c} \cup {j} = {c, j}
    OBVIOUS
  <2>3. IsFiniteSet({c} \cup {j}) /\ Cardinality({c} \cup {j}) = Cardinality({c}) + 1
    BY <2>1, <2>2, FS_AddElement
  <2> QED BY <2>1, <2>2, <2>3
<1>2. Cardinality({c, j} \cup {s}) = Cardinality({c, j}) + 1
  BY <1>1, FS_AddElement
<1>3. {c, j} \cup {s} \in SUBSET S
  OBVIOUS
<1>4. Cardinality({c, j} \cup {s}) <= Cardinality(S)
  BY <1>3, FS_Subset
<1>5. Cardinality(S) \in Nat
  BY FS_CardinalityType
<1> QED BY <1>1, <1>2, <1>4, <1>5

\* Roles are those of speakers.
LEMMA RolesAre ==
    ASSUME NEW V, NEW ss \in Seq(Seg(V)), Spoken(ss), ss # <<>>
    PROVE  RolesIn(RolesOf(ss), Voices(ss))
<1> DEFINE c == CounselOf(ss)
           j == JudgeOf(ss, c)
<1>1. c \in Voices(ss)
  BY CounselIs
<1>2. j = NoSpeaker \/ j \in Voices(ss) \ {c}
  BY JudgeIs
<1>3. RolesOf(ss) = [counsel |-> c, judge |-> j]
  BY Zenon DEF RolesOf
<1> HIDE DEF c, j
<1> QED BY <1>1, <1>2, <1>3 DEF RolesIn

\* A speaker of a segment keeps it or hands it to somebody who is left.
LEMMA RemapIs ==
    ASSUME NEW V, NEW ss \in Seq(Seg(V)), Spoken(ss), NEW rl, RolesIn(rl, Voices(ss)), NEW lim,
           NEW s \in Voices(ss)
    PROVE  cluster_remap(ss, s, rl, lim) \in LeftOf(V, rl, lim)
<1> DEFINE P == Phantom(ss, s, rl, lim)
           more == CounselVotes(ss, s) > JudgeVotes(ss, s)
           two == lim = 2 /\ rl.judge # NoSpeaker
<1>1. cluster_remap(ss, s, rl, lim)
      = IF ~ P THEN s ELSE IF more THEN rl.counsel ELSE IF rl.judge # NoSpeaker THEN rl.judge ELSE s
  BY Zenon DEF cluster_remap
<1>2. Voices(ss) \subseteq V /\ IsFiniteSet(Voices(ss))
  BY VoicesAre
<1>3. ASSUME two, ~ P PROVE s \in {rl.counsel, rl.judge}
  <2>1. s \in {rl.counsel, rl.judge} \/ ~ (Cardinality(Voices(ss)) > 2)
    BY <1>3 DEF Phantom
  <2>2. Cardinality(Voices(ss)) \in Nat
    BY <1>2, FS_CardinalityType
  <2>3. rl.counsel \in Voices(ss) /\ rl.judge \in Voices(ss) /\ rl.counsel # rl.judge
    BY <1>3 DEF RolesIn
  <2>4. CASE ~ (Cardinality(Voices(ss)) > 2)
    <3>1. Cardinality(Voices(ss)) <= 2
      BY <2>2, <2>4
    <3> QED BY <1>2, <2>3, <3>1, TwoOfTwo
  <2> QED BY <2>1, <2>4
<1>4. two => LeftOf(V, rl, lim) = {rl.counsel, rl.judge}
  BY DEF LeftOf
<1>5. ~ two => LeftOf(V, rl, lim) = V
  BY DEF LeftOf
<1>6. s \in V /\ rl.counsel \in V /\ (rl.judge # NoSpeaker => rl.judge \in V)
  BY <1>2 DEF RolesIn
<1>7. two => rl.judge # NoSpeaker
  OBVIOUS
<1> HIDE DEF P, more, two
<1>8. CASE two
  BY <1>1, <1>3, <1>4, <1>7, <1>8
<1>9. CASE ~ two
  BY <1>1, <1>5, <1>6, <1>9
<1> QED BY <1>8, <1>9

\* Pruning moves no word and leaves nobody but those of LeftOf.
LEMMA PruneIs ==
    ASSUME NEW V, NEW a \in Int, NEW z \in Int, NEW ss \in Segments(V, a, z), Spoken(ss), ss # <<>>,
           NEW rl, rl = RolesOf(ss), NEW lim
    PROVE  /\ Prune(ss, rl, lim) \in Segments(LeftOf(V, rl, lim), a, z) /\ Spoken(Prune(ss, rl, lim))
           /\ RolesIn(rl, LeftOf(V, rl, lim))
<1> DEFINE U == LeftOf(V, rl, lim)
           t == Prune(ss, rl, lim)
<1>1. ss \in Seq(Seg(V)) /\ DOMAIN ss = 1 .. Len(ss)
  BY SegmentsAre
<1>2. RolesIn(rl, Voices(ss)) /\ Voices(ss) \subseteq V
  BY <1>1, RolesAre, VoicesAre
<1>3. t = [i \in DOMAIN ss |-> MkSeg(ss[i].ws, cluster_remap(ss, ss[i].spk, rl, lim))]
  BY DEF Prune
<1>4. ASSUME NEW i \in DOMAIN ss PROVE \E spk \in U : t[i] = MkSeg(ss[i].ws, spk)
  <2> DEFINE s == ss[i].spk
             y == cluster_remap(ss, s, rl, lim)
  <2>1. s \in Voices(ss)
    BY <1>1, VoicesAre
  <2>2. y \in U
    <3> HIDE DEF s
    <3> QED BY <1>1, <1>2, <2>1, RemapIs
  <2>3. t[i] = MkSeg(ss[i].ws, y)
    BY <1>3
  <2> HIDE DEF U, y, t
  <2> QED BY <2>2, <2>3
<1>5. t = [i \in DOMAIN ss |-> t[i]]
  BY <1>3
<1>6. RolesIn(rl, U)
  BY <1>2 DEF RolesIn, LeftOf
<1> HIDE DEF t, U
<1>7. HandedOver(V, U, ss, t)
  BY <1>4, <1>5 DEF HandedOver
<1>8. t \in Segments(U, a, z) /\ Spoken(t)
  BY <1>7, HandedOverAre
<1> QED BY <1>6, <1>8 DEF t, U

\* Passes 1 and 1B hand over segments to counsel and to the judge.
LEMMA Pass1Is ==
    ASSUME NEW V, NEW a \in Int, NEW z \in Int, NEW ss \in Segments(V, a, z), Spoken(ss),
           NEW rl, RolesIn(rl, V)
    PROVE  Pass1(ss, rl) \in Segments(V, a, z) /\ Spoken(Pass1(ss, rl))
<1> DEFINE t == Pass1(ss, rl)
<1>1. t = [i \in DOMAIN ss |->
              IF ss[i].spk = rl.judge /\ Honorific(ss[i]) /\ ~ Inquiry(ss[i])
              THEN MkSeg(ss[i].ws, rl.counsel) ELSE ss[i]]
  BY Zenon DEF Pass1
<1>2. \A i \in DOMAIN ss : t[i] \in {MkSeg(ss[i].ws, rl.counsel), ss[i]}
  BY <1>1
<1>3. rl.counsel \in V
  BY DEF RolesIn
<1>4. t = [i \in DOMAIN ss |-> t[i]]
  BY <1>1
<1> HIDE DEF t
<1>5. HandedOver(V, V, ss, t)
  BY <1>2, <1>3, <1>4 DEF HandedOver
<1>6. t \in Segments(V, a, z) /\ Spoken(t)
  BY <1>5, HandedOverAre
<1> QED BY <1>6 DEF t

LEMMA Pass1BIs ==
    ASSUME NEW V, NEW a \in Int, NEW z \in Int, NEW ss \in Segments(V, a, z), Spoken(ss),
           NEW rl, RolesIn(rl, V)
    PROVE  Pass1B(ss, rl) \in Segments(V, a, z) /\ Spoken(Pass1B(ss, rl))
<1> DEFINE t == Pass1B(ss, rl)
<1>1. t = [i \in DOMAIN ss |->
              IF rl.judge # NoSpeaker /\ Directive(ss[i]) THEN MkSeg(ss[i].ws, rl.judge) ELSE ss[i]]
  BY Zenon DEF Pass1B
<1>2. \A i \in DOMAIN ss : t[i] = ss[i] \/ (rl.judge # NoSpeaker /\ t[i] = MkSeg(ss[i].ws, rl.judge))
  BY <1>1
<1>3. rl.judge # NoSpeaker => rl.judge \in V
  BY DEF RolesIn
<1>4. t = [i \in DOMAIN ss |-> t[i]]
  BY <1>1
<1> HIDE DEF t
<1>5. HandedOver(V, V, ss, t)
  BY <1>2, <1>3, <1>4 DEF HandedOver
<1>6. t \in Segments(V, a, z) /\ Spoken(t)
  BY <1>5, HandedOverAre
<1> QED BY <1>6 DEF t

\* Sequences of two and three by Append.
LEMMA PairIs ==
    ASSUME NEW S, NEW r \in S, NEW s \in S
    PROVE  Append(<<r>>, s) = <<r, s>>
<1>1. <<r>> \in Seq(S) /\ Len(<<r>>) = 1 /\ <<r>>[1] = r
  OBVIOUS
<1>2. <<r, s>> \in Seq(S) /\ Len(<<r, s>>) = 2 /\ <<r, s>>[1] = r /\ <<r, s>>[2] = s
  OBVIOUS
<1> DEFINE x == <<r>>
           y == <<r, s>>
<1> HIDE DEF x, y
<1>3. /\ Append(x, s) \in Seq(S) /\ Len(Append(x, s)) = 2
      /\ Append(x, s)[1] = r /\ Append(x, s)[2] = s
  BY <1>1, AppendProperties DEF x
<1>4. Append(x, s) = y
  <2>1. Len(Append(x, s)) = Len(y) /\ y \in Seq(S)
    BY <1>2, <1>3 DEF y
  <2>2. \A i \in 1 .. Len(y) : Append(x, s)[i] = y[i]
    BY <1>2, <1>3 DEF y
  <2> QED BY <1>3, <2>1, <2>2, SeqEqual
<1> QED BY <1>4 DEF x, y

LEMMA TripleIs ==
    ASSUME NEW S, NEW r \in S, NEW s \in S, NEW t \in S
    PROVE  Append(<<r, s>>, t) = <<r, s, t>>
<1>1. <<r, s>> \in Seq(S) /\ Len(<<r, s>>) = 2 /\ <<r, s>>[1] = r /\ <<r, s>>[2] = s
  OBVIOUS
<1>2. /\ <<r, s, t>> \in Seq(S) /\ Len(<<r, s, t>>) = 3
      /\ <<r, s, t>>[1] = r /\ <<r, s, t>>[2] = s /\ <<r, s, t>>[3] = t
  OBVIOUS
<1> DEFINE x == <<r, s>>
           y == <<r, s, t>>
<1> HIDE DEF x, y
<1>3. /\ Append(x, t) \in Seq(S) /\ Len(Append(x, t)) = 3
      /\ Append(x, t)[1] = r /\ Append(x, t)[2] = s /\ Append(x, t)[3] = t
  BY <1>1, AppendProperties DEF x
<1>4. Append(x, t) = y
  <2>1. Len(Append(x, t)) = Len(y) /\ y \in Seq(S)
    BY <1>2, <1>3 DEF y
  <2>2. \A i \in 1 .. Len(y) : Append(x, t)[i] = y[i]
    BY <1>2, <1>3 DEF y
  <2> QED BY <1>3, <2>1, <2>2, SeqEqual
<1> QED BY <1>4 DEF x, y

LEMMA MadeSeg ==
    ASSUME NEW V, NEW a \in Int, NEW z \in Int, NEW ws \in Stretch(V, a, z), ws # <<>>, NEW spk \in V
    PROVE  MkSeg(ws, spk) \in Seg(V) /\ MkSeg(ws, spk).ws \in Stretch(V, a, z) /\ MkSeg(ws, spk).ws # <<>>
<1> DEFINE x == MkSeg(ws, spk).ws
<1>1. MkSeg(ws, spk) \in Seg(V) /\ x \in Stretch(V, a, z)
  BY MkSegIs
<1> HIDE DEF x
<1>2. x # <<>>
  BY <1>1, StretchGrows
<1> QED BY <1>1, <1>2 DEF x

\* What has a length is not empty.
LEMMA LongerThanNone ==
    ASSUME NEW ws, Len(ws) >= 1
    PROVE  ws # <<>>
OBVIOUS

-----------------------------------------------------------------------------
(* Pass 1C                                                                 *)

\* Words of two or three speakers as segments.
LEMMA CutInTwo ==
    ASSUME NEW V, NEW a \in Int, NEW l \in Int, NEW z \in Int,
           NEW x \in Stretch(V, a, l), NEW y \in Stretch(V, l, z), x # <<>>, y # <<>>,
           NEW p \in V, NEW q \in V
    PROVE  /\ <<MkSeg(x, p), MkSeg(y, q)>> \in Segments(V, a, z)
           /\ Spoken(<<MkSeg(x, p), MkSeg(y, q)>>)
<1> DEFINE r == MkSeg(x, p)
           s == MkSeg(y, q)
<1>1. r \in Seg(V) /\ r.ws \in Stretch(V, a, l) /\ r.ws # <<>>
  BY MadeSeg
<1>2. s \in Seg(V) /\ s.ws \in Stretch(V, l, z) /\ s.ws # <<>>
  BY MadeSeg
<1> HIDE DEF r, s
<1>3. <<>> \in Segments(V, a, a)
  BY SegmentsNone
<1>4. Append(<<>>, r) \in Segments(V, a, l)
  BY <1>1, <1>3, SegmentsAppend
<1>5. Append(Append(<<>>, r), s) \in Segments(V, a, z)
  BY <1>2, <1>4, SegmentsAppend
<1>6. Append(Append(<<>>, r), s) = <<r, s>>
  <2>1. Append(<<>>, r) = <<r>>
    OBVIOUS
  <2>2. Append(<<r>>, s) = <<r, s>>
    BY <1>1, <1>2, PairIs
  <2> QED BY <2>1, <2>2
<1>7. Spoken(<<r, s>>)
  BY <1>1, <1>2 DEF Spoken
<1> QED BY <1>5, <1>6, <1>7 DEF r, s

LEMMA CutInThree ==
    ASSUME NEW V, NEW a \in Int, NEW l \in Int, NEW m \in Int, NEW z \in Int,
           NEW x \in Stretch(V, a, l), NEW y \in Stretch(V, l, m), NEW w \in Stretch(V, m, z),
           x # <<>>, y # <<>>, w # <<>>, NEW p \in V, NEW q \in V
    PROVE  /\ <<MkSeg(x, p), MkSeg(y, q), MkSeg(w, p)>> \in Segments(V, a, z)
           /\ Spoken(<<MkSeg(x, p), MkSeg(y, q), MkSeg(w, p)>>)
<1> DEFINE t == <<MkSeg(x, p), MkSeg(y, q)>>
           s == MkSeg(w, p)
<1>1. t \in Segments(V, a, m) /\ Spoken(t)
  BY CutInTwo
<1>2. s \in Seg(V) /\ s.ws \in Stretch(V, m, z) /\ s.ws # <<>>
  BY MadeSeg
<1>3. <<MkSeg(x, p), MkSeg(y, q), s>> = Append(t, s)
  <2>1. MkSeg(x, p) \in Seg(V) /\ MkSeg(y, q) \in Seg(V)
    BY MadeSeg
  <2> QED BY <1>2, <2>1, TripleIs
<1> HIDE DEF t, s
<1>4. Append(t, s) \in Segments(V, a, z)
  BY <1>1, <1>2, SegmentsAppend
<1>5. t \in Seq(Seg(V))
  BY <1>1, SegmentsAre
<1>6. Spoken(Append(t, s))
  BY <1>1, <1>2, <1>5, SpokenAppend
<1> QED BY <1>3, <1>4, <1>6 DEF s

LEMMA OneSegment ==
    ASSUME NEW V, NEW a \in Int, NEW z \in Int, NEW r \in Seg(V), r.ws \in Stretch(V, a, z), r.ws # <<>>
    PROVE  <<r>> \in Segments(V, a, z) /\ Spoken(<<r>>)
<1>1. <<>> \in Segments(V, a, a)
  BY SegmentsNone
<1>2. Append(<<>>, r) \in Segments(V, a, z)
  BY <1>1, SegmentsAppend
<1>3. Append(<<>>, r) = <<r>>
  OBVIOUS
<1>4. Spoken(<<r>>)
  BY DEF Spoken
<1> QED BY <1>2, <1>3, <1>4

\* The spans have words.
LEMMA SpansAre ==
    ASSUME NEW n \in DOMAIN EMBEDDED_COUNSEL_SPANS
    PROVE  /\ Len(EMBEDDED_COUNSEL_SPANS[n]) \in Nat \ {0}
           /\ EMBEDDED_COUNSEL_SPANS[n] = <<"yes", "my", "lord", "lord">> => Len(EMBEDDED_COUNSEL_SPANS[n]) = 4
<1>1. n \in 1 .. 11
  BY DEF EMBEDDED_COUNSEL_SPANS
<1> QED BY <1>1 DEF EMBEDDED_COUNSEL_SPANS

\* Four words written as three, the third for the last two.
LEMMA ThreeForFour ==
    ASSUME NEW V, NEW a \in Int, NEW z \in Int, NEW ws \in Stretch(V, a, z),
           NEW i \in 1 .. Len(ws), i + 3 <= Len(ws)
    PROVE  <<ws[i], ws[i + 1], [ws[i + 2] EXCEPT !.upto = ws[i + 3].upto]>> \o SubSeq(ws, i + 4, Len(ws))
           \in Stretch(V, Point(ws, a, i - 1), z)
<1> DEFINE n == Len(ws)
           w1 == ws[i]
           w2 == ws[i + 1]
           w3 == ws[i + 2]
           w4 == ws[i + 3]
           u == w4.upto
           x == [w3 EXCEPT !.upto = u]
           rest == SubSeq(ws, i + 4, n)
           b == Point(ws, a, i - 1)
           l == Point(ws, a, i + 3)
<1>1. /\ n \in Nat /\ \A m \in 1 .. n : ws[m] \in Word(V)
      /\ \A m \in 0 .. n : Point(ws, a, m) \in Int
      /\ Point(ws, a, n) = z
      /\ \A m \in 1 .. n : ws[m].from = Point(ws, a, m - 1) /\ ws[m].upto = Point(ws, a, m)
      /\ ws \in Seq(Word(V))
  <2>1. n \in Nat /\ ws \in Seq(Word(V)) /\ Point(ws, a, n) = z
    BY StretchIs
  <2>2. /\ \A m \in 1 .. n : ws[m] \in Word(V)
        /\ \A m \in 0 .. n : Point(ws, a, m) \in Int
    BY StretchIs
  <2>3. ASSUME NEW m \in 1 .. n PROVE ws[m].from = Point(ws, a, m - 1) /\ ws[m].upto = Point(ws, a, m)
    BY StretchIs
  <2> QED BY <2>1, <2>2, <2>3
<1>2. /\ i \in 1 .. n /\ i + 1 \in 1 .. n /\ i + 2 \in 1 .. n /\ i + 3 \in 1 .. n /\ i \in Int
      /\ (i + 1) - 1 = i /\ (i + 2) - 1 = i + 1 /\ (i + 3) - 1 = i + 2 /\ (i + 4) - 1 = i + 3
      /\ i - 1 \in 0 .. n /\ i + 3 \in 0 .. n /\ i + 4 \in 1 .. n + 1 /\ i + 4 <= n + 1
  BY <1>1
<1>3. w1 \in Word(V) /\ w2 \in Word(V) /\ w3 \in Word(V) /\ w4 \in Word(V)
  BY <1>1, <1>2
<1>4. /\ w1.from = b /\ w2.from = w1.upto /\ w3.from = w2.upto /\ w4.from = w3.upto
      /\ w4.upto = l /\ b \in Int /\ l \in Int
  BY <1>1, <1>2, SMTT(60)
<1>5. rest \in Stretch(V, l, z)
  BY <1>1, <1>2, StretchCut, SMTT(60)
<1> HIDE DEF w1, w2, w3, w4, rest, b, l
<1>6. x \in Word(V) /\ x.from = w3.from /\ x.upto = l
  <2>1. w4.from < w4.upto /\ w4.upto \in Nat /\ w3.from < w3.upto /\ w3.from \in Nat /\ w3.upto \in Nat
    BY <1>3, WordIs
  <2>2. w3.upto < u /\ u \in Nat /\ u = l
    BY <1>4, <2>1
  <2> HIDE DEF u
  <2>3. x \in WordFields(V) /\ x.from = w3.from /\ x.upto = u /\ x.tok = w3.tok
    BY <1>3, <2>2 DEF Word, WordFields
  <2>4. w3.tok = "copy" => w3.from + 1 < w3.upto
    BY <1>3 DEF Word, Sized
  <2> HIDE DEF x
  <2>5. x.from < x.upto /\ (x.tok = "copy" => x.from + 1 < x.upto)
    BY <2>1, <2>2, <2>3, <2>4
  <2> QED BY <2>2, <2>3, <2>5 DEF Word, Sized
<1> HIDE DEF x
<1>7. <<w1>> \in Stretch(V, b, w1.upto) /\ w1.upto \in Int
  BY <1>3, <1>4, StretchOne
<1>8. Append(<<w1>>, w2) \in Stretch(V, b, w2.upto) /\ w2.upto \in Int
  <2> DEFINE y == w1.upto
  <2>1. y \in Int /\ <<w1>> \in Stretch(V, b, y) /\ w2.from = y
    BY <1>4, <1>7
  <2> HIDE DEF y
  <2> QED BY <1>3, <1>4, <2>1, StretchAppend
<1>9. Append(Append(<<w1>>, w2), x) \in Stretch(V, b, l)
  <2> DEFINE y == w2.upto
             c == Append(<<w1>>, w2)
  <2>1. y \in Int /\ c \in Stretch(V, b, y) /\ x.from = y
    BY <1>4, <1>6, <1>8
  <2> HIDE DEF y, c
  <2>2. Append(c, x) \in Stretch(V, b, l)
    BY <1>4, <1>6, <2>1, StretchAppend
  <2> QED BY <2>2 DEF c
<1>10. Append(Append(<<w1>>, w2), x) = <<w1, w2, x>>
  <2>1. Append(<<w1>>, w2) = <<w1, w2>>
    BY <1>3, PairIs
  <2>2. Append(<<w1, w2>>, x) = <<w1, w2, x>>
    BY <1>3, <1>6, TripleIs
  <2> QED BY <2>1, <2>2
<1>11. <<w1, w2, x>> \in Stretch(V, b, l)
  BY <1>9, <1>10
<1> DEFINE y == <<w1, w2, x>>
<1> HIDE DEF y
<1>12. y \o rest \in Stretch(V, b, z)
  BY <1>4, <1>5, <1>11, StretchConcat DEF y
<1> QED BY <1>12 DEF y, x, w1, w2, w3, w4, u, rest, b, n

\* A segment cut at a span: two or three segments, of judge and counsel.
LEMMA SpanSplitIs ==
    ASSUME NEW V, NEW a \in Int, NEW z \in Int, NEW r \in Seg(V), r.ws \in Stretch(V, a, z),
           NEW rl, RolesIn(rl, V), rl.judge # NoSpeaker,
           NEW n \in DOMAIN EMBEDDED_COUNSEL_SPANS, NEW i \in 2 .. Len(r.ws),
           i + Len(EMBEDDED_COUNSEL_SPANS[n]) - 1 <= Len(r.ws), SpanSplit(r, rl, n, i) # <<>>
    PROVE  SpanSplit(r, rl, n, i) \in Segments(V, a, z) /\ Spoken(SpanSplit(r, rl, n, i))
<1> DEFINE p == EMBEDDED_COUNSEL_SPANS[n]
           ws == r.ws
           e == Len(ws)
           h == Len(p)
           j == i + h
           four == <<ws[i], ws[i + 1], [ws[i + 2] EXCEPT !.upto = ws[i + 3].upto]>> \o SubSeq(ws, j, e)
           rest == IF p = <<"yes", "my", "lord", "lord">> THEN four ELSE SubSeq(ws, i, e)
           lead == SubSeq(ws, 1, i - 1)
           said == SubSeq(ws, i, j - 1)
           after == SubSeq(ws, j, e)
           l == Point(ws, a, i - 1)
           m == Point(ws, a, j - 1)
           t == SpanSplit(r, rl, n, i)
<1>1. \/ t = <<>>
      \/ t = <<MkSeg(lead, rl.judge), MkSeg(rest, rl.counsel)>>
      \/ j <= e /\ t = <<MkSeg(lead, rl.judge), MkSeg(said, rl.counsel), MkSeg(after, rl.judge)>>
  BY Zenon DEF SpanSplit
<1>2. rl.judge \in V /\ rl.counsel \in V
  BY DEF RolesIn
<1>3. h \in Nat \ {0} /\ (p = <<"yes", "my", "lord", "lord">> => h = 4)
  BY SpansAre
<1>4. ws \in Stretch(V, a, z) /\ i \in 2 .. e /\ i + h - 1 <= e /\ t # <<>>
  OBVIOUS
<1>5. p = <<"yes", "my", "lord", "lord">>
      => rest = <<ws[i], ws[i + 1], [ws[i + 2] EXCEPT !.upto = ws[i + 3].upto]>> \o SubSeq(ws, j, e)
  OBVIOUS
<1>6. p # <<"yes", "my", "lord", "lord">> => rest = SubSeq(ws, i, e)
  OBVIOUS
<1> HIDE DEF t, rest, h, p, ws
<1>7. e \in Nat /\ Point(ws, a, e) = z /\ Point(ws, a, 0) = a
  BY <1>4, StretchIs
<1>8. /\ i \in 1 .. e + 1 /\ i - 1 \in 0 .. e /\ i <= e + 1 /\ 1 \in 1 .. e + 1 /\ 1 <= (i - 1) + 1
      /\ i - 1 >= 1 /\ e - i + 1 >= 1 /\ e \in 0 .. e
      /\ j - 1 \in 0 .. e /\ j \in 1 .. e + 1 /\ j <= e + 1 /\ i <= (j - 1) + 1 /\ (j - 1) - i + 1 >= 1
      /\ i \in 1 .. e /\ (j <= e => e - j + 1 >= 1) /\ 1 - 1 = 0 /\ (i - 1) - 1 + 1 >= 1
  BY <1>3, <1>4, <1>7
<1>9. /\ lead \in Stretch(V, a, l) /\ l \in Int /\ Len(lead) >= 1
  BY <1>4, <1>7, <1>8, StretchCut, SMTT(60)
<1>10. /\ SubSeq(ws, i, e) \in Stretch(V, l, z) /\ Len(SubSeq(ws, i, e)) >= 1
  BY <1>4, <1>7, <1>8, StretchCut, SMTT(60)
<1>11. /\ said \in Stretch(V, l, m) /\ m \in Int /\ Len(said) >= 1
  BY <1>4, <1>7, <1>8, StretchCut, SMTT(60)
<1>12. /\ after \in Stretch(V, m, z) /\ (j <= e => Len(after) >= 1)
  BY <1>4, <1>7, <1>8, StretchCut, SMTT(60)
<1>13. rest \in Stretch(V, l, z)
  <2>1. CASE p = <<"yes", "my", "lord", "lord">>
    <3>1. i + 3 <= e /\ j = i + 4
      BY <1>3, <1>4, <1>7, <2>1
    <3>2. rest = <<ws[i], ws[i + 1], [ws[i + 2] EXCEPT !.upto = ws[i + 3].upto]>> \o SubSeq(ws, i + 4, e)
      BY <1>5, <2>1, <3>1
    <3> HIDE DEF l
    <3>3. <<ws[i], ws[i + 1], [ws[i + 2] EXCEPT !.upto = ws[i + 3].upto]>> \o SubSeq(ws, i + 4, e)
          \in Stretch(V, Point(ws, a, i - 1), z)
      BY <1>4, <1>8, <3>1, ThreeForFour
    <3> QED BY <3>2, <3>3 DEF l
  <2>2. CASE p # <<"yes", "my", "lord", "lord">>
    BY <1>6, <1>10, <2>2
  <2> QED BY <2>1, <2>2
<1> DEFINE x == SubSeq(ws, i, e)
<1> HIDE DEF lead, said, after, l, m, j, e, x
<1>14. lead # <<>> /\ said # <<>> /\ (j <= e => after # <<>>) /\ x # <<>>
  <2>1. lead # <<>> /\ said # <<>>
    BY <1>9, <1>11, LongerThanNone
  <2>2. j <= e => after # <<>>
    BY <1>12, LongerThanNone
  <2>3. x # <<>>
    <3>1. Len(x) >= 1
      BY <1>10 DEF x
    <3> QED BY <3>1, LongerThanNone
  <2> QED BY <2>1, <2>2, <2>3
<1>15. rest # <<>>
  <2>1. l < z
    BY <1>9, <1>10, <1>14, StretchGrows DEF x
  <2> QED BY <1>9, <1>13, <2>1, StretchGrows
<1> DEFINE c == rl.counsel
           d == rl.judge
<1> HIDE DEF c, d
<1>16. /\ <<MkSeg(lead, d), MkSeg(rest, c)>> \in Segments(V, a, z)
       /\ Spoken(<<MkSeg(lead, d), MkSeg(rest, c)>>)
  BY <1>2, <1>9, <1>13, <1>14, <1>15, CutInTwo DEF c, d
<1>17. j <= e => /\ <<MkSeg(lead, d), MkSeg(said, c), MkSeg(after, d)>> \in Segments(V, a, z)
                 /\ Spoken(<<MkSeg(lead, d), MkSeg(said, c), MkSeg(after, d)>>)
  BY <1>2, <1>9, <1>11, <1>12, <1>14, CutInThree DEF c, d
<1> QED BY <1>1, <1>4, <1>16, <1>17 DEF t, c, d

\* So is every segment that pass 1C cuts.
LEMMA SplitEmbeddedIs ==
    ASSUME NEW V, NEW a \in Int, NEW z \in Int, NEW r \in Seg(V), r.ws \in Stretch(V, a, z), r.ws # <<>>,
           NEW rl, RolesIn(rl, V), rl.judge # NoSpeaker
    PROVE  SplitEmbedded(r, rl) \in Segments(V, a, z) /\ Spoken(SplitEmbedded(r, rl))
<1> DEFINE ws == r.ws
           e == Len(ws)
           Cuts(n) == {i \in 2 .. e : PhraseAt(ws, i, EMBEDDED_COUNSEL_SPANS[n])
                                      /\ SpanSplit(r, rl, n, i) # <<>>}
           usable == {n \in DOMAIN EMBEDDED_COUNSEL_SPANS : Cuts(n) # {}}
           sir == SirAt(r, rl)
           s == Min(sir)
           Three == <<MkSeg(SubSeq(ws, 1, s - 1), rl.judge), MkSeg(<<ws[s]>>, rl.counsel),
                      MkSeg(SubSeq(ws, s + 1, e), rl.judge)>>
           u == Min(usable)
           i == Min(Cuts(u))
           t == SplitEmbedded(r, rl)
<1>1. t = IF e < 4 THEN <<r>> ELSE IF sir # {} THEN Three ELSE IF usable = {} THEN <<r>>
          ELSE SpanSplit(r, rl, u, i)
  BY Zenon DEF SplitEmbedded
<1>2. e \in Nat /\ ws \in Stretch(V, a, z)
  BY StretchIs
<1>3. <<r>> \in Segments(V, a, z) /\ Spoken(<<r>>)
  BY OneSegment
<1>4. ASSUME sir # {} PROVE Three \in Segments(V, a, z) /\ Spoken(Three)
  <2>1. sir \in SUBSET (2 .. e - 1)
    BY DEF SirAt
  <2>2. s \in 2 .. e - 1
    <3> HIDE DEF sir, e
    <3>1. sir \in SUBSET (1 .. e)
      BY <1>2, <2>1
    <3> QED BY <1>2, <1>4, <2>1, <3>1, MinUpTo
  <2> HIDE DEF s, sir, e, ws
  <2> DEFINE l == Point(ws, a, s - 1)
             m == Point(ws, a, s)
             x == SubSeq(ws, 1, s - 1)
             y == <<ws[s]>>
             w == SubSeq(ws, s + 1, e)
  <2>3. /\ 1 \in 1 .. e + 1 /\ s - 1 \in 0 .. e /\ 1 <= (s - 1) + 1 /\ (s - 1) - 1 + 1 >= 1 /\ 1 - 1 = 0
        /\ s + 1 \in 1 .. e + 1 /\ e \in 0 .. e /\ s + 1 <= e + 1 /\ e - (s + 1) + 1 >= 1
        /\ (s + 1) - 1 = s /\ s \in 1 .. e
    BY <1>2, <2>2
  <2>4. /\ Point(ws, a, 0) = a /\ Point(ws, a, e) = z
        /\ ws[s] \in Word(V) /\ ws[s].from = l /\ ws[s].upto = m
    BY <1>2, <2>3, StretchIs DEF e
  <2>5. x \in Stretch(V, a, l) /\ l \in Int /\ Len(x) >= 1
    BY <1>2, <2>3, <2>4, StretchCut DEF e
  <2>6. w \in Stretch(V, m, z) /\ m \in Int /\ Len(w) >= 1
    <3> DEFINE nxt == s + 1
    <3>a. nxt \in 1 .. e + 1 /\ e \in 0 .. e /\ nxt <= e + 1
      BY <2>3
    <3> HIDE DEF nxt
    <3>b. /\ SubSeq(ws, nxt, e) \in Stretch(V, Point(ws, a, nxt - 1), Point(ws, a, e))
          /\ Len(SubSeq(ws, nxt, e)) = e - nxt + 1
      BY <1>2, <3>a, StretchCut DEF e
    <3>1. w \in Stretch(V, Point(ws, a, (s + 1) - 1), Point(ws, a, e)) /\ Len(w) = e - (s + 1) + 1
      BY <3>b DEF nxt
    <3>2. m \in Int
      BY <1>2, <2>3, StretchIs DEF e
    <3> QED BY <2>3, <2>4, <3>1, <3>2
  <2>7. y \in Stretch(V, l, m)
    BY <2>4, StretchOne
  <2>8. y # <<>>
    OBVIOUS
  <2> HIDE DEF x, y, w, l, m
  <2>9. x # <<>> /\ w # <<>>
    BY <2>5, <2>6, EmptySeq
  <2> DEFINE c == rl.counsel
             d == rl.judge
  <2>10. c \in V /\ d \in V
    BY DEF RolesIn
  <2> HIDE DEF c, d
  <2>11. /\ <<MkSeg(x, d), MkSeg(y, c), MkSeg(w, d)>> \in Segments(V, a, z)
         /\ Spoken(<<MkSeg(x, d), MkSeg(y, c), MkSeg(w, d)>>)
    BY <2>5, <2>6, <2>7, <2>8, <2>9, <2>10, CutInThree
  <2> QED BY <2>11 DEF x, y, w, c, d
<1>5. ASSUME usable # {}
      PROVE  SpanSplit(r, rl, u, i) \in Segments(V, a, z) /\ Spoken(SpanSplit(r, rl, u, i))
  <2>1. usable \in SUBSET (1 .. 11)
    BY DEF EMBEDDED_COUNSEL_SPANS
  <2>2. u \in usable
    <3> HIDE DEF usable
    <3>1. 11 \in Nat
      OBVIOUS
    <3> QED BY <1>5, <2>1, <3>1, MinUpTo
  <2>3. u \in DOMAIN EMBEDDED_COUNSEL_SPANS /\ Cuts(u) # {} /\ Cuts(u) \in SUBSET (2 .. e)
    <3> HIDE DEF u
    <3> QED BY <2>2
  <2>4. i \in Cuts(u)
    <3> DEFINE C == Cuts(u)
    <3>1. C \in SUBSET (1 .. e) /\ C # {}
      BY <1>2, <2>3
    <3> HIDE DEF C, e
    <3>2. Min(C) \in C
      BY <1>2, <3>1, MinUpTo
    <3> QED BY <3>2 DEF C
  <2> HIDE DEF u, i
  <2>5. /\ i \in 2 .. e /\ PhraseAt(ws, i, EMBEDDED_COUNSEL_SPANS[u])
        /\ SpanSplit(r, rl, u, i) # <<>>
    BY <2>4
  <2>6. i + Len(EMBEDDED_COUNSEL_SPANS[u]) - 1 <= e
    BY <2>5 DEF PhraseAt
  <2> QED BY <2>3, <2>5, <2>6, SpanSplitIs
<1> HIDE DEF t, sir, usable, Three, u, i, e
<1>6. t \in {<<r>>, Three, SpanSplit(r, rl, u, i)}
      /\ ((t = Three /\ sir # {}) \/ t = <<r>> \/ (usable # {} /\ t = SpanSplit(r, rl, u, i)))
  BY <1>1
<1>7. t \in Segments(V, a, z) /\ Spoken(t)
  BY <1>3, <1>4, <1>5, <1>6
<1> QED BY <1>7 DEF t

\* Segments exchanged for sequences of segments.
LEMMA SegmentsFlat ==
    ASSUME NEW V, NEW U, NEW a \in Int, NEW z \in Int, NEW ss \in Segments(V, a, z),
           NEW q \in Seq(Seq(Seg(U))), Len(q) = Len(ss),
           \A i \in 1 .. Len(ss) : /\ \A b, c \in Int : ss[i].ws \in Stretch(V, b, c) => q[i] \in Segments(U, b, c)
                                   /\ Spoken(q[i])
    PROVE  FlattenSeq(q) \in Segments(U, a, z) /\ Spoken(FlattenSeq(q))
<1> DEFINE n == Len(ss)
<1>1. n \in Nat /\ Len(q) = n
  BY SegmentsAre
<1>2. PICK p : Places(p, ss, V, a, z)
  BY SegmentsAre
<1>3. p[0] = a /\ p[n] = z /\ \A i \in 0 .. n : p[i] \in Int
  BY <1>2, PlacesAre
<1>4. ASSUME NEW i \in 1 .. n PROVE q[i] \in Segments(U, p[i - 1], p[i]) /\ Spoken(q[i])
  <2> DEFINE b == p[i - 1]
             c == p[i]
             x == ss[i].ws
  <2>1. i \in 0 .. n /\ i - 1 \in 0 .. n
    BY <1>1
  <2>2. b \in Int /\ c \in Int /\ x \in Stretch(V, b, c)
    BY <1>2, <2>1, PlacesAre
  <2>3. \A d, e \in Int : x \in Stretch(V, d, e) => q[i] \in Segments(U, d, e)
    OBVIOUS
  <2> HIDE DEF b, c, x
  <2>4. q[i] \in Segments(U, b, c)
    BY <2>2, <2>3
  <2> QED BY <2>4 DEF b, c
<1>5. PICK g \in [0 .. Len(q) -> Seq(Seg(U))] : Sums(g, q)
  BY SumsExist
<1>6. FlattenSeq(q) = g[Len(q)]
  BY <1>5, FlattenIs
<1>7. g[0] = <<>> /\ \A i \in 1 .. n : g[i] = g[i - 1] \o q[i]
  BY <1>1, <1>5 DEF Sums
<1> HIDE DEF n
<1> DEFINE S == {m \in 0 .. n : g[m] \in Segments(U, a, p[m]) /\ Spoken(g[m])}
<1>8. 0 \in S
  <2>1. <<>> \in Segments(U, a, a) /\ Spoken(<<>>)
    BY SegmentsNone DEF Spoken
  <2> QED BY <1>1, <1>3, <1>7, <2>1
<1>9. ASSUME NEW m \in 0 .. n - 1, m \in S PROVE m + 1 \in S
  <2> DEFINE i == m + 1
             x == g[m]
             y == q[i]
             b == p[m]
             c == p[i]
  <2>1. i \in 1 .. n /\ i \in 0 .. n /\ i - 1 = m /\ m \in 0 .. n
    BY <1>1
  <2>2. g[i] = x \o y /\ b \in Int /\ c \in Int
    BY <1>3, <1>7, <2>1
  <2>3. x \in Segments(U, a, b) /\ Spoken(x)
    BY <1>9
  <2>4. y \in Segments(U, b, c) /\ Spoken(y)
    BY <1>4, <2>1
  <2> HIDE DEF x, y, b, c
  <2>5. x \o y \in Segments(U, a, c)
    BY <2>2, <2>3, <2>4, SegmentsConcat
  <2>6. x \in Seq(Seg(U)) /\ y \in Seq(Seg(U))
    BY <2>2, <2>3, <2>4, SegmentsAre
  <2>7. Spoken(x \o y)
    BY <2>3, <2>4, <2>6, SpokenConcat
  <2>8. g[i] \in Segments(U, a, c) /\ Spoken(g[i])
    BY <2>2, <2>5, <2>7
  <2> QED BY <2>1, <2>8 DEF c
<1>10. n \in S
  <2> HIDE DEF S
  <2>1. 0 .. n \subseteq S
    BY <1>1, <1>8, <1>9, InductionUpTo
  <2> QED BY <1>1, <2>1
<1> QED BY <1>1, <1>3, <1>6, <1>10

\* Pass 1C keeps all words in their order.
LEMMA Pass1CIs ==
    ASSUME NEW V, NEW a \in Int, NEW z \in Int, NEW ss \in Segments(V, a, z), Spoken(ss),
           NEW rl, RolesIn(rl, V), rl.judge # NoSpeaker
    PROVE  Pass1C(ss, rl) \in Segments(V, a, z) /\ Spoken(Pass1C(ss, rl))
<1> DEFINE q == [i \in DOMAIN ss |-> SplitEmbedded(ss[i], rl)]
           n == Len(ss)
<1>1. n \in Nat /\ DOMAIN ss = 1 .. n /\ \A i \in 1 .. n : ss[i] \in Seg(V) /\ ss[i].ws # <<>>
  BY SegmentsAre DEF Spoken
<1>2. PICK p : Places(p, ss, V, a, z)
  BY SegmentsAre
<1>3. ASSUME NEW i \in 1 .. n
      PROVE  /\ \A b, c \in Int : ss[i].ws \in Stretch(V, b, c) => q[i] \in Segments(V, b, c)
             /\ Spoken(q[i]) /\ q[i] \in Seq(Seg(V))
  <2> DEFINE r == ss[i]
             b == p[i - 1]
             c == p[i]
  <2>1. i \in 0 .. n /\ i - 1 \in 0 .. n
    BY <1>1
  <2>2. r \in Seg(V) /\ r.ws # <<>> /\ b \in Int /\ c \in Int /\ r.ws \in Stretch(V, b, c)
    BY <1>1, <1>2, <2>1, PlacesAre
  <2>3. q[i] = SplitEmbedded(r, rl)
    BY <1>1
  <2> HIDE DEF r, b, c, q
  <2>4. ASSUME NEW d \in Int, NEW e \in Int, r.ws \in Stretch(V, d, e)
        PROVE  SplitEmbedded(r, rl) \in Segments(V, d, e) /\ Spoken(SplitEmbedded(r, rl))
    BY <2>2, <2>4, SplitEmbeddedIs
  <2> DEFINE y == SplitEmbedded(r, rl)
  <2>5. y \in Segments(V, b, c) /\ Spoken(y)
    BY <2>2, <2>4
  <2> HIDE DEF y
  <2>6. y \in Seq(Seg(V))
    BY <2>2, <2>5, SegmentsAre
  <2> QED BY <2>3, <2>4, <2>5, <2>6 DEF r, y
<1>4. q = [i \in 1 .. n |-> q[i]] /\ Pass1C(ss, rl) = FlattenSeq(q)
  BY <1>1 DEF Pass1C
<1> HIDE DEF q
<1>5. q \in [1 .. n -> Seq(Seg(V))]
  BY <1>3, <1>4
<1>6. q \in Seq(Seq(Seg(V))) /\ Len(q) = n
  BY <1>1, <1>5, MappingIsSeq
<1>7. FlattenSeq(q) \in Segments(V, a, z) /\ Spoken(FlattenSeq(q))
  BY <1>3, <1>6, SegmentsFlat
<1> QED BY <1>4, <1>7

-----------------------------------------------------------------------------
(* Pass 1E                                                                 *)

\* Two segments side by side, of words that stand for what was said from x to z.
Boundary(V, x, z) ==
    {b \in [prev : Seg(V), curr : Seg(V)] :
        \E m \in Int : b.prev.ws \in Stretch(V, x, m) /\ b.curr.ws \in Stretch(V, m, z)}

LEMMA BoundaryIs ==
    ASSUME NEW V, NEW x \in Int, NEW z \in Int, NEW b \in Boundary(V, x, z)
    PROVE  /\ b.prev \in Seg(V) /\ b.curr \in Seg(V) /\ b = [prev |-> b.prev, curr |-> b.curr]
           /\ b.prev.spk \in V /\ b.curr.spk \in V
           /\ \E m \in Int : b.prev.ws \in Stretch(V, x, m) /\ b.curr.ws \in Stretch(V, m, z)
BY DEF Boundary, Seg

LEMMA BoundaryMade ==
    ASSUME NEW V, NEW x \in Int, NEW m \in Int, NEW z \in Int, NEW p \in Stretch(V, x, m),
           NEW c \in Stretch(V, m, z), NEW s \in V, NEW t \in V
    PROVE  [prev |-> MkSeg(p, s), curr |-> MkSeg(c, t)] \in Boundary(V, x, z)
<1> DEFINE u == MkSeg(p, s)
           v == MkSeg(c, t)
<1>1. u \in Seg(V) /\ u.ws \in Stretch(V, x, m)
  BY MkSegIs
<1>2. v \in Seg(V) /\ v.ws \in Stretch(V, m, z)
  BY MkSegIs
<1> HIDE DEF u, v
<1>3. [prev |-> u, curr |-> v] \in Boundary(V, x, z)
  BY <1>1, <1>2 DEF Boundary
<1> QED BY <1>3 DEF u, v

\* The first word of curr, or a word that stands for the same, goes to prev.
LEMMA PullIs ==
    ASSUME NEW V, NEW x \in Int, NEW z \in Int, NEW b \in Boundary(V, x, z), b.curr.ws # <<>>,
           NEW w \in Word(V), w.from = b.curr.ws[1].from, w.upto = b.curr.ws[1].upto
    PROVE  Pull(b, w) \in Boundary(V, x, z)
<1> DEFINE p == b.prev.ws
           c == b.curr.ws
           s == b.prev.spk
           t == b.curr.spk
<1>1. PICK m \in Int : p \in Stretch(V, x, m) /\ c \in Stretch(V, m, z)
  BY BoundaryIs
<1>2. b.prev \in Seg(V) /\ b.curr \in Seg(V) /\ s \in V /\ t \in V
  BY BoundaryIs
<1>3. Pull(b, w) = [prev |-> MkSeg(Append(p, w), s), curr |-> MkSeg(Tail(c), t)]
  <2>1. /\ [b.prev EXCEPT !.ws = Append(@, w)].ws = Append(p, w)
        /\ [b.prev EXCEPT !.ws = Append(@, w)].spk = s
        /\ [b.curr EXCEPT !.ws = Tail(@)].ws = Tail(c)
        /\ [b.curr EXCEPT !.ws = Tail(@)].spk = t
    BY <1>2 DEF Seg
  <2> HIDE DEF p, c, s, t
  <2> QED BY <2>1 DEF Pull, rebuild_seg, p, c, s, t
<1>4. c # <<>> /\ w.from = c[1].from /\ w.upto = c[1].upto
  OBVIOUS
<1> HIDE DEF p, c, s, t
<1>5. c[1].from = m /\ c[1].upto \in Int /\ Tail(c) \in Stretch(V, c[1].upto, z)
  BY <1>1, <1>4, StretchTail
<1> DEFINE l == w.upto
<1>6. Append(p, w) \in Stretch(V, x, l) /\ l \in Int
  BY <1>1, <1>4, <1>5, StretchAppend
<1>7. Tail(c) \in Stretch(V, l, z)
  BY <1>4, <1>5
<1> HIDE DEF l
<1> DEFINE u == Append(p, w)
           v == Tail(c)
<1> HIDE DEF u, v
<1>8. [prev |-> MkSeg(u, s), curr |-> MkSeg(v, t)] \in Boundary(V, x, z)
  BY <1>2, <1>6, <1>7, BoundaryMade DEF u, v
<1> QED BY <1>3, <1>8 DEF u, v

\* Step 0.
LEMMA HealHonorificIs ==
    ASSUME NEW V, NEW x \in Int, NEW z \in Int, NEW b \in Boundary(V, x, z),
           b.prev.ws # <<>>, b.curr.ws # <<>>
    PROVE  HealHonorific(b) \in Boundary(V, x, z)
<1> DEFINE p == b.prev.ws
           n == Len(p)
           c == b.curr.ws
           w == c[1]
           cut == Last(p).tok \in {"my", "your"} /\ w.tok \in {"lord", "lordship"}
           d == [b EXCEPT !.prev.ws[n].mark = "", !.prev.ws[n].cap = TRUE]
           v == IF w.tok = "lord" /\ ~ EndsSentence(w) THEN [w EXCEPT !.mark = ".", !.cap = TRUE] ELSE w
<1>1. HealHonorific(b) = IF cut THEN Pull(d, v) ELSE b
  BY Zenon DEF HealHonorific
<1>2. PICK m \in Int : p \in Stretch(V, x, m) /\ c \in Stretch(V, m, z)
  BY BoundaryIs
<1>3. b.prev \in Seg(V) /\ b.curr \in Seg(V) /\ b = [prev |-> b.prev, curr |-> b.curr]
  BY BoundaryIs
<1>4. b.prev = [spk |-> b.prev.spk, ws |-> p] /\ b.prev.spk \in V
  BY <1>3, SegIs
<1>5. w \in Word(V)
  BY <1>2, StretchTail
<1>6. v \in Word(V) /\ v.from = w.from /\ v.upto = w.upto
  <2> DEFINE y == [w EXCEPT !.mark = ".", !.cap = TRUE]
  <2> HIDE DEF w
  <2>1. /\ y \in WordFields(V) /\ y.from = w.from /\ y.upto = w.upto /\ y.tok = w.tok
    BY <1>5 DEF Word, WordFields, Marks
  <2>2. y \in Word(V)
    <3> HIDE DEF y
    <3> QED BY <1>5, <2>1, WordChanged
  <2> HIDE DEF y
  <2>3. v = y \/ v = w
    BY DEF y
  <2> HIDE DEF v
  <2> QED BY <1>5, <2>1, <2>2, <2>3
<1> DEFINE g == p[n]
           y == [g EXCEPT !.mark = "", !.cap = TRUE]
           q == [p EXCEPT ![n] = y]
<1>7. n \in 1 .. n /\ n \in Nat /\ g \in Word(V) /\ p \in Seq(Word(V))
  <2>1. p \in Seq(Word(V)) /\ n \in Nat /\ p # <<>>
    BY <1>2, StretchIs
  <2>2. n \in 1 .. n
    BY <2>1, EmptySeq
  <2> QED BY <2>1, <2>2, ElementOfSeq
<1>8. d.prev.ws = q /\ d.prev.spk = b.prev.spk /\ d.curr = b.curr /\ d = [prev |-> [spk |-> b.prev.spk, ws |-> q], curr |-> b.curr]
  <2> DEFINE h == b.prev.spk
             cur == b.curr
  <2>1. b = [prev |-> [spk |-> h, ws |-> p], curr |-> cur]
    BY <1>3, <1>4
  <2> HIDE DEF h, cur, p, n
  <2>2. n \in DOMAIN p
    BY <1>7 DEF n
  <2>3. p = [j \in DOMAIN p |-> p[j]]
    BY <1>7
  <2> DEFINE f == [p EXCEPT ![n].mark = "", ![n].cap = TRUE]
  <2>4. f = q
    BY <2>2, <2>3
  <2>11. \A B, P, C, F : B = [prev |-> P, curr |-> C] =>
            /\ B.prev = P
            /\ [B EXCEPT !.prev = F] = [prev |-> F, curr |-> C]
    OBVIOUS
  <2>12. \A P, S, W, F : P = [spk |-> S, ws |-> W] =>
            /\ P.ws = W
            /\ [P EXCEPT !.ws = F] = [spk |-> S, ws |-> F]
    OBVIOUS
  <2> DEFINE e == [b EXCEPT !.prev.ws[n].mark = ""]
             g1 == b.prev
             f1 == [p EXCEPT ![n].mark = ""]
  <2>7. d = [e EXCEPT !.prev.ws[n].cap = TRUE]
    OBVIOUS
  <2>8. f = [f1 EXCEPT ![n].cap = TRUE]
    OBVIOUS
  <2>13. b.prev = [spk |-> h, ws |-> p]
    BY <2>1
  <2>14. e = [b EXCEPT !.prev = [b.prev EXCEPT !.ws = [b.prev.ws EXCEPT ![n].mark = ""]]]
    OBVIOUS
  <2>9. e = [prev |-> [spk |-> h, ws |-> f1], curr |-> cur]
    <3>1. b.prev.ws = p
      BY <2>13
    <3>2. [b.prev.ws EXCEPT ![n].mark = ""] = f1
      BY <3>1
    <3> DEFINE B == b.prev
               F == [B.ws EXCEPT ![n].mark = ""]
    <3>3. F = f1 /\ B = [spk |-> h, ws |-> p]
      BY <2>13, <3>2
    <3>4. e = [b EXCEPT !.prev = [B EXCEPT !.ws = F]]
      BY <2>14
    <3> HIDE DEF e, F, f1, B
    <3>5. [B EXCEPT !.ws = f1] = [spk |-> h, ws |-> f1]
      BY <2>12, <3>3
    <3> DEFINE G == [spk |-> h, ws |-> p]
               H == [spk |-> h, ws |-> f1]
    <3>6. e = [b EXCEPT !.prev = H]
      BY <3>3, <3>4, <3>5
    <3>7. b = [prev |-> G, curr |-> cur]
      BY <2>1
    <3> HIDE DEF G, H
    <3>8. [b EXCEPT !.prev = H] = [prev |-> H, curr |-> cur]
      BY <2>11, <3>7
    <3> QED BY <3>6, <3>8 DEF H
  <2> HIDE DEF f1, e
  <2>10. [e EXCEPT !.prev.ws[n].cap = TRUE] = [prev |-> [spk |-> h, ws |-> [f1 EXCEPT ![n].cap = TRUE]], curr |-> cur]
    <3> DEFINE P == [spk |-> h, ws |-> f1]
               F == [f1 EXCEPT ![n].cap = TRUE]
               H == [spk |-> h, ws |-> F]
               E1 == [e EXCEPT !.prev.ws[n].cap = TRUE]
    <3>1. E1 = [e EXCEPT !.prev = [e.prev EXCEPT !.ws = [e.prev.ws EXCEPT ![n].cap = TRUE]]]
      OBVIOUS
    <3>2. e = [prev |-> P, curr |-> cur]
      BY <2>9
    <3> HIDE DEF P, E1
    <3>3. e.prev = P
      BY <3>2
    <3>4. P.ws = f1 /\ [P EXCEPT !.ws = F] = H
      <4> HIDE DEF F
      <4>1. P = [spk |-> h, ws |-> f1]
        BY DEF P
      <4> QED BY <2>12, <4>1
    <3>5. [e.prev EXCEPT !.ws = [e.prev.ws EXCEPT ![n].cap = TRUE]] = [P EXCEPT !.ws = F]
      BY <3>3, <3>4
    <3> HIDE DEF H, F
    <3>6. E1 = [e EXCEPT !.prev = H]
      BY <3>1, <3>4, <3>5
    <3>7. [e EXCEPT !.prev = H] = [prev |-> H, curr |-> cur]
      BY <2>11, <3>2
    <3> QED BY <3>6, <3>7 DEF E1, H, F
  <2> HIDE DEF d, f
  <2>5. d = [prev |-> [spk |-> h, ws |-> f], curr |-> cur]
    BY <2>7, <2>8, <2>10
  <2>6. d = [prev |-> [spk |-> h, ws |-> q], curr |-> cur]
    BY <2>4, <2>5
  <2> HIDE DEF d, q
  <2> QED BY <2>6 DEF h, cur
<1> HIDE DEF d, v, cut
<1>9. y \in Word(V) /\ y.from = g.from /\ y.upto = g.upto
  <2> HIDE DEF g
  <2>1. /\ y \in WordFields(V) /\ y.from = g.from /\ y.upto = g.upto /\ y.tok = g.tok
    BY <1>7 DEF Word, WordFields, Marks
  <2> HIDE DEF y
  <2> QED BY <1>7, <2>1, WordChanged
<1>10. q \in Stretch(V, x, m)
  <2> HIDE DEF y, p
  <2>1. q \in Seq(Word(V)) /\ Len(q) = n /\ \A j \in 1 .. n : q[j] = IF j = n THEN y ELSE p[j]
    BY <1>7, <1>9, ExceptSeq
  <2>2. \A j \in 1 .. n : q[j].from = p[j].from /\ q[j].upto = p[j].upto
    BY <1>9, <2>1
  <2>3. q \in [1 .. n -> Word(V)]
    BY <2>1
  <2> HIDE DEF q, n
  <2> QED BY <1>2, <2>2, <2>3, StretchLike DEF n
<1>11. d \in Boundary(V, x, z)
  <2> DEFINE h == b.prev.spk
             cur == b.curr
             f == [spk |-> h, ws |-> q]
  <2> HIDE DEF q
  <2>1. q \in Seq(Word(V)) /\ \A j \in 1 .. Len(q) : q[j] \in Word(V)
    BY <1>10, StretchIs
  <2>2. h \in V /\ cur \in Seg(V) /\ cur.ws \in Stretch(V, m, z)
    BY <1>2, <1>3, <1>4
  <2> HIDE DEF h, cur, q
  <2>3. f \in Seg(V) /\ f.ws = q
    BY <2>1, <2>2 DEF Seg
  <2> HIDE DEF f
  <2>4. [prev |-> f, curr |-> cur] \in Boundary(V, x, z)
    BY <1>10, <2>2, <2>3 DEF Boundary
  <2> QED BY <1>8, <2>4 DEF f, h, cur
<1>12. d.curr.ws = c
  BY <1>8
<1> HIDE DEF c, p, w
<1>13. Pull(d, v) \in Boundary(V, x, z)
  BY <1>6, <1>11, <1>12, PullIs DEF w, c
<1> QED BY <1>1, <1>13

\* Step 1.
LEMMA HealPrepositionIs ==
    ASSUME NEW V, NEW x \in Int, NEW z \in Int, NEW b \in Boundary(V, x, z)
    PROVE  HealPreposition(b) \in Boundary(V, x, z)
<1> DEFINE w == b.curr.ws[1]
<1>1. HealPreposition(b) = b \/ (b.curr.ws # <<>> /\ HealPreposition(b) = Pull(b, w))
  BY Zenon DEF HealPreposition, Open
<1>2. ASSUME b.curr.ws # <<>> PROVE Pull(b, w) \in Boundary(V, x, z)
  <2> DEFINE c == b.curr.ws
  <2>1. PICK m \in Int : c \in Stretch(V, m, z)
    BY BoundaryIs
  <2> HIDE DEF c
  <2>2. c[1] \in Word(V)
    BY <1>2, <2>1, StretchTail DEF c
  <2>3. w \in Word(V) /\ w.from = b.curr.ws[1].from /\ w.upto = b.curr.ws[1].upto
    BY <2>2 DEF c
  <2> HIDE DEF w
  <2> QED BY <1>2, <2>3, PullIs
<1> QED BY <1>1, <1>2

LEMMA MinPair ==
    ASSUME NEW a \in Int, NEW b \in Int
    PROVE  Min({a, b}) \in {a, b} /\ Min({a, b}) <= a /\ Min({a, b}) <= b
<1> DEFINE P(m) == \A y \in {a, b} : m <= y
<1>1. \E m \in {a, b} : P(m)
  <2>1. CASE a <= b
    BY <2>1
  <2>2. CASE b <= a
    BY <2>2
  <2> QED BY <2>1, <2>2
<1>2. Min({a, b}) = CHOOSE m \in {a, b} : P(m)
  BY DEF Min
<1> HIDE DEF P
<1>3. Min({a, b}) \in {a, b} /\ P(Min({a, b}))
  BY <1>1, <1>2
<1> QED BY <1>3 DEF P

\* Step 2.
LEMMA HealBleedIs ==
    ASSUME NEW V, NEW x \in Int, NEW z \in Int, NEW b \in Boundary(V, x, z), NEW rl
    PROVE  HealBleed(b, rl) \in Boundary(V, x, z)
<1> DEFINE p == b.prev.ws
           c == b.curr.ws
           n == Len(p)
           Trail(cut) == SubSeq(p, n - cut + 1, n)
           cuts == {cut \in 1 .. Min({7, n - 1}) :
                       Severed(b, Toks(Trail(cut)), rl) \/ OnsetBleed(b, cut, rl)}
           len == Max(cuts)
           s == b.prev.spk
           t == b.curr.spk
<1>1. HealBleed(b, rl) = IF ~ Open(b) \/ cuts = {} THEN b
                         ELSE [prev |-> MkSeg(SubSeq(p, 1, n - len), s), curr |-> MkSeg(Trail(len) \o c, t)]
  BY Zenon DEF HealBleed
<1>2. PICK m \in Int : p \in Stretch(V, x, m) /\ c \in Stretch(V, m, z)
  BY BoundaryIs
<1>3. s \in V /\ t \in V
  BY BoundaryIs
<1>4. n \in Nat
  BY <1>2, StretchIs
<1>5. ASSUME cuts # {} PROVE len \in 1 .. n - 1
  <2>1. cuts \in SUBSET (1 .. Min({7, n - 1}))
    OBVIOUS
  <2> HIDE DEF cuts, n
  <2>2. 7 \in Int /\ n - 1 \in Int
    BY <1>4
  <2>3. Min({7, n - 1}) \in {7, n - 1} /\ Min({7, n - 1}) <= n - 1
    BY <2>2, MinPair
  <2>4. n >= 1
    <3> DEFINE o == Min({7, n - 1})
    <3>1. o \in Int /\ o <= n - 1 /\ cuts \in SUBSET (1 .. o)
      BY <2>1, <2>2, <2>3
    <3> HIDE DEF o
    <3>2. PICK y : y \in cuts
      BY <1>5
    <3>3. y \in 1 .. o
      BY <3>1, <3>2
    <3> QED BY <1>4, <3>1, <3>3
  <2>5. cuts \in SUBSET (1 .. n - 1) /\ n - 1 \in Nat
    BY <1>4, <2>1, <2>2, <2>3, <2>4
  <2>6. len \in cuts
    BY <1>5, <2>5, MaxUpTo
  <2> QED BY <2>5, <2>6
<1>6. b \in Boundary(V, x, z)
  OBVIOUS
<1> HIDE DEF len, cuts, s, t, p, c
<1>7. ASSUME len \in 1 .. n - 1
      PROVE  [prev |-> MkSeg(SubSeq(p, 1, n - len), s), curr |-> MkSeg(Trail(len) \o c, t)] \in Boundary(V, x, z)
  <2> DEFINE i == n - len
             u == SubSeq(p, 1, i)
             v == SubSeq(p, i + 1, n)
  <2>1. i \in 0 .. Len(p) /\ n - len + 1 = i + 1
    BY <1>4, <1>7
  <2> HIDE DEF i
  <2>2. PICK l \in Int : u \in Stretch(V, x, l) /\ v \in Stretch(V, l, m)
    BY <1>2, <2>1, TwoParts
  <2>3. Trail(len) = v
    BY <2>1 DEF i
  <2> HIDE DEF u, v
  <2>4. v \o c \in Stretch(V, l, z)
    BY <1>2, <2>2, StretchConcat
  <2> DEFINE o == v \o c
  <2> HIDE DEF o
  <2>5. [prev |-> MkSeg(u, s), curr |-> MkSeg(o, t)] \in Boundary(V, x, z)
    BY <1>3, <2>2, <2>4, BoundaryMade DEF o
  <2> HIDE DEF n
  <2> QED BY <2>3, <2>5 DEF o, u, i
<1> QED BY <1>1, <1>5, <1>6, <1>7
Healing(h, ss, rl) ==
    LET q == [i \in DOMAIN ss |-> i]
    IN  h = [s \in SUBSET DOMAIN q |->
                IF s = {} THEN ss ELSE HealAt(h[s \ {Max(s)}], q[Max(s)], rl)]

\* HealAt stays in T.
HealStays(T, ss, rl) == \A x \in T : \A i \in 1 .. Len(ss) : HealAt(x, i, rl) \in T

\* The same for HealAt.
LEMMA HealFold ==
    ASSUME NEW ss, NEW U, ss \in Seq(U), NEW rl,
           NEW T, ss \in T, HealStays(T, ss, rl)
    PROVE  \E g \in [0 .. Len(ss) -> T] :
               /\ g[0] = ss /\ g[Len(ss)] = HealBoundaries(ss, rl)
               /\ \A m \in 1 .. Len(ss) : g[m] = HealAt(g[m - 1], m, rl)
<1> DEFINE q == [i \in DOMAIN ss |-> i]
           n == Len(ss)
           b == ss
           step == [p \in T \X (1 .. n) |-> HealAt(p[1], q[p[2]], rl)]
           f == CHOOSE h : Healing(h, ss, rl)
<1>1. HealBoundaries(ss, rl) = f[DOMAIN q]
  BY Zenon DEF HealBoundaries, FoldLeftDomain, FoldLeft, MapThenFoldSet, Healing
<1>2. n \in Nat /\ DOMAIN q = 1 .. n /\ \A i \in 1 .. n : q[i] = i
  BY LenProperties
<1> HIDE DEF n, q, b
<1>3. step \in [T \X (1 .. n) -> T] /\ b \in T
  <2>1. \A x \in T : \A i \in 1 .. n : HealAt(x, q[i], rl) \in T
    BY <1>2 DEF n, HealStays
  <2> QED BY <2>1 DEF b
<1>4. \A x \in T : \A i \in 1 .. n : step[<<x, i>>] = HealAt(x, q[i], rl)
  OBVIOUS
<1> HIDE DEF step
<1>5. \A s \in SUBSET (1 .. n) : s # {} => Max(s) \in 1 .. n /\ s \ {Max(s)} \in SUBSET (1 .. n)
  BY <1>2, MaxUpTo
<1>6. \E h : Healing(h, ss, rl)
  <2>1. PICK h \in [SUBSET (1 .. n) -> T] : IsFold(h, n, b, step)
    BY <1>2, <1>3, FoldExists
  <2>2. ASSUME NEW s \in SUBSET (1 .. n), s # {}
        PROVE  h[s] = HealAt(h[s \ {Max(s)}], q[Max(s)], rl)
    <3>1. h[s \ {Max(s)}] \in T /\ Max(s) \in 1 .. n
      BY <1>5, <2>1, <2>2
    <3>2. h[s] = step[<<h[s \ {Max(s)}], Max(s)>>]
      BY <2>1, <2>2, Zenon DEF IsFold
    <3> QED BY <1>4, <3>1, <3>2, Zenon
  <2>3. h[{}] = b
    BY <2>1 DEF IsFold
  <2>4. h = [s \in SUBSET (1 .. n) |-> h[s]]
    BY <2>1
  <2>5. h = [s \in SUBSET (1 .. n) |->
                IF s = {} THEN b ELSE HealAt(h[s \ {Max(s)}], q[Max(s)], rl)]
    BY <2>2, <2>3, <2>4, Zenon
  <2>6. h = [s \in SUBSET DOMAIN q |->
                IF s = {} THEN b ELSE HealAt(h[s \ {Max(s)}], q[Max(s)], rl)]
    BY <1>2, <2>5, Zenon
  <2>7. Healing(h, ss, rl)
    BY <2>6, Zenon DEF Healing, q, b
  <2> QED BY <2>7, Zenon
<1>7. f = [s \in SUBSET (1 .. n) |->
              IF s = {} THEN b ELSE HealAt(f[s \ {Max(s)}], q[Max(s)], rl)]
  <2>1. Healing(f, ss, rl)
    BY <1>6, Zenon
  <2> HIDE DEF f
  <2>2. f = [s \in SUBSET DOMAIN q |->
                IF s = {} THEN b ELSE HealAt(f[s \ {Max(s)}], q[Max(s)], rl)]
    BY <2>1, Zenon DEF Healing, q, b
  <2> QED BY <1>2, <2>2, Zenon
<1> HIDE DEF f
<1>8. {} \in SUBSET (1 .. n)
  OBVIOUS
<1>9. f[{}] = b
  BY <1>7, <1>8, Zenon
<1>10. ASSUME NEW s \in SUBSET (1 .. n), s # {}, f[s \ {Max(s)}] \in T
       PROVE  f[s] = step[<<f[s \ {Max(s)}], Max(s)>>]
  <2>1. f[s] = HealAt(f[s \ {Max(s)}], q[Max(s)], rl)
    BY <1>7, <1>10, Zenon
  <2> QED BY <1>4, <1>5, <1>10, <2>1, Zenon
<1>11. PICK g \in [0 .. n -> T] : Iterates(g, n, b, step, f[1 .. n])
  <2>1. IsFoldIn(f, n, b, step, T)
    BY <1>9, <1>10, Zenon DEF IsFoldIn
  <2> QED BY <1>2, <1>3, <2>1, FoldValues
<1>12. ASSUME NEW m \in 1 .. n PROVE g[m] = HealAt(g[m - 1], m, rl)
  <2>1. m - 1 \in 0 .. n
    BY <1>2
  <2>2. g[m - 1] \in T /\ g[m] = step[<<g[m - 1], m>>]
    BY <1>11, <2>1 DEF Iterates
  <2> QED BY <1>2, <1>4, <2>2, ZenonT(60)
<1>13. g[0] = b /\ g[n] = HealBoundaries(ss, rl)
  BY <1>1, <1>2, <1>11, Zenon DEF Iterates
<1> QED BY <1>11, <1>12, <1>13, Zenon DEF n, b


\* Pass 1E at one boundary.
LEMMA HealAtIs ==
    ASSUME NEW V, NEW a \in Int, NEW z \in Int, NEW ss \in Segments(V, a, z),
           NEW i \in 1 .. Len(ss), NEW rl
    PROVE  HealAt(ss, i, rl) \in Segments(V, a, z) /\ Len(HealAt(ss, i, rl)) = Len(ss)
<1> DEFINE b0 == [prev |-> ss[i - 1], curr |-> ss[i]]
           b1 == HealHonorific(b0)
           b2 == HealPreposition(b1)
           b == HealBleed(b2, rl)
           t == [ss EXCEPT ![i - 1] = b.prev, ![i] = b.curr]
           stay == i = 1 \/ ss[i - 1].ws = <<>> \/ ss[i].ws = <<>> \/ ss[i - 1].spk = ss[i].spk
<1>1. HealAt(ss, i, rl) = IF stay THEN ss ELSE t
  BY Zenon DEF HealAt
<1>2. Len(ss) \in Nat /\ \A j \in 1 .. Len(ss) : ss[j] \in Seg(V)
  BY SegmentsAre
<1>3. PICK p : Places(p, ss, V, a, z)
  BY SegmentsAre
<1>4. ASSUME ~ stay PROVE t \in Segments(V, a, z) /\ Len(t) = Len(ss)
  <2> DEFINE x == ss[i - 1]
             y == ss[i]
  <2>1. i \in 2 .. Len(ss) /\ i - 1 \in 1 .. Len(ss) /\ i - 1 \in 0 .. Len(ss) /\ i \in 0 .. Len(ss)
        /\ (i - 1) - 1 \in 0 .. Len(ss)
    BY <1>2, <1>4
  <2>2. x \in Seg(V) /\ y \in Seg(V) /\ x.ws # <<>> /\ y.ws # <<>>
    BY <1>2, <1>4, <2>1
  <2> HIDE DEF b0, b1, b2, b
  <2>3. ASSUME NEW c \in Int, NEW m \in Int, NEW e \in Int,
               x.ws \in Stretch(V, c, m), y.ws \in Stretch(V, m, e)
        PROVE  b \in Boundary(V, c, e)
    <3>1. b0 = [prev |-> x, curr |-> y]
      BY DEF b0
    <3> HIDE DEF x, y
    <3>2. b0 \in Boundary(V, c, e) /\ b0.prev.ws # <<>> /\ b0.curr.ws # <<>>
      BY <2>2, <2>3, <3>1 DEF Boundary
    <3>3. b1 \in Boundary(V, c, e)
      BY <3>2, HealHonorificIs DEF b1
    <3>4. b2 \in Boundary(V, c, e)
      BY <3>3, HealPrepositionIs DEF b2
    <3> QED BY <3>4, HealBleedIs DEF b
  <2> DEFINE u == b.prev
             v == b.curr
  <2>4. u \in Seg(V) /\ v \in Seg(V)
    <3> DEFINE c == p[(i - 1) - 1]
               m == p[i - 1]
               e == p[i]
    <3>1. c \in Int /\ m \in Int /\ e \in Int /\ x.ws \in Stretch(V, c, m) /\ y.ws \in Stretch(V, m, e)
      BY <1>3, <2>1, PlacesAre
    <3> HIDE DEF c, m, e, x, y
    <3>2. b \in Boundary(V, c, e)
      BY <2>3, <3>1
    <3> QED BY <3>1, <3>2, BoundaryIs
  <2>5. Shared(V, x.ws, y.ws, u.ws, v.ws)
    <3> HIDE DEF x, y
    <3>1. ASSUME NEW c \in Int, NEW m \in Int, NEW e \in Int,
                 x.ws \in Stretch(V, c, m), y.ws \in Stretch(V, m, e)
          PROVE  \E l \in Int : u.ws \in Stretch(V, c, l) /\ v.ws \in Stretch(V, l, e)
      <4>1. b \in Boundary(V, c, e)
        BY <2>3, <3>1
      <4> QED BY <4>1, BoundaryIs
    <3> QED BY <3>1 DEF Shared
  <2>6. ChangedTwo(t, ss, i, u, v)
    BY DEF ChangedTwo
  <2> HIDE DEF t, u, v
  <2> QED BY <2>1, <2>4, <2>5, <2>6, SegmentsPair
<1> HIDE DEF t, stay
<1> QED BY <1>1, <1>4

\* Pass 1E keeps all words in their order, and no segment without words.
LEMMA HealedAre ==
    ASSUME NEW V, NEW a \in Int, NEW z \in Int, NEW ss \in Segments(V, a, z), NEW rl
    PROVE  run_pass_1e(ss, rl) \in Segments(V, a, z) /\ Spoken(run_pass_1e(ss, rl))
<1> DEFINE n == Len(ss)
           T == {x \in Segments(V, a, z) : Len(x) = n}
           f == HealBoundaries(ss, rl)
<1>1. ss \in Seq(Seg(V)) /\ n \in Nat
  BY SegmentsAre
<1>2. ASSUME NEW x \in T, NEW i \in 1 .. n PROVE HealAt(x, i, rl) \in T
  BY HealAtIs
<1>3. ss \in T /\ \A x \in T : \A i \in 1 .. Len(ss) : HealAt(x, i, rl) \in T
  BY <1>2
<1> HIDE DEF T, f, n
<1>a. ss \in Seq(Seg(V))
  BY <1>1
<1>b. ss \in T
  BY <1>3
<1>c. HealStays(T, ss, rl)
  BY <1>3 DEF HealStays
<1>4. PICK g \in [0 .. Len(ss) -> T] :
          /\ g[0] = ss /\ g[Len(ss)] = HealBoundaries(ss, rl)
          /\ \A m \in 1 .. Len(ss) : g[m] = HealAt(g[m - 1], m, rl)
  BY <1>a, <1>b, <1>c, HealFold, SMTT(60)
<1>5. f \in Segments(V, a, z)
  <2>1. Len(ss) \in 0 .. Len(ss)
    BY <1>1 DEF n
  <2>2. f \in T
    BY <1>4, <2>1 DEF f
  <2> QED BY <2>2 DEF T
<1>6. run_pass_1e(ss, rl) = NonEmpty(f)
  BY Zenon DEF run_pass_1e, f
<1> QED BY <1>5, <1>6, NonEmptyIs
Trimming(h, ss) ==
    LET q == [i \in DOMAIN ss |-> i]
    IN  h = [s \in SUBSET DOMAIN q |->
                IF s = {} THEN ss ELSE TrimAt(h[s \ {Max(s)}], q[Max(s)])]

\* The same for TrimAt.
LEMMA TrimFold ==
    ASSUME NEW ss, NEW U, ss \in Seq(U),
           NEW T, ss \in T, \A x \in T : \A i \in 1 .. Len(ss) : TrimAt(x, i) \in T
    PROVE  \E g \in [0 .. Len(ss) -> T] :
               /\ g[0] = ss /\ g[Len(ss)] = Pass1D(ss)
               /\ \A m \in 1 .. Len(ss) : g[m] = TrimAt(g[m - 1], m)
<1> DEFINE q == [i \in DOMAIN ss |-> i]
           n == Len(ss)
           b == ss
           step == [p \in T \X (1 .. n) |-> TrimAt(p[1], q[p[2]])]
           f == CHOOSE h : Trimming(h, ss)
<1>1. Pass1D(ss) = f[DOMAIN q]
  BY Zenon DEF Pass1D, FoldLeftDomain, FoldLeft, MapThenFoldSet, Trimming
<1>2. n \in Nat /\ DOMAIN q = 1 .. n /\ \A i \in 1 .. n : q[i] = i
  BY LenProperties
<1> HIDE DEF n, q, b
<1>3. step \in [T \X (1 .. n) -> T] /\ b \in T
  <2>1. \A x \in T : \A i \in 1 .. n : TrimAt(x, q[i]) \in T
    BY <1>2 DEF n
  <2> QED BY <2>1 DEF b
<1>4. \A x \in T : \A i \in 1 .. n : step[<<x, i>>] = TrimAt(x, q[i])
  OBVIOUS
<1> HIDE DEF step
<1>5. \A s \in SUBSET (1 .. n) : s # {} => Max(s) \in 1 .. n /\ s \ {Max(s)} \in SUBSET (1 .. n)
  BY <1>2, MaxUpTo
<1>6. \E h : Trimming(h, ss)
  <2>1. PICK h \in [SUBSET (1 .. n) -> T] : IsFold(h, n, b, step)
    BY <1>2, <1>3, FoldExists
  <2>2. ASSUME NEW s \in SUBSET (1 .. n), s # {}
        PROVE  h[s] = TrimAt(h[s \ {Max(s)}], q[Max(s)])
    <3>1. h[s \ {Max(s)}] \in T /\ Max(s) \in 1 .. n
      BY <1>5, <2>1, <2>2
    <3>2. h[s] = step[<<h[s \ {Max(s)}], Max(s)>>]
      BY <2>1, <2>2, Zenon DEF IsFold
    <3> QED BY <1>4, <3>1, <3>2, Zenon
  <2>3. h[{}] = b
    BY <2>1 DEF IsFold
  <2>4. h = [s \in SUBSET (1 .. n) |-> h[s]]
    BY <2>1
  <2>5. h = [s \in SUBSET (1 .. n) |->
                IF s = {} THEN b ELSE TrimAt(h[s \ {Max(s)}], q[Max(s)])]
    BY <2>2, <2>3, <2>4, Zenon
  <2>6. h = [s \in SUBSET DOMAIN q |->
                IF s = {} THEN b ELSE TrimAt(h[s \ {Max(s)}], q[Max(s)])]
    BY <1>2, <2>5, Zenon
  <2>7. Trimming(h, ss)
    BY <2>6, Zenon DEF Trimming, q, b
  <2> QED BY <2>7, Zenon
<1>7. f = [s \in SUBSET (1 .. n) |->
              IF s = {} THEN b ELSE TrimAt(f[s \ {Max(s)}], q[Max(s)])]
  <2>1. Trimming(f, ss)
    BY <1>6, Zenon
  <2> HIDE DEF f
  <2>2. f = [s \in SUBSET DOMAIN q |->
                IF s = {} THEN b ELSE TrimAt(f[s \ {Max(s)}], q[Max(s)])]
    BY <2>1, Zenon DEF Trimming, q, b
  <2> QED BY <1>2, <2>2, Zenon
<1> HIDE DEF f
<1>8. {} \in SUBSET (1 .. n)
  OBVIOUS
<1>9. f[{}] = b
  BY <1>7, <1>8, Zenon
<1>10. ASSUME NEW s \in SUBSET (1 .. n), s # {}, f[s \ {Max(s)}] \in T
       PROVE  f[s] = step[<<f[s \ {Max(s)}], Max(s)>>]
  <2>1. f[s] = TrimAt(f[s \ {Max(s)}], q[Max(s)])
    BY <1>7, <1>10, Zenon
  <2> QED BY <1>4, <1>5, <1>10, <2>1, Zenon
<1>11. PICK g \in [0 .. n -> T] : Iterates(g, n, b, step, f[1 .. n])
  <2>1. IsFoldIn(f, n, b, step, T)
    BY <1>9, <1>10, Zenon DEF IsFoldIn
  <2> QED BY <1>2, <1>3, <2>1, FoldValues
<1>12. ASSUME NEW m \in 1 .. n PROVE g[m] = TrimAt(g[m - 1], m)
  <2>1. m - 1 \in 0 .. n
    BY <1>2
  <2>2. g[m - 1] \in T /\ g[m] = step[<<g[m - 1], m>>]
    BY <1>11, <2>1 DEF Iterates
  <2> QED BY <1>2, <1>4, <2>2, ZenonT(60)
<1>13. g[0] = b /\ g[n] = Pass1D(ss)
  BY <1>1, <1>2, <1>11, Zenon DEF Iterates
<1> QED BY <1>11, <1>12, <1>13, Zenon DEF n, b


-----------------------------------------------------------------------------
(* Pass 1D                                                                 *)

\* "Says" that is heard as "Yes".
LEMMA SaidIs ==
    ASSUME NEW V, NEW w \in Word(V), NEW y, y = [w EXCEPT !.tok = "yes", !.mark = ".", !.cap = TRUE]
    PROVE  y \in Word(V) /\ y.from = w.from /\ y.upto = w.upto
<1>1. "yes" \in Put
  BY DEF Put
<1>2. Put \subseteq Tokens
  BY DEF Tokens
<1>3. y \in WordFields(V) /\ y.from = w.from /\ y.upto = w.upto /\ y.tok = "yes"
  BY <1>1, <1>2 DEF Word, WordFields, Marks
<1> QED BY <1>1, <1>3, WordChanged

\* w is the first word of ws, "Yes." when that was "says".
FirstSaid(w, ws) == w = ws[1] \/ w = [ws[1] EXCEPT !.tok = "yes", !.mark = ".", !.cap = TRUE]

\* w stays in segment i, the other words go to the next one.
YesBled(t, ss, i, w) ==
    t = [ss EXCEPT ![i] = MkSeg(<<w>>, ss[i].spk),
                   ![i + 1] = MkSeg(Tail(ss[i].ws) \o ss[i + 1].ws, ss[i + 1].spk)]

\* u, v and w are the segments around i when words x to y of it are a backchannel.
Trims(ss, i, x, y, out, on, u, v, w) ==
    /\ u = (IF out THEN MkSeg(ss[i - 1].ws \o SubSeq(ss[i].ws, 1, x - 1), ss[i - 1].spk) ELSE ss[i - 1])
    /\ v = MkSeg(SubSeq(ss[i].ws, IF out THEN x ELSE 1, IF on THEN y ELSE Len(ss[i].ws)), ss[i].spk)
    /\ w = (IF on THEN MkSeg(SubSeq(ss[i].ws, y + 1, Len(ss[i].ws)) \o ss[i + 1].ws, ss[i + 1].spk)
            ELSE ss[i + 1])

\* "Yes" stays, the rest goes to the next segment.
LEMMA YesBleedIs ==
    ASSUME NEW V, NEW a \in Int, NEW z \in Int, NEW ss \in Segments(V, a, z), NEW i \in 1 .. Len(ss) - 1,
           ss[i].ws # <<>>, NEW w, FirstSaid(w, ss[i].ws), NEW t, YesBled(t, ss, i, w)
    PROVE  t \in Segments(V, a, z) /\ Len(t) = Len(ss)
<1> DEFINE nxt == i + 1
           x == ss[i]
           y == ss[nxt]
           xw == x.ws
           yw == y.ws
           rest == Tail(xw) \o yw
           u == MkSeg(<<w>>, x.spk)
           v == MkSeg(rest, y.spk)
<1>1. Len(ss) \in Nat /\ \A j \in 1 .. Len(ss) : ss[j] \in Seg(V)
  BY SegmentsAre
<1>2. PICK p : Places(p, ss, V, a, z)
  BY SegmentsAre
<1>3. nxt \in 2 .. Len(ss) /\ nxt - 1 = i /\ i \in 1 .. Len(ss) /\ nxt \in 1 .. Len(ss)
      /\ i - 1 \in 0 .. Len(ss) /\ i \in 0 .. Len(ss) /\ nxt \in 0 .. Len(ss)
  BY <1>1
<1>4. x \in Seg(V) /\ y \in Seg(V) /\ x.spk \in V /\ y.spk \in V
  BY <1>1, <1>3, SegIs
<1>5. t = [ss EXCEPT ![nxt - 1] = u, ![nxt] = v]
  BY <1>3 DEF YesBled
<1>6. xw # <<>>
  OBVIOUS
<1>7. w = xw[1] \/ w = [xw[1] EXCEPT !.tok = "yes", !.mark = ".", !.cap = TRUE]
  BY DEF FirstSaid
<1> DEFINE b == p[i - 1]
           m == p[i]
           e == p[nxt]
<1>8. b \in Int /\ m \in Int /\ e \in Int /\ xw \in Stretch(V, b, m) /\ yw \in Stretch(V, m, e)
  BY <1>2, <1>3, PlacesAre
<1> HIDE DEF b, m, e, xw, yw
<1>9. ASSUME NEW c \in Int, NEW d \in Int, NEW f \in Int, xw \in Stretch(V, c, d), yw \in Stretch(V, d, f)
      PROVE  \E l \in Int : <<w>> \in Stretch(V, c, l) /\ rest \in Stretch(V, l, f)
  <2> DEFINE g == xw[1]
  <2>1. g \in Word(V) /\ g.from = c /\ g.upto \in Int /\ Tail(xw) \in Stretch(V, g.upto, d)
    <3>1. /\ xw[1] \in Word(V) /\ xw[1].from = c /\ xw[1].upto \in Int
          /\ Tail(xw) \in Stretch(V, xw[1].upto, d)
      <4> HIDE DEF g
      <4> QED BY <1>6, <1>9, StretchTail
    <3> QED BY <3>1
  <2>2. w = g \/ w = [g EXCEPT !.tok = "yes", !.mark = ".", !.cap = TRUE]
    BY <1>7
  <2> HIDE DEF g
  <2>3. w \in Word(V) /\ w.from = g.from /\ w.upto = g.upto
    BY <2>1, <2>2, SaidIs
  <2>4. <<w>> \in Stretch(V, c, g.upto)
    BY <2>1, <2>3, StretchOne
  <2> DEFINE l == g.upto
  <2>5. l \in Int /\ Tail(xw) \in Stretch(V, l, d)
    BY <2>1
  <2> HIDE DEF l
  <2>6. rest \in Stretch(V, l, f)
    BY <1>9, <2>5, StretchConcat
  <2> QED BY <2>4, <2>5, <2>6 DEF l
<1> DEFINE one == <<w>>
           s == x.spk
           q == y.spk
<1> HIDE DEF one, rest, s, q
<1>10. PICK l \in Int : one \in Stretch(V, b, l) /\ rest \in Stretch(V, l, e)
  BY <1>8, <1>9 DEF one
<1>11. MkSeg(one, s) \in Seg(V) /\ MkSeg(rest, q) \in Seg(V)
  BY <1>4, <1>8, <1>10, MkSegIs DEF s, q
<1>12. Alike(V, V, one, MkSeg(one, s).ws) /\ Alike(V, V, rest, MkSeg(rest, q).ws)
  BY <1>4, MkSegAlike DEF s, q
<1> HIDE DEF u, v
<1>13. u \in Seg(V) /\ v \in Seg(V) /\ Alike(V, V, one, u.ws) /\ Alike(V, V, rest, v.ws)
  BY <1>11, <1>12 DEF u, v, one, s, q
<1>14. Shared(V, xw, yw, u.ws, v.ws)
  BY <1>9, <1>13 DEF Shared, Alike, one
<1>15. Shared(V, ss[nxt - 1].ws, ss[nxt].ws, u.ws, v.ws)
  BY <1>3, <1>14 DEF xw, yw
<1>16. ChangedTwo(t, ss, nxt, u, v)
  BY <1>5 DEF ChangedTwo
<1>17. nxt \in 2 .. Len(ss)
  BY <1>3
<1> HIDE DEF nxt, x, y
<1> QED BY <1>13, <1>15, <1>16, <1>17, SegmentsPair

\* The words around a backchannel go to the segments beside it, or stay.
LEMMA TrimmedIs ==
    ASSUME NEW V, NEW a \in Int, NEW z \in Int, NEW ss \in Segments(V, a, z), NEW i \in 2 .. Len(ss) - 1,
           NEW x \in 1 .. Len(ss[i].ws), NEW y \in x .. Len(ss[i].ws), NEW out \in BOOLEAN, NEW on \in BOOLEAN,
           NEW u, NEW v, NEW w, Trims(ss, i, x, y, out, on, u, v, w),
           NEW t, ChangedThree(t, ss, i, u, v, w)
    PROVE  t \in Segments(V, a, z) /\ Len(t) = Len(ss)
<1> DEFINE prv == i - 1
           j == i + 1
           before == ss[prv].ws
           ws == ss[i].ws
           after == ss[j].ws
           n == Len(ws)
           f == IF out THEN x ELSE 1
           g == IF on THEN y ELSE n
           lead == SubSeq(ws, 1, x - 1)
           core == SubSeq(ws, f, g)
           trail == SubSeq(ws, y + 1, n)
           one == IF out THEN before \o lead ELSE before
           three == IF on THEN trail \o after ELSE after
           r == ss[prv]
           s == ss[i]
           q == ss[j]
<1>1. Len(ss) \in Nat /\ \A m \in 1 .. Len(ss) : ss[m] \in Seg(V)
  BY SegmentsAre
<1>2. PICK p : Places(p, ss, V, a, z)
  BY SegmentsAre
<1>3. /\ prv \in 1 .. Len(ss) /\ i \in 1 .. Len(ss) /\ j \in 1 .. Len(ss)
      /\ prv - 1 \in 0 .. Len(ss) /\ prv \in 0 .. Len(ss) /\ i \in 0 .. Len(ss) /\ j \in 0 .. Len(ss)
      /\ j - 1 = i
  BY <1>1
<1>4. r \in Seg(V) /\ s \in Seg(V) /\ q \in Seg(V) /\ r.spk \in V /\ s.spk \in V /\ q.spk \in V
  BY <1>1, <1>3, SegIs
<1> DEFINE b == p[prv - 1]
           m == p[prv]
           o == p[i]
           c == p[j]
<1>5. /\ b \in Int /\ m \in Int /\ o \in Int /\ c \in Int
      /\ before \in Stretch(V, b, m) /\ ws \in Stretch(V, m, o) /\ after \in Stretch(V, o, c)
  BY <1>2, <1>3, PlacesAre
<1>6. x \in 1 .. n /\ y \in x .. n
  OBVIOUS
<1>7. /\ u = (IF out THEN MkSeg(before \o lead, r.spk) ELSE r)
      /\ v = MkSeg(core, s.spk)
      /\ w = (IF on THEN MkSeg(trail \o after, q.spk) ELSE q)
  BY DEF Trims
<1>8. r.ws = before /\ s.ws = ws /\ q.ws = after
  OBVIOUS
<1> HIDE DEF b, m, o, c, before, ws, after, r, s, q, prv, j
<1>9. ASSUME NEW b1 \in Int, NEW m1 \in Int, NEW o1 \in Int, NEW c1 \in Int,
             before \in Stretch(V, b1, m1), ws \in Stretch(V, m1, o1), after \in Stretch(V, o1, c1)
      PROVE  \E l, h \in Int : /\ one \in Stretch(V, b1, l) /\ core \in Stretch(V, l, h)
                               /\ three \in Stretch(V, h, c1)
  <2> DEFINE P(d) == Point(ws, m1, d)
  <2>1. n \in Nat /\ P(0) = m1 /\ P(n) = o1 /\ \A d \in 0 .. n : P(d) \in Int
    BY <1>9, StretchIs
  <2>2. /\ x - 1 \in 0 .. n /\ 1 \in 1 .. n + 1 /\ 1 <= (x - 1) + 1 /\ 1 - 1 = 0
        /\ f \in 1 .. n + 1 /\ g \in 0 .. n /\ f <= g + 1 /\ f - 1 = (IF out THEN x - 1 ELSE 0)
        /\ y + 1 \in 1 .. n + 1 /\ n \in 0 .. n /\ y + 1 <= n + 1 /\ (y + 1) - 1 = y /\ y \in 0 .. n
        /\ f - 1 \in 0 .. n
    BY <1>6, <2>1, SMTT(60)
  <2> HIDE DEF f, g
  <2> DEFINE l == P(f - 1)
             h == P(g)
             y1 == y + 1
             x1 == x - 1
             l1 == P(x1)
             h1 == P(y)
  <2>3. core \in Stretch(V, l, h) /\ l \in Int /\ h \in Int
    <3> HIDE DEF n
    <3> QED BY <1>9, <2>1, <2>2, StretchCut DEF n
  <2>4. lead \in Stretch(V, m1, l1) /\ l1 \in Int
    <3> HIDE DEF x1
    <3>1. SubSeq(ws, 1, x1) \in Stretch(V, P(1 - 1), P(x1)) /\ P(x1) \in Int
      BY <1>9, <2>1, <2>2, StretchCut DEF x1
    <3> QED BY <2>1, <2>2, <3>1 DEF x1
  <2>5. trail \in Stretch(V, h1, o1) /\ h1 \in Int
    <3>1. y1 \in 1 .. n + 1 /\ y1 <= n + 1 /\ y1 - 1 = y
      BY <2>2
    <3> HIDE DEF y1
    <3>2. SubSeq(ws, y1, n) \in Stretch(V, P(y1 - 1), P(n))
      BY <1>9, <2>1, <2>2, <3>1, StretchCut
    <3> QED BY <2>1, <2>2, <3>1, <3>2 DEF y1
  <2>6. (out => l = l1) /\ (~ out => l = m1) /\ (on => h = h1) /\ (~ on => h = o1)
    <3>1. (on => g = y) /\ (~ on => g = n)
      BY DEF g
    <3> HIDE DEF P, n
    <3> QED BY <2>1, <2>2, <3>1
  <2> HIDE DEF core, lead, trail, l, h, l1, h1
  <2>7. one \in Stretch(V, b1, l)
    <3>1. CASE out
      <4>1. before \o lead \in Stretch(V, b1, l1)
        BY <1>9, <2>4, StretchConcat
      <4> QED BY <2>6, <3>1, <4>1
    <3>2. CASE ~ out
      BY <1>9, <2>6, <3>2
    <3> QED BY <3>1, <3>2
  <2>8. three \in Stretch(V, h, c1)
    <3>1. CASE on
      <4>1. trail \o after \in Stretch(V, h1, c1)
        BY <1>9, <2>5, StretchConcat
      <4> QED BY <2>6, <3>1, <4>1
    <3>2. CASE ~ on
      BY <1>9, <2>6, <3>2
    <3> QED BY <3>1, <3>2
  <2> QED BY <2>3, <2>7, <2>8
<1> DEFINE rs == r.spk
           sp == s.spk
           qs == q.spk
<1>10. PICK l \in Int, h \in Int : /\ one \in Stretch(V, b, l) /\ core \in Stretch(V, l, h)
                                   /\ three \in Stretch(V, h, c)
  <2> HIDE DEF one, core, three
  <2> QED BY <1>5, <1>9
<1>11. u \in Seg(V) /\ Alike(V, V, one, u.ws)
  <2>1. CASE out
    <3>1. one = before \o lead /\ u = MkSeg(before \o lead, rs) /\ rs \in V
      BY <1>4, <1>7, <2>1
    <3> HIDE DEF one, rs, lead
    <3>2. u = MkSeg(one, rs)
      BY <3>1
    <3>3. MkSeg(one, rs) \in Seg(V) /\ Alike(V, V, one, MkSeg(one, rs).ws)
      BY <1>5, <1>10, <3>1, MkSegIs, MkSegAlike
    <3> QED BY <3>2, <3>3
  <2>2. CASE ~ out
    BY <1>4, <1>7, <1>8, <2>2 DEF Alike
  <2> QED BY <2>1, <2>2
<1>12. w \in Seg(V) /\ Alike(V, V, three, w.ws)
  <2>1. CASE on
    <3>1. three = trail \o after /\ w = MkSeg(trail \o after, qs) /\ qs \in V
      BY <1>4, <1>7, <2>1
    <3> HIDE DEF three, qs, trail
    <3>2. w = MkSeg(three, qs)
      BY <3>1
    <3>3. MkSeg(three, qs) \in Seg(V) /\ Alike(V, V, three, MkSeg(three, qs).ws)
      BY <1>5, <1>10, <3>1, MkSegIs, MkSegAlike
    <3> QED BY <3>2, <3>3
  <2>2. CASE ~ on
    BY <1>4, <1>7, <1>8, <2>2 DEF Alike
  <2> QED BY <2>1, <2>2
<1>13. v \in Seg(V) /\ Alike(V, V, core, v.ws)
  <2>1. v = MkSeg(core, sp) /\ sp \in V
    BY <1>4, <1>7
  <2> HIDE DEF core, sp
  <2>2. MkSeg(core, sp) \in Seg(V) /\ Alike(V, V, core, MkSeg(core, sp).ws)
    BY <1>5, <1>10, <2>1, MkSegIs, MkSegAlike
  <2> QED BY <2>1, <2>2
<1> HIDE DEF one, core, three
<1>14. SharedByThree(V, before, ws, after, u.ws, v.ws, w.ws)
  <2>1. ASSUME NEW b1 \in Int, NEW m1 \in Int, NEW o1 \in Int, NEW c1 \in Int,
               before \in Stretch(V, b1, m1), ws \in Stretch(V, m1, o1), after \in Stretch(V, o1, c1)
        PROVE  \E l1, h1 \in Int : /\ u.ws \in Stretch(V, b1, l1) /\ v.ws \in Stretch(V, l1, h1)
                                   /\ w.ws \in Stretch(V, h1, c1)
    <3>1. PICK l1 \in Int, h1 \in Int : /\ one \in Stretch(V, b1, l1) /\ core \in Stretch(V, l1, h1)
                                        /\ three \in Stretch(V, h1, c1)
      BY <1>9, <2>1
    <3>2. u.ws \in Stretch(V, b1, l1) /\ v.ws \in Stretch(V, l1, h1) /\ w.ws \in Stretch(V, h1, c1)
      BY <1>11, <1>12, <1>13, <2>1, <3>1 DEF Alike
    <3> QED BY <3>2
  <2> QED BY <2>1 DEF SharedByThree
<1>15. SharedByThree(V, ss[i - 1].ws, ss[i].ws, ss[i + 1].ws, u.ws, v.ws, w.ws)
  BY <1>14 DEF before, ws, after, prv, j
<1>16. u \in Seg(V) /\ v \in Seg(V) /\ w \in Seg(V)
  BY <1>11, <1>12, <1>13
<1> HIDE DEF rs, sp, qs, n, f, g
<1> QED BY <1>15, <1>16, SegmentsThree

\* One step of pass 1D.
LEMMA TrimAtIs ==
    ASSUME NEW V, NEW a \in Int, NEW z \in Int, NEW ss \in Segments(V, a, z), NEW i \in 1 .. Len(ss)
    PROVE  TrimAt(ss, i) \in Segments(V, a, z) /\ Len(TrimAt(ss, i)) = Len(ss)
<1> DEFINE prev == ss[i - 1]
           curr == ss[i]
           next == ss[i + 1]
           ws == curr.ws
           n == Len(ws)
           bc == find_bc_span(ws)
           lead == SubSeq(ws, 1, Min(bc) - 1)
           trail == SubSeq(ws, Max(bc) + 1, n)
           out == lead # <<>> /\ lead[1].st - End(prev) <= 1200
           on == trail # <<>> /\ Start(next) - Last(trail).en <= 1200
           core == SubSeq(ws, IF out THEN Min(bc) ELSE 1, IF on THEN Max(bc) ELSE n)
           said == IF ws[1].tok = "says" THEN [ws[1] EXCEPT !.tok = "yes", !.mark = ".", !.cap = TRUE]
                   ELSE ws[1]
           T1 == [ss EXCEPT ![i] = MkSeg(<<said>>, curr.spk), ![i + 1] = MkSeg(Tail(ws) \o next.ws, next.spk)]
           T2 == [ss EXCEPT ![i - 1] = IF out THEN MkSeg(prev.ws \o lead, prev.spk) ELSE @,
                            ![i] = MkSeg(core, curr.spk),
                            ![i + 1] = IF on THEN MkSeg(trail \o next.ws, next.spk) ELSE @]
           T3 == [ss EXCEPT ![i] = MkSeg(ws, prev.spk)]
           t == TrimAt(ss, i)
<1>1. \/ t = ss
      \/ /\ 1 < i /\ i < Len(ss)
         /\ \/ t = T1 /\ n >= 4
            \/ t = T2 /\ bc # {}
            \/ t = T3
  BY ZenonT(60) DEF TrimAt, YesBleed
<1>2. Len(ss) \in Nat /\ \A j \in 1 .. Len(ss) : ss[j] \in Seg(V)
  BY SegmentsAre
<1>3. ws \in Seq(Word(V)) /\ n \in Nat /\ prev = ss[i - 1]
  BY <1>2, SegIs
<1>4. ASSUME 1 < i, i < Len(ss), n >= 4 PROVE T1 \in Segments(V, a, z) /\ Len(T1) = Len(ss)
  <2>1. i \in 1 .. Len(ss) - 1
    BY <1>2, <1>4
  <2>2. ws # <<>>
    BY <1>3, <1>4, LongerThanNone
  <2>3. said = ss[i].ws[1] \/ said = [ss[i].ws[1] EXCEPT !.tok = "yes", !.mark = ".", !.cap = TRUE]
    OBVIOUS
  <2> HIDE DEF said
  <2>4. YesBled(T1, ss, i, said) /\ ss[i].ws # <<>> /\ FirstSaid(said, ss[i].ws)
    BY <2>2, <2>3 DEF YesBled, FirstSaid
  <2> HIDE DEF T1
  <2> QED BY <2>1, <2>4, YesBleedIs
<1>5. ASSUME 1 < i, i < Len(ss), bc # {} PROVE T2 \in Segments(V, a, z) /\ Len(T2) = Len(ss)
  <2> DEFINE x == Min(bc)
             y == Max(bc)
  <2>1. x \in 1 .. Len(ss[i].ws) /\ y \in x .. Len(ss[i].ws)
    BY <1>3, <1>5, SpanIs
  <2>2. i \in 2 .. Len(ss) - 1 /\ i - 1 # i + 1 /\ i # i + 1
    BY <1>2, <1>5
  <2>3. out \in BOOLEAN /\ on \in BOOLEAN
    OBVIOUS
  <2> HIDE DEF out, on
  <2> DEFINE u == IF out THEN MkSeg(ss[i - 1].ws \o SubSeq(ss[i].ws, 1, x - 1), ss[i - 1].spk) ELSE ss[i - 1]
             v == MkSeg(SubSeq(ss[i].ws, IF out THEN x ELSE 1, IF on THEN y ELSE Len(ss[i].ws)), ss[i].spk)
             w == IF on THEN MkSeg(SubSeq(ss[i].ws, y + 1, Len(ss[i].ws)) \o ss[i + 1].ws, ss[i + 1].spk)
                  ELSE ss[i + 1]
  <2>4. ChangedThree(T2, ss, i, u, v, w)
    <3> DEFINE A == MkSeg(prev.ws \o lead, prev.spk)
               B == MkSeg(core, curr.spk)
               C == MkSeg(trail \o next.ws, next.spk)
    <3>1. u = (IF out THEN A ELSE ss[i - 1]) /\ v = B /\ w = (IF on THEN C ELSE ss[i + 1])
      OBVIOUS
    <3>2. T2 = [ss EXCEPT ![i - 1] = IF out THEN A ELSE @, ![i] = B, ![i + 1] = IF on THEN C ELSE @]
      OBVIOUS
    <3> HIDE DEF A, B, C, u, v, w, T2
    <3>3. T2 = [ss EXCEPT ![i - 1] = u, ![i] = v, ![i + 1] = w]
      BY <2>2, <3>1, <3>2
    <3> QED BY <3>3 DEF ChangedThree
  <2>5. Trims(ss, i, x, y, out, on, u, v, w)
    BY DEF Trims
  <2> HIDE DEF u, v, w, T2, x, y
  <2> QED BY <2>1, <2>2, <2>3, <2>4, <2>5, TrimmedIs
<1>6. ASSUME 1 < i, i < Len(ss) PROVE T3 \in Segments(V, a, z) /\ Len(T3) = Len(ss)
  <2> DEFINE s == prev.spk
             v == MkSeg(ws, s)
  <2>1. i - 1 \in 1 .. Len(ss) /\ DOMAIN ss = 1 .. Len(ss)
    BY <1>2, <1>6, SegmentsAre
  <2>2. s \in V
    BY <1>2, <2>1, SegIs
  <2>3. T3 = [j \in DOMAIN ss |-> T3[j]] /\ \A j \in DOMAIN ss : T3[j] = IF j = i THEN v ELSE ss[j]
    OBVIOUS
  <2>4. v = MkSeg(ss[i].ws, s)
    OBVIOUS
  <2> HIDE DEF v, s, T3
  <2>5. HandedOver(V, V, ss, T3)
    BY <2>2, <2>3, <2>4 DEF HandedOver
  <2> QED BY <2>5, HandedOverAre
<1> HIDE DEF t, T1, T2, T3, bc, n
<1>7. t \in Segments(V, a, z) /\ Len(t) = Len(ss)
  BY <1>1, <1>4, <1>5, <1>6
<1> QED BY <1>7 DEF t

\* Pass 1D keeps all words in their order.
LEMMA TrimmedAre ==
    ASSUME NEW V, NEW a \in Int, NEW z \in Int, NEW ss \in Segments(V, a, z)
    PROVE  Pass1D(ss) \in Segments(V, a, z)
<1> DEFINE n == Len(ss)
           T == {x \in Segments(V, a, z) : Len(x) = n}
<1>1. n \in Nat /\ ss \in T /\ \A x \in T : \A i \in 1 .. n : TrimAt(x, i) \in T
  BY SegmentsAre, TrimAtIs
<1>2. ss \in Seq(Seg(V))
  BY SegmentsAre
<1> HIDE DEF T
<1>3. PICK g \in [0 .. n -> T] :
          /\ g[0] = ss /\ g[n] = Pass1D(ss)
          /\ \A m \in 1 .. n : g[m] = TrimAt(g[m - 1], m)
  BY <1>1, <1>2, TrimFold, SMTT(60)
<1>4. Pass1D(ss) \in T
  <2>1. n \in 0 .. n
    BY <1>1
  <2> QED BY <1>3, <2>1
<1> QED BY <1>4 DEF T
Judging(h, ss, rl) ==
    LET q == [i \in DOMAIN ss |-> i]
    IN  h = [s \in SUBSET DOMAIN q |->
                IF s = {} THEN ss ELSE Pass2At(h[s \ {Max(s)}], q[Max(s)], rl)]

\* Pass2At stays in T.
Pass2Stays(T, ss, rl) == \A x \in T : \A i \in 1 .. Len(ss) : Pass2At(x, i, rl) \in T

\* The same for Pass2At.
LEMMA Pass2Fold ==
    ASSUME NEW ss, NEW U, ss \in Seq(U), NEW rl,
           NEW T, ss \in T, Pass2Stays(T, ss, rl)
    PROVE  \E g \in [0 .. Len(ss) -> T] :
               /\ g[0] = ss /\ g[Len(ss)] = Pass2(ss, rl)
               /\ \A m \in 1 .. Len(ss) : g[m] = Pass2At(g[m - 1], m, rl)
<1> DEFINE q == [i \in DOMAIN ss |-> i]
           n == Len(ss)
           b == ss
           step == [p \in T \X (1 .. n) |-> Pass2At(p[1], q[p[2]], rl)]
           f == CHOOSE h : Judging(h, ss, rl)
<1>1. Pass2(ss, rl) = f[DOMAIN q]
  BY Zenon DEF Pass2, FoldLeftDomain, FoldLeft, MapThenFoldSet, Judging
<1>2. n \in Nat /\ DOMAIN q = 1 .. n /\ \A i \in 1 .. n : q[i] = i
  BY LenProperties
<1> HIDE DEF n, q, b
<1>3. step \in [T \X (1 .. n) -> T] /\ b \in T
  <2>1. \A x \in T : \A i \in 1 .. n : Pass2At(x, q[i], rl) \in T
    BY <1>2 DEF n, Pass2Stays
  <2> QED BY <2>1 DEF b
<1>4. \A x \in T : \A i \in 1 .. n : step[<<x, i>>] = Pass2At(x, q[i], rl)
  OBVIOUS
<1> HIDE DEF step
<1>5. \A s \in SUBSET (1 .. n) : s # {} => Max(s) \in 1 .. n /\ s \ {Max(s)} \in SUBSET (1 .. n)
  BY <1>2, MaxUpTo
<1>6. \E h : Judging(h, ss, rl)
  <2>1. PICK h \in [SUBSET (1 .. n) -> T] : IsFold(h, n, b, step)
    BY <1>2, <1>3, FoldExists
  <2>2. ASSUME NEW s \in SUBSET (1 .. n), s # {}
        PROVE  h[s] = Pass2At(h[s \ {Max(s)}], q[Max(s)], rl)
    <3>1. h[s \ {Max(s)}] \in T /\ Max(s) \in 1 .. n
      BY <1>5, <2>1, <2>2
    <3>2. h[s] = step[<<h[s \ {Max(s)}], Max(s)>>]
      BY <2>1, <2>2, Zenon DEF IsFold
    <3> QED BY <1>4, <3>1, <3>2, Zenon
  <2>3. h[{}] = b
    BY <2>1 DEF IsFold
  <2>4. h = [s \in SUBSET (1 .. n) |-> h[s]]
    BY <2>1
  <2>5. h = [s \in SUBSET (1 .. n) |->
                IF s = {} THEN b ELSE Pass2At(h[s \ {Max(s)}], q[Max(s)], rl)]
    BY <2>2, <2>3, <2>4, Zenon
  <2>6. h = [s \in SUBSET DOMAIN q |->
                IF s = {} THEN b ELSE Pass2At(h[s \ {Max(s)}], q[Max(s)], rl)]
    BY <1>2, <2>5, Zenon
  <2>7. Judging(h, ss, rl)
    BY <2>6, Zenon DEF Judging, q, b
  <2> QED BY <2>7, Zenon
<1>7. f = [s \in SUBSET (1 .. n) |->
              IF s = {} THEN b ELSE Pass2At(f[s \ {Max(s)}], q[Max(s)], rl)]
  <2>1. Judging(f, ss, rl)
    BY <1>6, Zenon
  <2> HIDE DEF f
  <2>2. f = [s \in SUBSET DOMAIN q |->
                IF s = {} THEN b ELSE Pass2At(f[s \ {Max(s)}], q[Max(s)], rl)]
    BY <2>1, Zenon DEF Judging, q, b
  <2> QED BY <1>2, <2>2, Zenon
<1> HIDE DEF f
<1>8. {} \in SUBSET (1 .. n)
  OBVIOUS
<1>9. f[{}] = b
  BY <1>7, <1>8, Zenon
<1>10. ASSUME NEW s \in SUBSET (1 .. n), s # {}, f[s \ {Max(s)}] \in T
       PROVE  f[s] = step[<<f[s \ {Max(s)}], Max(s)>>]
  <2>1. f[s] = Pass2At(f[s \ {Max(s)}], q[Max(s)], rl)
    BY <1>7, <1>10, Zenon
  <2> QED BY <1>4, <1>5, <1>10, <2>1, Zenon
<1>11. PICK g \in [0 .. n -> T] : Iterates(g, n, b, step, f[1 .. n])
  <2>1. IsFoldIn(f, n, b, step, T)
    BY <1>9, <1>10, Zenon DEF IsFoldIn
  <2> QED BY <1>2, <1>3, <2>1, FoldValues
<1>12. ASSUME NEW m \in 1 .. n PROVE g[m] = Pass2At(g[m - 1], m, rl)
  <2>1. m - 1 \in 0 .. n
    BY <1>2
  <2>2. g[m - 1] \in T /\ g[m] = step[<<g[m - 1], m>>]
    BY <1>11, <2>1 DEF Iterates
  <2> QED BY <1>2, <1>4, <2>2, ZenonT(60)
<1>13. g[0] = b /\ g[n] = Pass2(ss, rl)
  BY <1>1, <1>2, <1>11, Zenon DEF Iterates
<1> QED BY <1>11, <1>12, <1>13, Zenon DEF n, b


-----------------------------------------------------------------------------
(* Pass 2                                                                  *)

\* The segments ss with other labels.
SameWords(V, ss) ==
    {x \in Seq(Seg(V)) : Len(x) = Len(ss) /\ \A i \in 1 .. Len(ss) : x[i].ws = ss[i].ws}

\* Segment i is addressed to the bench, and nothing speaks against that.
Addressed(ss, i) ==
    Honorific(ss[i]) /\ ~ Authority(ss[i]) /\ ~ (i < Len(ss) /\ Clarifies(ss[i + 1]))

\* What pass 2 reads of a segment is its words.
LEMMA SameSaid ==
    ASSUME NEW r, NEW s, r.ws = s.ws
    PROVE  /\ Honorific(r) <=> Honorific(s)
           /\ Authority(r) <=> Authority(s)
           /\ Clarifies(r) <=> Clarifies(s)
           /\ Start(r) = Start(s) /\ End(r) = End(s)
<1>1. Says(r.ws, HONORIFICS) <=> Says(s.ws, HONORIFICS)
  OBVIOUS
<1>2. Says(r.ws, JUDGE_AUTHORITY) <=> Says(s.ws, JUDGE_AUTHORITY)
  OBVIOUS
<1>3. (Toks(r.ws) \in CLARIFICATION /\ Plain(r.ws)) <=> (Toks(s.ws) \in CLARIFICATION /\ Plain(s.ws))
  OBVIOUS
<1>4. r.ws[1].st = s.ws[1].st /\ Last(r.ws).en = Last(s.ws).en
  OBVIOUS
<1> QED BY <1>1, <1>2, <1>3, <1>4 DEF Honorific, Authority, Clarifies, Whole, Start, End

\* An inquiry is bench language.
LEMMA InquiryIsAuthority ==
    ASSUME NEW r, Inquiry(r)
    PROVE  Authority(r)
<1>1. PICK p \in BENCH_INQUIRY, i \in DOMAIN r.ws : SaidAt(r.ws, i, p)
  BY DEF Inquiry, Says
<1>2. BENCH_INQUIRY \subseteq JUDGE_AUTHORITY
  BY DEF JUDGE_AUTHORITY
<1>3. p \in JUDGE_AUTHORITY
  BY <1>2
<1> QED BY <1>1, <1>3 DEF Authority, Says

\* Other labels leave the words where they are.
LEMMA SameWordsAre ==
    ASSUME NEW V, NEW a \in Int, NEW z \in Int, NEW ss \in Segments(V, a, z), NEW t \in SameWords(V, ss)
    PROVE  t \in Segments(V, a, z) /\ Len(t) = Len(ss) /\ (Spoken(ss) => Spoken(t))
<1>1. t \in Seq(Seg(V)) /\ Len(t) = Len(ss) /\ \A i \in 1 .. Len(ss) : t[i].ws = ss[i].ws
  BY DEF SameWords
<1>2. \A i \in 1 .. Len(ss) : \A b, c \in Int : ss[i].ws \in Stretch(V, b, c) => t[i].ws \in Stretch(V, b, c)
  BY <1>1
<1>3. t \in Segments(V, a, z)
  BY <1>1, <1>2, SegmentsLike
<1> QED BY <1>1, <1>3 DEF Spoken

\* One label changed.
LEMMA LabelIs ==
    ASSUME NEW V, NEW ss, NEW x \in SameWords(V, ss), NEW i \in 1 .. Len(ss), NEW spk \in V
    PROVE  /\ Label(x, i, spk) \in SameWords(V, ss) /\ Label(x, i, spk)[i].spk = spk
           /\ \A j \in 1 .. Len(ss) : j # i => Label(x, i, spk)[j] = x[j]
<1> DEFINE n == Len(ss)
           r == [x[i] EXCEPT !.spk = spk]
           t == Label(x, i, spk)
<1>1. x \in Seq(Seg(V)) /\ Len(x) = n /\ \A j \in 1 .. n : x[j].ws = ss[j].ws
  BY DEF SameWords
<1>2. i \in 1 .. Len(x) /\ x[i] \in Seg(V)
  BY <1>1, ElementOfSeq
<1>3. r \in Seg(V) /\ r.ws = x[i].ws /\ r.spk = spk
  <2> DEFINE q == x[i]
  <2>1. q \in Seg(V)
    BY <1>2
  <2> HIDE DEF q
  <2>2. [q EXCEPT !.spk = spk] \in Seg(V) /\ [q EXCEPT !.spk = spk].ws = q.ws
        /\ [q EXCEPT !.spk = spk].spk = spk
    BY <2>1 DEF Seg
  <2> QED BY <2>2 DEF q
<1>4. t = [x EXCEPT ![i] = r]
  BY DEF Label
<1> HIDE DEF r, t
<1>5. t \in Seq(Seg(V)) /\ Len(t) = Len(x) /\ t[i] = r /\ \A j \in 1 .. Len(x) : j # i => t[j] = x[j]
  BY <1>1, <1>2, <1>3, <1>4, ExceptSeq
<1>6. \A j \in 1 .. n : t[j].ws = ss[j].ws
  BY <1>1, <1>3, <1>5
<1>7. t \in SameWords(V, ss)
  BY <1>1, <1>5, <1>6 DEF SameWords
<1> QED BY <1>1, <1>3, <1>5, <1>7 DEF t

\* Cases D, E and F name one of those who are there, and not the judge for what
\* is addressed to the bench.
LEMMA Pass2SpeakerIs ==
    ASSUME NEW V, NEW x, NEW i, x[i].spk \in V, NEW rl, RolesIn(rl, V), rl.judge # NoSpeaker
    PROVE  /\ Pass2Speaker(x, i, rl) \in V
           /\ Honorific(x[i]) /\ ~ Authority(x[i]) => Pass2Speaker(x, i, rl) # rl.judge
<1> DEFINE argued == IF x[i].spk = rl.judge /\ Says(x[i].ws, COUNSEL_ARGUMENT) THEN rl.counsel ELSE x[i].spk
           going_on == IF Continues(x, i, rl) THEN rl.judge ELSE argued
<1>1. rl.counsel \in V /\ rl.judge \in V /\ rl.counsel # rl.judge
  BY DEF RolesIn
<1>2. Pass2Speaker(x, i, rl) = IF /\ going_on = rl.judge
                                  /\ Whole(x[i], SHORT_AFFIRMATIONS) \/ (Honorific(x[i]) /\ ~ Inquiry(x[i]))
                               THEN rl.counsel ELSE going_on
  BY Zenon DEF Pass2Speaker
<1>3. going_on \in V
  BY <1>1
<1> HIDE DEF going_on
<1>4. ~ Authority(x[i]) => ~ Inquiry(x[i])
  BY InquiryIsAuthority
<1> QED BY <1>1, <1>2, <1>3, <1>4

\* One step of pass 2: who is addressed in segment i, or in the one before it if
\* its label changes, is not the judge afterwards.
Judged(x, y, ss, i, rl) ==
    /\ \A j \in 1 .. Len(ss) : j # i /\ j # i - 1 => y[j] = x[j]
    /\ Addressed(ss, i) => y[i].spk # rl.judge
    /\ i > 1 => y[i - 1].spk = x[i - 1].spk \/ ~ Addressed(ss, i - 1)

LEMMA Pass2AtIs ==
    ASSUME NEW V, NEW ss, Len(ss) \in Nat, NEW x \in SameWords(V, ss), NEW i \in 1 .. Len(ss),
           NEW rl, RolesIn(rl, V), rl.judge # NoSpeaker
    PROVE  Pass2At(x, i, rl) \in SameWords(V, ss) /\ Judged(x, Pass2At(x, i, rl), ss, i, rl)
<1> DEFINE n == Len(ss)
           y == Pass2At(x, i, rl)
           judge == rl.judge
           first == Label(x, i - 1, judge)
           before == IF AnswersBench(x, i, rl) THEN first ELSE x
           spk == Pass2Speaker(before, i, rl)
<1>1. x \in Seq(Seg(V)) /\ Len(x) = n /\ \A j \in 1 .. n : x[j].ws = ss[j].ws /\ x[j].spk \in V
  BY SegIs, ElementOfSeq DEF SameWords
<1>2. y = IF Authority(x[i]) THEN Label(x, i, judge) ELSE Label(before, i, spk)
  BY Zenon DEF Pass2At
<1>3. judge \in V
  BY DEF RolesIn
<1>4. ASSUME AnswersBench(x, i, rl)
      PROVE  i - 1 \in 1 .. n /\ i > 1 /\ ~ Addressed(ss, i - 1)
  <2>1. i > 1 /\ (~ Honorific(x[i - 1]) \/ Clarifies(x[i]))
    BY <1>4 DEF AnswersBench
  <2>2. i - 1 \in 1 .. n /\ (i - 1) + 1 = i /\ i - 1 < n
    BY <2>1
  <2>3. x[i - 1].ws = ss[i - 1].ws /\ x[i].ws = ss[i].ws
    BY <1>1, <2>2
  <2>4. ~ Honorific(ss[i - 1]) \/ Clarifies(ss[i])
    BY <2>1, <2>3, SameSaid
  <2> QED BY <2>1, <2>2, <2>4 DEF Addressed
<1>5. before \in SameWords(V, ss) /\ before[i].ws = ss[i].ws /\ before[i].spk \in V
      /\ (\A j \in 1 .. n : j # i - 1 => before[j] = x[j])
      /\ (i > 1 => before[i - 1].spk = x[i - 1].spk \/ ~ Addressed(ss, i - 1))
  <2>1. CASE AnswersBench(x, i, rl)
    <3> DEFINE h == i - 1
    <3>1. h \in 1 .. Len(ss) /\ h # i
      BY <1>4, <2>1
    <3> HIDE DEF h
    <3>2. Label(x, h, judge) \in SameWords(V, ss) /\ \A j \in 1 .. n : j # h => Label(x, h, judge)[j] = x[j]
      BY <1>3, <3>1, LabelIs
    <3>3. before = Label(x, h, judge)
      BY <2>1 DEF h
    <3> HIDE DEF before
    <3>4. before[i] = x[i]
      BY <3>1, <3>2, <3>3
    <3> QED BY <1>1, <1>4, <2>1, <3>2, <3>3, <3>4 DEF h
  <2>2. CASE ~ AnswersBench(x, i, rl)
    <3>1. before = x
      BY <2>2
    <3> HIDE DEF before
    <3> QED BY <1>1, <3>1
  <2> QED BY <2>1, <2>2
<1> HIDE DEF before, first, judge
<1>6. CASE Authority(x[i])
  <2>1. y = Label(x, i, judge)
    BY <1>2, <1>6
  <2> HIDE DEF y
  <2>2. y \in SameWords(V, ss) /\ \A j \in 1 .. Len(ss) : j # i => y[j] = x[j]
    BY <1>3, <2>1, LabelIs
  <2>3. ~ Addressed(ss, i)
    BY <1>1, <1>6, SameSaid DEF Addressed
  <2>4. i > 1 => i - 1 \in 1 .. Len(ss) /\ i - 1 # i
    OBVIOUS
  <2>5. Judged(x, y, ss, i, rl)
    BY <2>2, <2>3, <2>4 DEF Judged
  <2> QED BY <2>2, <2>5 DEF y
<1>7. CASE ~ Authority(x[i])
  <2>1. y = Label(before, i, spk)
    BY <1>2, <1>7
  <2> HIDE DEF y
  <2>2. spk \in V /\ (Honorific(before[i]) /\ ~ Authority(before[i]) => spk # judge)
    BY <1>5, Pass2SpeakerIs DEF judge
  <2> HIDE DEF spk
  <2>3. y \in SameWords(V, ss) /\ y[i].spk = spk /\ \A j \in 1 .. Len(ss) : j # i => y[j] = before[j]
    BY <1>5, <2>1, <2>2, LabelIs
  <2>4. Addressed(ss, i) => y[i].spk # judge
    BY <1>5, <2>2, <2>3, SameSaid DEF Addressed
  <2>5. i > 1 => i - 1 \in 1 .. Len(ss) /\ i - 1 # i
    OBVIOUS
  <2>6. \A j \in 1 .. Len(ss) : j # i /\ j # i - 1 => y[j] = x[j]
    BY <1>5, <2>3
  <2>7. i > 1 => y[i - 1].spk = x[i - 1].spk \/ ~ Addressed(ss, i - 1)
    BY <1>5, <2>3, <2>5
  <2>8. Judged(x, y, ss, i, rl)
    BY <2>4, <2>6, <2>7 DEF Judged, judge
  <2> QED BY <2>3, <2>8 DEF y
<1> QED BY <1>6, <1>7

\* Pass 2 keeps all words where they are, and leaves nothing that is addressed to
\* the bench with the judge.
LEMMA Pass2Is ==
    ASSUME NEW V, NEW a \in Int, NEW z \in Int, NEW ss \in Segments(V, a, z),
           NEW rl, RolesIn(rl, V), rl.judge # NoSpeaker
    PROVE  /\ Pass2(ss, rl) \in Segments(V, a, z) /\ (Spoken(ss) => Spoken(Pass2(ss, rl)))
           /\ Pass2(ss, rl) \in SameWords(V, ss)
           /\ \A i \in 1 .. Len(ss) : Addressed(ss, i) => Pass2(ss, rl)[i].spk # rl.judge
<1> DEFINE n == Len(ss)
           T == SameWords(V, ss)
           t == Pass2(ss, rl)
<1>1. ss \in Seq(Seg(V)) /\ n \in Nat /\ ss \in T
  BY SegmentsAre DEF SameWords
<1>2. Pass2Stays(T, ss, rl)
  BY <1>1, Pass2AtIs DEF Pass2Stays
<1>3. \A x \in T : \A i \in 1 .. n : Judged(x, Pass2At(x, i, rl), ss, i, rl)
  BY <1>1, Pass2AtIs
<1>a. ss \in Seq(Seg(V)) /\ ss \in T
  BY <1>1
<1> HIDE DEF T, t
<1>4. PICK g \in [0 .. Len(ss) -> T] :
          /\ g[0] = ss /\ g[Len(ss)] = Pass2(ss, rl)
          /\ \A m \in 1 .. Len(ss) : g[m] = Pass2At(g[m - 1], m, rl)
  BY <1>a, <1>2, Pass2Fold, SMTT(60)
<1> DEFINE S == {m \in 0 .. n : \A i \in 1 .. m : Addressed(ss, i) => g[m][i].spk # rl.judge}
<1> HIDE DEF n
<1>5. 0 \in S
  BY <1>1
<1>6. ASSUME NEW m \in 0 .. n - 1, m \in S PROVE m + 1 \in S
  <2> DEFINE k1 == m + 1
  <2>1. k1 \in 1 .. n /\ k1 - 1 = m /\ m \in 0 .. n /\ k1 \in 0 .. n /\ m \in Nat
    BY <1>1
  <2>2. g[k1] = Pass2At(g[m], k1, rl) /\ g[m] \in T
    BY <1>4, <2>1 DEF n
  <2>3. Judged(g[m], g[k1], ss, k1, rl)
    BY <1>3, <2>1, <2>2
  <2>4. \A i \in 1 .. m : Addressed(ss, i) => g[m][i].spk # rl.judge
    BY <1>6
  <2>5. ASSUME NEW i \in 1 .. k1, Addressed(ss, i) PROVE g[k1][i].spk # rl.judge
    <3>1. CASE i = k1
      BY <2>3, <2>5, <3>1 DEF Judged
    <3>2. CASE i # k1
      <4>1. i \in 1 .. m /\ i \in 1 .. n
        BY <2>1, <3>2, SMTT(30)
      <4>2. g[m][i].spk # rl.judge
        BY <2>4, <2>5, <4>1
      <4>3. CASE i = m
        <5>1. k1 > 1 /\ i = k1 - 1
          BY <2>1, <4>1, <4>3
        <5> QED BY <2>3, <2>5, <4>2, <5>1 DEF Judged
      <4>4. CASE i # m
        <5>1. i # k1 /\ i # k1 - 1 /\ i \in 1 .. Len(ss)
          BY <2>1, <3>2, <4>1, <4>4 DEF n
        <5>2. g[k1][i] = g[m][i]
          BY <2>3, <5>1 DEF Judged
        <5> QED BY <4>2, <5>2
      <4> QED BY <4>3, <4>4
    <3> QED BY <3>1, <3>2
  <2> HIDE DEF k1
  <2>6. k1 \in S
    BY <2>1, <2>5
  <2> QED BY <2>6 DEF k1
<1>7. n \in S
  <2> HIDE DEF S
  <2>1. 0 .. n \subseteq S
    BY <1>1, <1>5, <1>6, InductionUpTo
  <2> QED BY <1>1, <2>1
<1>8. t \in T /\ \A i \in 1 .. n : Addressed(ss, i) => t[i].spk # rl.judge
  <2>1. n \in 0 .. n
    BY <1>1
  <2>2. t = g[n]
    BY <1>4 DEF t, n
  <2> QED BY <1>4, <1>7, <2>1, <2>2 DEF n
<1>9. t \in Segments(V, a, z) /\ (Spoken(ss) => Spoken(t))
  BY <1>8, SameWordsAre DEF T
<1> QED BY <1>8, <1>9 DEF T, t, n
Stitching(h, ss) ==
    LET q == ss
    IN  h = [s \in SUBSET DOMAIN q |->
                IF s = {} THEN <<>> ELSE Stitch(h[s \ {Max(s)}], q[Max(s)])]

\* The same for Stitch.
LEMMA StitchFold ==
    ASSUME NEW ss, NEW U, ss \in Seq(U),
           NEW T, <<>> \in T, \A x \in T : \A i \in 1 .. Len(ss) : Stitch(x, ss[i]) \in T
    PROVE  \E g \in [0 .. Len(ss) -> T] :
               /\ g[0] = <<>> /\ g[Len(ss)] = Consolidate(ss)
               /\ \A m \in 1 .. Len(ss) : g[m] = Stitch(g[m - 1], ss[m])
<1> DEFINE q == ss
           n == Len(ss)
           b == <<>>
           step == [p \in T \X (1 .. n) |-> Stitch(p[1], q[p[2]])]
           f == CHOOSE h : Stitching(h, ss)
<1>1. Consolidate(ss) = f[DOMAIN q]
  BY Zenon DEF Consolidate, FoldLeft, MapThenFoldSet, Stitching
<1>2. n \in Nat /\ DOMAIN q = 1 .. n /\ \A i \in 1 .. n : q[i] = ss[i]
  BY LenProperties
<1> HIDE DEF n, q, b
<1>3. step \in [T \X (1 .. n) -> T] /\ b \in T
  <2>1. \A x \in T : \A i \in 1 .. n : Stitch(x, q[i]) \in T
    BY <1>2 DEF n
  <2> QED BY <2>1 DEF b
<1>4. \A x \in T : \A i \in 1 .. n : step[<<x, i>>] = Stitch(x, q[i])
  OBVIOUS
<1> HIDE DEF step
<1>5. \A s \in SUBSET (1 .. n) : s # {} => Max(s) \in 1 .. n /\ s \ {Max(s)} \in SUBSET (1 .. n)
  BY <1>2, MaxUpTo
<1>6. \E h : Stitching(h, ss)
  <2>1. PICK h \in [SUBSET (1 .. n) -> T] : IsFold(h, n, b, step)
    BY <1>2, <1>3, FoldExists
  <2>2. ASSUME NEW s \in SUBSET (1 .. n), s # {}
        PROVE  h[s] = Stitch(h[s \ {Max(s)}], q[Max(s)])
    <3>1. h[s \ {Max(s)}] \in T /\ Max(s) \in 1 .. n
      BY <1>5, <2>1, <2>2
    <3>2. h[s] = step[<<h[s \ {Max(s)}], Max(s)>>]
      BY <2>1, <2>2, Zenon DEF IsFold
    <3> QED BY <1>4, <3>1, <3>2, Zenon
  <2>3. h[{}] = b
    BY <2>1 DEF IsFold
  <2>4. h = [s \in SUBSET (1 .. n) |-> h[s]]
    BY <2>1
  <2>5. h = [s \in SUBSET (1 .. n) |->
                IF s = {} THEN b ELSE Stitch(h[s \ {Max(s)}], q[Max(s)])]
    BY <2>2, <2>3, <2>4, Zenon
  <2>6. h = [s \in SUBSET DOMAIN q |->
                IF s = {} THEN b ELSE Stitch(h[s \ {Max(s)}], q[Max(s)])]
    BY <1>2, <2>5, Zenon
  <2>7. Stitching(h, ss)
    BY <2>6, Zenon DEF Stitching, q, b
  <2> QED BY <2>7, Zenon
<1>7. f = [s \in SUBSET (1 .. n) |->
              IF s = {} THEN b ELSE Stitch(f[s \ {Max(s)}], q[Max(s)])]
  <2>1. Stitching(f, ss)
    BY <1>6, Zenon
  <2> HIDE DEF f
  <2>2. f = [s \in SUBSET DOMAIN q |->
                IF s = {} THEN b ELSE Stitch(f[s \ {Max(s)}], q[Max(s)])]
    BY <2>1, Zenon DEF Stitching, q, b
  <2> QED BY <1>2, <2>2, Zenon
<1> HIDE DEF f
<1>8. {} \in SUBSET (1 .. n)
  OBVIOUS
<1>9. f[{}] = b
  BY <1>7, <1>8, Zenon
<1>10. ASSUME NEW s \in SUBSET (1 .. n), s # {}, f[s \ {Max(s)}] \in T
       PROVE  f[s] = step[<<f[s \ {Max(s)}], Max(s)>>]
  <2>1. f[s] = Stitch(f[s \ {Max(s)}], q[Max(s)])
    BY <1>7, <1>10, Zenon
  <2> QED BY <1>4, <1>5, <1>10, <2>1, Zenon
<1>11. PICK g \in [0 .. n -> T] : Iterates(g, n, b, step, f[1 .. n])
  <2>1. IsFoldIn(f, n, b, step, T)
    BY <1>9, <1>10, Zenon DEF IsFoldIn
  <2> QED BY <1>2, <1>3, <2>1, FoldValues
<1>12. ASSUME NEW m \in 1 .. n PROVE g[m] = Stitch(g[m - 1], ss[m])
  <2>1. m - 1 \in 0 .. n
    BY <1>2
  <2>2. g[m - 1] \in T /\ g[m] = step[<<g[m - 1], m>>]
    BY <1>11, <2>1 DEF Iterates
  <2> QED BY <1>2, <1>4, <2>2, Zenon
<1>13. g[0] = b /\ g[n] = Consolidate(ss)
  BY <1>1, <1>2, <1>11, Zenon DEF Iterates
<1> QED BY <1>11, <1>12, <1>13, Zenon DEF n, b


-----------------------------------------------------------------------------
(* Consolidation                                                           *)

\* Two segments joined to one.
Joined(r, s) == MkSeg(r.ws \o s.ws, r.spk)

\* A segment with its label on all words.
LEMMA MkSegTyped ==
    ASSUME NEW V, NEW ws \in Seq(Word(V)), NEW spk \in V
    PROVE  MkSeg(ws, spk) \in Seg(V)
<1>1. Relabel(ws, spk) \in Seq(Word(V))
  BY RelabelTyped
<1> QED BY <1>1 DEF MkSeg, Seg

LEMMA JoinedIs ==
    ASSUME NEW V, NEW r \in Seg(V), NEW s \in Seg(V)
    PROVE  /\ Joined(r, s) \in Seg(V) /\ Joined(r, s) = MkSeg(r.ws \o s.ws, r.spk)
           /\ rebuild_seg(s) \in Seg(V) /\ rebuild_seg(s) = MkSeg(s.ws, s.spk)
<1> DEFINE ws == r.ws \o s.ws
           b == r.spk
           x == s.ws
           y == s.spk
<1>1. r.ws \in Seq(Word(V)) /\ x \in Seq(Word(V)) /\ b \in V /\ y \in V
  BY SegIs
<1>2. ws \in Seq(Word(V))
  BY <1>1, ConcatProperties
<1> HIDE DEF ws, b, x, y
<1>3. MkSeg(ws, b) \in Seg(V) /\ MkSeg(x, y) \in Seg(V)
  BY <1>1, <1>2, MkSegTyped
<1> QED BY <1>3 DEF ws, b, x, y, Joined, rebuild_seg

LEMMA StitchMakes ==
    ASSUME NEW acc, NEW s
    PROVE  \/ acc # <<>> /\ Stitch(acc, s) = [acc EXCEPT ![Len(acc)] = Joined(acc[Len(acc)], s)]
           \/ Stitch(acc, s) = Append(acc, rebuild_seg(s))
  BY DEF Stitch, Joined

LEMMA StitchIs ==
    ASSUME NEW V, NEW acc \in Seq(Seg(V)), NEW s \in Seg(V)
    PROVE  Stitch(acc, s) \in Seq(Seg(V))
<1> DEFINE n == Len(acc)
           r == acc[n]
           q == rebuild_seg(s)
<1>1. q \in Seg(V)
  BY JoinedIs
<1>2. CASE acc # <<>> /\ Stitch(acc, s) = [acc EXCEPT ![n] = Joined(r, s)]
  <2>1. n \in 1 .. Len(acc)
    BY <1>2, EmptySeq
  <2>2. r \in Seg(V)
    BY <2>1, ElementOfSeq
  <2> HIDE DEF r, n
  <2>3. Joined(r, s) \in Seg(V)
    BY <2>2, JoinedIs
  <2> DEFINE u == Joined(r, s)
  <2> HIDE DEF u
  <2>4. [acc EXCEPT ![n] = u] \in Seq(Seg(V))
    BY <2>1, <2>3, ExceptSeq DEF u
  <2> QED BY <1>2, <2>4 DEF u
<1>3. CASE Stitch(acc, s) = Append(acc, q)
  <2> HIDE DEF q
  <2> QED BY <1>1, <1>3
<1> QED BY <1>2, <1>3, StitchMakes

LEMMA StitchMore ==
    ASSUME NEW V, NEW a \in Int, NEW b \in Int, NEW z \in Int, NEW acc \in Segments(V, a, b), Spoken(acc),
           NEW s \in Seg(V), s.ws \in Stretch(V, b, z), s.ws # <<>>
    PROVE  Stitch(acc, s) \in Segments(V, a, z) /\ Spoken(Stitch(acc, s))
<1> DEFINE n == Len(acc)
           r == acc[n]
           q == rebuild_seg(s)
           u == Joined(r, s)
           sw == s.ws
           sp == s.spk
<1>1. acc \in Seq(Seg(V)) /\ sp \in V
  BY SegmentsAre, SegIs
<1>2. CASE acc # <<>> /\ Stitch(acc, s) = [acc EXCEPT ![n] = u]
  <2>1. n \in 1 .. Len(acc) /\ Last(acc) = r
    BY <1>1, <1>2, EmptySeq DEF Last
  <2>2. r \in Seg(V) /\ r.ws # <<>> /\ r.spk \in V
    <3>1. r \in Seg(V) /\ r.ws # <<>>
      BY <1>1, <2>1, ElementOfSeq DEF Spoken
    <3> HIDE DEF r
    <3> QED BY <3>1, SegIs
  <2> DEFINE rw == r.ws
             rp == r.spk
             more == rw \o sw
  <2>3. u \in Seg(V) /\ u = MkSeg(more, rp)
    <3>1. r \in Seg(V)
      BY <2>2
    <3> HIDE DEF r
    <3> QED BY <3>1, JoinedIs
  <2>4. rp \in V /\ rw # <<>> /\ sw \in Stretch(V, b, z)
    BY <2>2
  <2>5. \A c \in Int : rw \in Stretch(V, c, b) => u.ws \in Stretch(V, c, z)
    <3> HIDE DEF rw, sw, rp, u
    <3>1. ASSUME NEW c \in Int, rw \in Stretch(V, c, b) PROVE u.ws \in Stretch(V, c, z)
      <4>1. more \in Stretch(V, c, z)
        BY <2>4, <3>1, StretchConcat
      <4> HIDE DEF more
      <4>2. MkSeg(more, rp).ws \in Stretch(V, c, z)
        BY <2>4, <4>1, MkSegIs
      <4> QED BY <2>3, <4>2
    <3> QED BY <3>1
  <2>6. u.ws # <<>>
    <3>1. PICK p : Places(p, acc, V, a, b)
      BY SegmentsAre
    <3>2. n \in 0 .. n /\ n - 1 \in 0 .. n /\ n \in 1 .. n
      BY <2>1
    <3>3. rw \in Stretch(V, p[n - 1], p[n]) /\ p[n - 1] \in Int /\ p[n] = b
      BY <3>1, <3>2, PlacesAre
    <3> DEFINE c == p[n - 1]
    <3>4. rw \in Stretch(V, c, b) /\ c \in Int
      BY <3>3
    <3> HIDE DEF c, rw, u, sw
    <3>5. c < b
      BY <2>4, <3>4, StretchGrows
    <3>6. b < z
      BY StretchGrows DEF sw
    <3>7. u.ws \in Stretch(V, c, z)
      BY <2>5, <3>4
    <3> DEFINE x == u.ws
    <3>8. x \in Stretch(V, c, z) /\ c < z
      BY <3>4, <3>5, <3>6, <3>7
    <3> HIDE DEF x
    <3>9. x # <<>>
      BY <3>4, <3>8, StretchGrows
    <3> QED BY <3>9 DEF x
  <2>7. \A c \in Int : Last(acc).ws \in Stretch(V, c, b) => u.ws \in Stretch(V, c, z)
    BY <2>1, <2>5
  <2> HIDE DEF u, r
  <2>8. [acc EXCEPT ![n] = u] \in Segments(V, a, z)
    BY <1>2, <2>3, <2>7, SegmentsLast
  <2>9. Spoken([acc EXCEPT ![n] = u])
    BY <1>1, <2>1, <2>3, <2>6, SpokenExcept
  <2> QED BY <1>2, <2>8, <2>9
<1>3. CASE Stitch(acc, s) = Append(acc, q)
  <2>1. q \in Seg(V) /\ q = MkSeg(sw, sp)
    BY JoinedIs
  <2>2. sw \in Stretch(V, b, z) /\ sw # <<>>
    OBVIOUS
  <2> HIDE DEF q, sw, sp
  <2>3. q.ws \in Stretch(V, b, z) /\ q.ws # <<>>
    <3>1. MkSeg(sw, sp).ws \in Stretch(V, b, z)
      BY <1>1, <2>2, MkSegIs
    <3>2. MkSeg(sw, sp).ws # <<>>
      BY <1>1, <2>2, MadeSeg
    <3> QED BY <2>1, <3>1, <3>2
  <2>4. Append(acc, q) \in Segments(V, a, z)
    BY <2>1, <2>3, SegmentsAppend
  <2>5. Spoken(Append(acc, q))
    BY <1>1, <2>1, <2>3, SpokenAppend
  <2> QED BY <1>3, <2>4, <2>5
<1> QED BY <1>2, <1>3, StitchMakes

\* Segments joined keep all words in their order.
LEMMA ConsolidatedAre ==
    ASSUME NEW V, NEW a \in Int, NEW z \in Int, NEW ss \in Segments(V, a, z), Spoken(ss)
    PROVE  Consolidate(ss) \in Segments(V, a, z) /\ Spoken(Consolidate(ss))
<1> DEFINE n == Len(ss)
           T == Seq(Seg(V))
<1>1. ss \in T /\ n \in Nat /\ \A i \in 1 .. n : ss[i] \in Seg(V)
  BY SegmentsAre
<1>2. PICK p : Places(p, ss, V, a, z)
  BY SegmentsAre
<1>3. p[0] = a /\ p[n] = z /\ (\A i \in 0 .. n : p[i] \in Int)
      /\ \A i \in 1 .. n : ss[i].ws \in Stretch(V, p[i - 1], p[i])
  BY <1>2, PlacesAre
<1>4. <<>> \in T /\ \A x \in T : \A i \in 1 .. Len(ss) : Stitch(x, ss[i]) \in T
  <2>1. ASSUME NEW x \in T, NEW i \in 1 .. n PROVE Stitch(x, ss[i]) \in T
    <3> DEFINE s == ss[i]
    <3>1. s \in Seg(V)
      BY <1>1
    <3> HIDE DEF s
    <3>2. Stitch(x, s) \in Seq(Seg(V))
      BY <3>1, StitchIs
    <3> QED BY <3>2 DEF s
  <2> QED BY <2>1
<1>a. ss \in Seq(Seg(V))
  BY <1>1
<1> HIDE DEF T
<1>5. PICK g \in [0 .. Len(ss) -> T] :
          /\ g[0] = <<>> /\ g[Len(ss)] = Consolidate(ss)
          /\ \A m \in 1 .. Len(ss) : g[m] = Stitch(g[m - 1], ss[m])
  BY <1>a, <1>4, StitchFold, SMTT(60)
<1> DEFINE S == {m \in 0 .. n : g[m] \in Segments(V, a, p[m]) /\ Spoken(g[m])}
<1>6. 0 \in S
  <2>1. Spoken(<<>>)
    BY DEF Spoken
  <2> QED BY <1>1, <1>3, <1>5, <2>1, SegmentsNone
<1>7. ASSUME NEW m \in 0 .. n - 1, m \in S PROVE m + 1 \in S
  <2> DEFINE i == m + 1
             s == ss[i]
             b == p[m]
             e == p[i]
  <2>1. i \in 1 .. n /\ i \in 0 .. n /\ m \in 0 .. n /\ i - 1 = m
    BY <1>1
  <2>2. g[i] = Stitch(g[m], s) /\ s \in Seg(V) /\ s.ws \in Stretch(V, b, e) /\ s.ws # <<>>
    BY <1>1, <1>3, <1>5, <2>1 DEF Spoken
  <2>3. g[m] \in Segments(V, a, b) /\ Spoken(g[m]) /\ b \in Int /\ e \in Int
    BY <1>3, <1>7, <2>1
  <2> HIDE DEF i, b, e, s, S
  <2>4. g[i] \in Segments(V, a, e) /\ Spoken(g[i])
    BY <2>2, <2>3, StitchMore
  <2> QED BY <2>1, <2>4 DEF i, S, e
<1>8. n \in S
  <2> HIDE DEF S
  <2>1. 0 .. n \subseteq S
    BY <1>1, <1>6, <1>7, InductionUpTo
  <2> QED BY <1>1, <2>1
<1> QED BY <1>3, <1>5, <1>8

-----------------------------------------------------------------------------
(* Stage 3                                                                 *)

\* s is heard in segment First(ss, s) first; t is heard before s.
First(ss, s) == Min(Speaking(ss, s))
HeardBefore(ss, t, s) ==
    \/ Start(ss[First(ss, t)]) < Start(ss[First(ss, s)])
    \/ Start(ss[First(ss, t)]) = Start(ss[First(ss, s)]) /\ First(ss, t) < First(ss, s)

\* There are fewer labels below that of a speaker than speakers.
LEMMA ChronoIs ==
    ASSUME NEW V, NEW ss \in Seq(Seg(V)), Spoken(ss), NEW s \in Voices(ss)
    PROVE  ChronoMap(ss)[s] \in 0 .. Cardinality(Voices(ss)) - 1
<1> DEFINE A == Voices(ss)
           B == {t \in A : HeardBefore(ss, t, s)}
           f == First(ss, s)
<1>1. ChronoMap(ss) = [v \in A |-> Cardinality({t \in A : HeardBefore(ss, t, v)})]
  BY Zenon DEF ChronoMap, Heard, HeardBefore, First, Speaking
<1>2. ChronoMap(ss)[s] = Cardinality(B)
  BY <1>1
<1>3. f \in 1 .. Len(ss)
  <2>1. Speaking(ss, s) \in SUBSET (1 .. Len(ss)) /\ Speaking(ss, s) # {} /\ Len(ss) \in Nat
    BY CountsAre, LenProperties
  <2>2. Min(Speaking(ss, s)) \in Speaking(ss, s)
    BY <2>1, MinUpTo
  <2> QED BY <2>1, <2>2 DEF First
<1>4. Start(ss[f]) \in Int
  <2> DEFINE r == ss[f]
  <2>1. r \in Seg(V) /\ r.ws # <<>>
    BY <1>3, ElementOfSeq DEF Spoken
  <2> HIDE DEF r
  <2>2. Start(r) \in Int
    BY <2>1, TimesAre
  <2> QED BY <2>2 DEF r
<1>5. ~ HeardBefore(ss, s, s)
  <2> DEFINE x == Start(ss[f])
  <2>1. x \in Int /\ f \in Int
    BY <1>3, <1>4
  <2>2. HeardBefore(ss, s, s) <=> x < x \/ (x = x /\ f < f)
    BY DEF HeardBefore
  <2> HIDE DEF x, f
  <2> QED BY <2>1, <2>2
<1>6. B \in SUBSET (A \ {s})
  BY <1>5
<1>7. IsFiniteSet(A)
  BY VoicesAre
<1> HIDE DEF A, B
<1>8. IsFiniteSet(A \ {s}) /\ Cardinality(A \ {s}) = Cardinality(A) - 1
  BY <1>7, FS_RemoveElement DEF A
<1>9. IsFiniteSet(B) /\ Cardinality(B) <= Cardinality(A \ {s})
  BY <1>6, <1>8, FS_Subset
<1>10. Cardinality(A) \in Nat /\ Cardinality(B) \in Nat
  BY <1>7, <1>9, FS_CardinalityType
<1>11. Cardinality(B) \in 0 .. Cardinality(A) - 1
  BY <1>8, <1>9, <1>10
<1> QED BY <1>2, <1>11 DEF A

\* All words of a segment have its label.
OneLabel(r) == \E b, c \in Int : r.ws \in Stretch({r.spk}, b, c)

\* The labels of the transcript are as many as there are speakers, at most, and
\* the words have those of their segments.
LEMMA RenumberIs ==
    ASSUME NEW V, IsFiniteSet(V), NEW a \in Int, NEW z \in Int, NEW ss \in Segments(V, a, z), Spoken(ss)
    PROVE  /\ Renumber(ss) \in Segments(0 .. Cardinality(V) - 1, a, z) /\ Spoken(Renumber(ss))
           /\ Len(Renumber(ss)) = Len(ss)
           /\ \A i \in 1 .. Len(ss) : OneLabel(Renumber(ss)[i])
<1> DEFINE U == 0 .. Cardinality(V) - 1
           n == Len(ss)
           c == ChronoMap(ss)
           t == Renumber(ss)
<1>1. ss \in Seq(Seg(V)) /\ n \in Nat /\ DOMAIN ss = 1 .. n
  BY SegmentsAre
<1>2. Cardinality(Voices(ss)) <= Cardinality(V) /\ Cardinality(V) \in Nat /\ Cardinality(Voices(ss)) \in Nat
  <2>1. Voices(ss) \in SUBSET V
    BY <1>1, VoicesAre
  <2> QED BY <2>1, FS_Subset, FS_CardinalityType
<1>3. \A s \in Voices(ss) : c[s] \in U
  <2>1. \A s \in Voices(ss) : c[s] \in 0 .. Cardinality(Voices(ss)) - 1
    BY <1>1, ChronoIs
  <2> HIDE DEF c
  <2> QED BY <1>2, <2>1
<1>4. \A i \in 1 .. n : ss[i].spk \in Voices(ss)
  BY <1>1, VoicesAre
<1>5. t = [i \in 1 .. n |-> MkSeg(ss[i].ws, c[ss[i].spk])]
  BY <1>1, Zenon DEF Renumber
<1> HIDE DEF c, U
<1>6. \A i \in 1 .. n : c[ss[i].spk] \in U
  BY <1>3, <1>4
<1>7. HandedOver(V, U, ss, t)
  <2>1. \A i \in DOMAIN ss : \E spk \in U : t[i] = MkSeg(ss[i].ws, spk)
    BY <1>1, <1>5, <1>6
  <2>2. t = [i \in DOMAIN ss |-> t[i]]
    BY <1>1, <1>5
  <2> HIDE DEF t
  <2> QED BY <2>1, <2>2 DEF HandedOver
<1>8. t \in Segments(U, a, z) /\ Len(t) = n /\ Spoken(t)
  <2> HIDE DEF t
  <2> QED BY <1>7, HandedOverAre
<1>9. PICK p : Places(p, ss, V, a, z)
  BY SegmentsAre
<1>10. ASSUME NEW i \in 1 .. n PROVE OneLabel(t[i])
  <2> DEFINE ws == ss[i].ws
             l == c[ss[i].spk]
             b == p[i - 1]
             e == p[i]
             r == MkSeg(ws, l)
  <2>1. i - 1 \in 0 .. n /\ i \in 0 .. n
    BY <1>1
  <2>2. ws \in Stretch(V, b, e) /\ b \in Int /\ e \in Int
    BY <1>9, <2>1, PlacesAre
  <2>3. t[i] = r
    BY <1>5
  <2> HIDE DEF ws, l, b, e
  <2>4. r.ws \in Stretch({l}, b, e) /\ r.spk = l
    <3>1. l \in {l}
      OBVIOUS
    <3> QED BY <2>2, <3>1, MkSegIs
  <2> HIDE DEF r
  <2>5. OneLabel(r)
    BY <2>2, <2>4 DEF OneLabel
  <2> QED BY <2>3, <2>5
<1> QED BY <1>8, <1>10 DEF U

\* All of Number.
LEMMA FinishedIs ==
    ASSUME NEW V, IsFiniteSet(V), NEW a \in Int, NEW z \in Int, NEW ss \in Segments(V, a, z), Spoken(ss)
    PROVE  LET t == Normalized(Renumber(Consolidate(ss)))
           IN  /\ t \in Segments(0 .. Cardinality(V) - 1, a, z) /\ Spoken(t)
               /\ \A i \in 1 .. Len(t) : OneLabel(t[i])
<1> DEFINE x == Consolidate(ss)
           y == Renumber(x)
           t == Normalized(y)
           U == 0 .. Cardinality(V) - 1
<1>1. x \in Segments(V, a, z) /\ Spoken(x)
  BY ConsolidatedAre
<1> HIDE DEF x
<1>2. /\ y \in Segments(U, a, z) /\ Spoken(y) /\ Len(y) = Len(x) /\ \A i \in 1 .. Len(x) : OneLabel(y[i])
  BY <1>1, RenumberIs
<1> HIDE DEF y, U
<1>3. /\ t \in Segments(U, a, z) /\ Len(t) = Len(y) /\ Spoken(t)
      /\ \A i \in 1 .. Len(y) : t[i].spk = y[i].spk /\ t[i].ws = normalize_segment(y[i].ws)
  BY <1>2, NormalizedAre
<1>4. ASSUME NEW i \in 1 .. Len(y) PROVE OneLabel(t[i])
  <2> DEFINE W == {y[i].spk}
             ws == y[i].ws
  <2>1. PICK b \in Int, c \in Int : y[i].ws \in Stretch({y[i].spk}, b, c)
    BY <1>2, <1>4 DEF OneLabel
  <2>2. ws \in Stretch(W, b, c)
    BY <2>1
  <2>3. t[i].ws = normalize_segment(ws) /\ W = {t[i].spk}
    BY <1>3
  <2> HIDE DEF W, ws, t
  <2>4. t[i].ws \in Stretch(W, b, c)
    BY <2>2, <2>3, NormalizedIs
  <2> QED BY <2>3, <2>4 DEF OneLabel
<1> QED BY <1>3, <1>4 DEF t, y, x, U

\* What one speaker says is labelled as that speaker's.
LEMMA OneLabelIs ==
    ASSUME NEW r, OneLabel(r), NEW w \in ToSet(r.ws)
    PROVE  w.spk = r.spk
<1> DEFINE x == r.ws
           W == {r.spk}
<1>1. PICK b \in Int, c \in Int : x \in Stretch(W, b, c)
  BY DEF OneLabel
<1>2. PICK j \in DOMAIN x : w = x[j]
  BY DEF ToSet
<1> HIDE DEF x, W
<1>3. DOMAIN x = 1 .. Len(x) /\ \A m \in 1 .. Len(x) : x[m] \in Word(W)
  BY <1>1, StretchIs
<1>4. w \in Word(W)
  BY <1>2, <1>3
<1>5. w.spk \in W
  BY <1>4, WordIs
<1> QED BY <1>5 DEF W

-----------------------------------------------------------------------------
(* What comes in                                                           *)

\* How far the words of the first n segments of t reach.
Told(t, n) == 10 * Len(WordsUpTo(t, n))

LEMMA ToldIs ==
    ASSUME NEW t \in Transcripts
    PROVE  Len(t) \in Nat /\ Told(t, 0) = 0 /\ \A n \in 0 .. Len(t) : Told(t, n) \in Nat
<1>1. Len(t) \in Nat
  <2>1. t \in Seq([spk : Nat, ws : Seq(WordsBy(Nat \cup {NoSpeaker}))])
    BY TranscriptsAssumption
  <2> QED BY <2>1
<1>2. Len(WordsUpTo(t, 0)) = 0
  <2> DEFINE x == [i \in 1 .. 0 |-> t[i].ws]
  <2>1. x \in [1 .. 0 -> {}]
    OBVIOUS
  <2>2. x \in Seq({}) /\ Len(x) = 0
    BY <2>1, MappingIsSeq
  <2> HIDE DEF x
  <2>3. x = <<>>
    BY <2>2, EmptySeq
  <2>4. FlattenSeq(x) = x
    BY <2>3 DEF FlattenSeq
  <2> QED BY <2>2, <2>4 DEF WordsUpTo, x
<1>3. ASSUME NEW n \in 1 .. Len(t) PROVE Len(WordsUpTo(t, n)) \in Nat
  <2> DEFINE x == Len(t[n].ws)
             y == Len(WordsUpTo(t, n - 1))
             now == Len(WordsUpTo(t, n))
  <2>1. x \in Nat /\ y \in Nat /\ now = y + x
    BY TranscriptsAre
  <2> HIDE DEF x, y, now
  <2>2. now \in Nat
    BY <2>1
  <2> QED BY <2>2 DEF now
<1>4. ASSUME NEW n \in 0 .. Len(t) PROVE Told(t, n) \in Nat
  <2>1. n = 0 \/ n \in 1 .. Len(t)
    BY <1>1
  <2>2. Len(WordsUpTo(t, n)) \in Nat
    BY <1>2, <1>3, <2>1
  <2> QED BY <2>2 DEF Told
<1> QED BY <1>1, <1>2, <1>4 DEF Told

\* Finitely many speakers come in, each with a number.
LEMMA CameIs ==
    ASSUME NEW t \in Transcripts
    PROVE  Came(t) \subseteq Nat /\ IsFiniteSet(Came(t))
<1> DEFINE W == WordsBy(Nat \cup {NoSpeaker})
           n == Len(t)
           By(i) == {w.spk : w \in ToSet(t[i].ws)}
           All == {By(i) : i \in DOMAIN t}
<1>1. t \in Seq([spk : Nat, ws : Seq(W)])
  BY TranscriptsAssumption
<1>3. \A w \in W : w.spk \in Nat \cup {NoSpeaker}
  BY DEF WordsBy
<1> HIDE DEF W
<1>2. n \in Nat /\ DOMAIN t = 1 .. n /\ \A i \in 1 .. n : t[i].spk \in Nat /\ t[i].ws \in Seq(W)
  <2>1. \A i \in 1 .. n : t[i] \in [spk : Nat, ws : Seq(W)]
    BY <1>1, ElementOfSeq
  <2> QED BY <1>1, <2>1, LenProperties
<1>4. ASSUME NEW i \in DOMAIN t PROVE IsFiniteSet(By(i)) /\ By(i) \subseteq Nat \cup {NoSpeaker}
  <2> DEFINE ws == t[i].ws
             f == [j \in 1 .. Len(ws) |-> ws[j].spk]
             B == By(i)
  <2>1. ws \in Seq(W)
    BY <1>2, <1>4
  <2> HIDE DEF ws
  <2>2. Len(ws) \in Nat /\ DOMAIN ws = 1 .. Len(ws) /\ \A j \in 1 .. Len(ws) : ws[j] \in W
    BY <2>1, LenProperties, ElementOfSeq
  <2>3. B = {w.spk : w \in ToSet(ws)}
    BY DEF ws
  <2>4. ToSet(ws) = {ws[j] : j \in 1 .. Len(ws)}
    BY <2>2 DEF ToSet
  <2>5. \A s \in B : \E j \in 1 .. Len(ws) : ws[j].spk = s
    BY <2>3, <2>4
  <2>6. \A j \in 1 .. Len(ws) : ws[j].spk \in B
    BY <2>3, <2>4
  <2> HIDE DEF B
  <2>7. f \in [1 .. Len(ws) -> B] /\ \A s \in B : \E j \in 1 .. Len(ws) : f[j] = s
    BY <2>5, <2>6
  <2> HIDE DEF f
  <2>8. IsFiniteSet(B)
    BY <2>2, <2>7, NumberedFinite
  <2>9. B \subseteq Nat \cup {NoSpeaker}
    BY <1>3, <2>2, <2>5
  <2> QED BY <2>8, <2>9 DEF B
<1> HIDE DEF By
<1>5. IsFiniteSet(All)
  <2> DEFINE f == [i \in 1 .. n |-> By(i)]
  <2>1. f \in [1 .. n -> All] /\ \A x \in All : \E i \in 1 .. n : f[i] = x
    BY <1>2
  <2> HIDE DEF f, All, n
  <2> QED BY <1>2, <2>1, NumberedFinite
<1>6. IsFiniteSet(UNION All)
  <2>1. \A x \in All : IsFiniteSet(x)
    BY <1>4
  <2> HIDE DEF All
  <2> QED BY <1>5, <2>1, FS_UNION
<1>7. IsFiniteSet(Voices(t)) /\ Voices(t) \subseteq Nat
  <2> DEFINE f == [i \in 1 .. n |-> t[i].spk]
             X == Voices(t)
  <2>1. X = {t[i].spk : i \in 1 .. n}
    BY <1>2 DEF Voices
  <2>2. f \in [1 .. n -> X] /\ \A s \in X : \E i \in 1 .. n : f[i] = s
    BY <2>1
  <2>3. X \subseteq Nat
    BY <1>2, <2>1
  <2> HIDE DEF f, X, n
  <2>4. IsFiniteSet(X)
    BY <1>2, <2>2, NumberedFinite
  <2> QED BY <2>3, <2>4 DEF X
<1>8. Came(t) = (Voices(t) \cup UNION All) \ {NoSpeaker}
  BY DEF Came, By
<1>9. UNION All \subseteq Nat \cup {NoSpeaker}
  BY <1>4
<1> HIDE DEF All
<1>10. IsFiniteSet(Voices(t) \cup UNION All)
  BY <1>6, <1>7, FS_Union
<1>11. IsFiniteSet((Voices(t) \cup UNION All) \ {NoSpeaker})
  BY <1>10, FS_RemoveElement
<1> QED BY <1>7, <1>8, <1>9, <1>11

-----------------------------------------------------------------------------
(* The invariant                                                           *)

\* Who may be a speaker of the segments.
Cast == LeftOf(Came(raw), roles, limit)

\* Segment i is addressed to the bench and not the judge's.
NotToTheJudge(ss, judge) == \A i \in 1 .. Len(ss) : Addressed(ss, i) => ss[i].spk # judge

\* While segments are split: the segments so far have the words of what was taken,
\* the runs those of the segment being split.
Splitting ==
    pc \in {"split", "smooth"} =>
        /\ roles.judge = NoSpeaker
        /\ segs \in Segments(Came(raw), 0, Told(raw, k - 1)) /\ Spoken(segs)
        /\ IF pc = "smooth"
           THEN /\ k <= Len(raw)
                /\ runs \in Segments(Came(raw), Told(raw, k - 1), Told(raw, k)) /\ Spoken(runs)
           ELSE runs = <<>>

\* From then on: the segments have all words, of those who are left.
Passing ==
    pc \in {"roles", "embedded", "whole", "heal", "sandwich", "number"} =>
        /\ segs \in Segments(Cast, 0, Told(raw, Len(raw))) /\ Spoken(segs)
        /\ pc = "roles" => segs # <<>> /\ roles.judge = NoSpeaker
        /\ pc \in {"embedded", "whole"} => roles.judge # NoSpeaker
        /\ pc = "number" /\ roles.judge # NoSpeaker => NotToTheJudge(segs, roles.judge)

\* In the end the labels are numbers, as many as there are speakers at most.
Finished ==
    pc = "done" =>
        /\ segs \in Segments(0 .. Cardinality(Cast) - 1, 0, Told(raw, Len(raw))) /\ Spoken(segs)
        /\ \A i \in 1 .. Len(segs) : OneLabel(segs[i])

TurnsInv ==
    /\ raw \in Transcripts /\ pc \in Stages \ {"idle"}
    /\ k \in 1 .. Len(raw) + 1 /\ iter \in 0 .. 3 /\ (pc = "embedded" => iter < 3)
    /\ pc # "smooth" => runs = <<>>
    /\ pc \notin {"split", "smooth"} => k = Len(raw) + 1
    /\ pc \in {"split", "smooth", "roles"} => iter = 0
    /\ roles.judge # NoSpeaker => RolesIn(roles, Came(raw))
    /\ Splitting /\ Passing /\ Finished

\* Without a judge nobody has gone.
LEMMA AllAreLeft ==
    ASSUME roles.judge = NoSpeaker
    PROVE  Cast = Came(raw)
  BY DEF Cast, LeftOf

\* Those who have a role are left.
LEMMA RolesLeft ==
    ASSUME TurnsInv, roles.judge # NoSpeaker
    PROVE  RolesIn(roles, Cast) /\ Cast \subseteq Came(raw)
<1>1. RolesIn(roles, Came(raw))
  BY DEF TurnsInv
<1> QED BY <1>1 DEF RolesIn, Cast, LeftOf

LEMMA InitEstablishes ==
    ASSUME TurnsInit
    PROVE  TurnsInv
<1>1. /\ raw \in Transcripts /\ pc = "split" /\ k = 1 /\ iter = 0 /\ runs = <<>> /\ segs = <<>>
      /\ roles.judge = NoSpeaker
  BY DEF TurnsInit, NoRoles
<1>2. Len(raw) \in Nat /\ Told(raw, 0) = 0
  BY <1>1, ToldIs
<1>3. <<>> \in Segments(Came(raw), 0, 0) /\ Spoken(<<>>)
  BY SegmentsNone DEF Spoken
<1>4. Splitting
  BY <1>1, <1>2, <1>3 DEF Splitting
<1>5. Passing /\ Finished
  BY <1>1 DEF Passing, Finished
<1> QED BY <1>1, <1>2, <1>4, <1>5 DEF TurnsInv, Stages

LEMMA SplitSegmentKeeps ==
    ASSUME TurnsInv, SplitSegment
    PROVE  TurnsInv'
<1> DEFINE V == Came(raw)
           a == Told(raw, k - 1)
           z == Told(raw, k)
           w == CleanWords(raw[k])
<1>1. /\ raw \in Transcripts /\ pc = "split" /\ k \in 1 .. Len(raw) + 1 /\ k <= Len(raw) /\ iter = 0
      /\ roles.judge = NoSpeaker
      /\ segs \in Segments(V, 0, a) /\ Spoken(segs)
      /\ runs' = Isolate(Group(Snap(w))) /\ pc' = "smooth"
      /\ UNCHANGED <<raw, limit, k, segs, roles, iter>>
  BY DEF TurnsInv, Splitting, SplitSegment
<1>2. k \in 1 .. Len(raw) /\ k \in 0 .. Len(raw) /\ k - 1 \in 0 .. Len(raw) /\ Len(raw) \in Nat
  BY <1>1, ToldIs
<1>3. a \in Int /\ z \in Int
  BY <1>1, <1>2, ToldIs
<1>4. w \in Stretch(V, a, z)
  BY <1>1, <1>2, CleanWordsIs DEF Told
<1> HIDE DEF V, a, z, w
<1>5. Snap(w) \in Stretch(V, a, z)
  BY <1>3, <1>4, SnapIs
<1> DEFINE s == Snap(w)
<1> HIDE DEF s
<1>6. Group(s) \in Segments(V, a, z) /\ Spoken(Group(s))
  BY <1>3, <1>5, GroupIs DEF s
<1> DEFINE g == Group(s)
<1> HIDE DEF g
<1>7. Isolate(g) \in Segments(V, a, z) /\ Spoken(Isolate(g))
  BY <1>3, <1>6, IsolateIs DEF g
<1>8. runs' \in Segments(V, a, z) /\ Spoken(runs')
  BY <1>1, <1>7 DEF g, s
<1>9. Splitting'
  BY <1>1, <1>2, <1>8 DEF Splitting, V, a, z
<1>10. Passing' /\ Finished'
  BY <1>1 DEF Passing, Finished
<1> QED BY <1>1, <1>2, <1>9, <1>10 DEF TurnsInv, Stages

LEMMA SmoothRunsKeeps ==
    ASSUME TurnsInv, SmoothRuns
    PROVE  TurnsInv'
<1> DEFINE V == Came(raw)
           a == Told(raw, k - 1)
           z == Told(raw, k)
<1>1. /\ raw \in Transcripts /\ pc = "smooth" /\ k \in 1 .. Len(raw) + 1 /\ k <= Len(raw) /\ iter = 0
      /\ roles.judge = NoSpeaker
      /\ segs \in Segments(V, 0, a) /\ Spoken(segs)
      /\ runs \in Segments(V, a, z) /\ Spoken(runs)
      /\ runs' = MergeRuns(SmoothPass(runs).new)
      /\ UNCHANGED <<pc, raw, limit, k, segs, roles, iter>>
  BY DEF TurnsInv, Splitting, SmoothRuns
<1>2. k \in 1 .. Len(raw) /\ k \in 0 .. Len(raw) /\ k - 1 \in 0 .. Len(raw) /\ Len(raw) \in Nat
  BY <1>1, ToldIs
<1>3. a \in Int /\ z \in Int
  BY <1>1, <1>2, ToldIs
<1> HIDE DEF V, a, z
<1>4. runs' \in Segments(V, a, z) /\ Spoken(runs')
  BY <1>1, <1>3, RoundIs
<1>5. Splitting'
  BY <1>1, <1>2, <1>4 DEF Splitting, V, a, z
<1>6. Passing' /\ Finished'
  BY <1>1 DEF Passing, Finished
<1> QED BY <1>1, <1>2, <1>5, <1>6 DEF TurnsInv, Stages

\* A segment that is one run is rebuilt.
LEMMA RebuiltIs ==
    ASSUME NEW V, NEW a \in Int, NEW z \in Int, NEW rs \in Segments(V, a, z), Spoken(rs), Len(rs) = 1
    PROVE  <<rebuild_seg(rs[1])>> \in Segments(V, a, z) /\ Spoken(<<rebuild_seg(rs[1])>>)
<1> DEFINE r == rs[1]
           ws == r.ws
           s == r.spk
           t == <<MkSeg(ws, s)>>
<1>1. PICK p : Places(p, rs, V, a, z)
  BY SegmentsAre
<1>2. 1 \in 1 .. Len(rs) /\ 1 - 1 = 0 /\ 1 = Len(rs) /\ rs \in Seq(Seg(V))
  BY SegmentsAre
<1>3. ws \in Stretch(V, a, z)
  <2>1. p[0] = a /\ p[Len(rs)] = z /\ rs[1].ws \in Stretch(V, p[1 - 1], p[1])
    BY <1>1, <1>2, PlacesAre
  <2> QED BY <1>2, <2>1
<1>4. r \in Seg(V) /\ ws # <<>>
  BY <1>2, ElementOfSeq DEF Spoken
<1>5. s \in V
  <2> HIDE DEF r
  <2> QED BY <1>4, SegIs
<1>6. <<rebuild_seg(rs[1])>> = t
  BY DEF rebuild_seg
<1> HIDE DEF ws, s
<1> DEFINE q == MkSeg(ws, s)
<1>7. q \in Seg(V) /\ q.ws \in Stretch(V, a, z) /\ q.ws # <<>>
  BY <1>3, <1>4, <1>5, MadeSeg
<1>8. t = <<q>>
  OBVIOUS
<1> HIDE DEF q, t
<1>9. t = Append(<<>>, q) /\ <<>> \in Segments(V, a, a) /\ Spoken(<<>>) /\ <<>> \in Seq(Seg(V))
  BY <1>8, SegmentsNone DEF Spoken
<1>10. Append(<<>>, q) \in Segments(V, a, z)
  BY <1>7, <1>9, SegmentsAppend
<1>11. Spoken(Append(<<>>, q))
  BY <1>7, <1>9, SpokenAppend
<1> QED BY <1>6, <1>9, <1>10, <1>11

LEMMA KeepRunsKeeps ==
    ASSUME TurnsInv, KeepRuns
    PROVE  TurnsInv'
<1> DEFINE V == Came(raw)
           a == Told(raw, k - 1)
           z == Told(raw, k)
           one == <<rebuild_seg(runs[1])>>
           more == IF Len(runs) = 1 THEN one ELSE runs
<1>1. /\ raw \in Transcripts /\ pc = "smooth" /\ k \in 1 .. Len(raw) + 1 /\ k <= Len(raw) /\ iter = 0
      /\ roles.judge = NoSpeaker
      /\ segs \in Segments(V, 0, a) /\ Spoken(segs)
      /\ runs \in Segments(V, a, z) /\ Spoken(runs)
      /\ segs' = segs \o more /\ runs' = <<>> /\ k' = k + 1 /\ pc' = "split"
      /\ UNCHANGED <<raw, limit, roles, iter>>
  BY DEF TurnsInv, Splitting, KeepRuns
<1>2. /\ k \in 1 .. Len(raw) /\ k \in 0 .. Len(raw) /\ k - 1 \in 0 .. Len(raw) /\ Len(raw) \in Nat
      /\ k' - 1 = k /\ k' \in 1 .. Len(raw) + 1
  BY <1>1, ToldIs
<1>3. a \in Int /\ z \in Int
  BY <1>1, <1>2, ToldIs
<1> HIDE DEF V, a, z, one
<1>4. more \in Segments(V, a, z) /\ Spoken(more)
  <2>1. CASE Len(runs) = 1
    <3>1. one \in Segments(V, a, z) /\ Spoken(one)
      BY <1>1, <1>3, <2>1, RebuiltIs DEF one
    <3> QED BY <2>1, <3>1
  <2>2. CASE Len(runs) # 1
    BY <1>1, <2>2
  <2> QED BY <2>1, <2>2
<1> HIDE DEF more
<1>5. segs \o more \in Segments(V, 0, z)
  BY <1>1, <1>3, <1>4, SegmentsConcat
<1>6. Spoken(segs \o more)
  <2>1. segs \in Seq(Seg(V)) /\ more \in Seq(Seg(V))
    BY <1>1, <1>4, SegmentsAre
  <2> QED BY <1>1, <1>4, <2>1, SpokenConcat
<1>7. segs' \in Segments(V, 0, z) /\ Spoken(segs')
  BY <1>1, <1>5, <1>6
<1>8. Splitting'
  BY <1>1, <1>2, <1>7 DEF Splitting, V, z
<1>9. Passing' /\ Finished'
  BY <1>1 DEF Passing, Finished
<1> QED BY <1>1, <1>2, <1>8, <1>9 DEF TurnsInv, Stages

\* The last segment has been taken.
LEMMA AllTaken ==
    ASSUME TurnsInv, pc = "split", k > Len(raw)
    PROVE  /\ raw \in Transcripts /\ k = Len(raw) + 1 /\ iter = 0 /\ runs = <<>> /\ roles.judge = NoSpeaker
           /\ segs \in Segments(Came(raw), 0, Told(raw, Len(raw))) /\ Spoken(segs)
           /\ Told(raw, Len(raw)) \in Nat
<1>1. raw \in Transcripts /\ k \in 1 .. Len(raw) + 1 /\ iter = 0 /\ runs = <<>> /\ roles.judge = NoSpeaker
      /\ segs \in Segments(Came(raw), 0, Told(raw, k - 1)) /\ Spoken(segs)
  BY DEF TurnsInv, Splitting
<1>2. Len(raw) \in Nat /\ Told(raw, Len(raw)) \in Nat
  BY <1>1, ToldIs
<1>3. k = Len(raw) + 1 /\ k - 1 = Len(raw)
  BY <1>1, <1>2
<1> QED BY <1>1, <1>2, <1>3

LEMMA RegroupKeeps ==
    ASSUME TurnsInv, Regroup
    PROVE  TurnsInv'
<1> DEFINE V == Came(raw)
           z == Told(raw, Len(raw))
<1>1. /\ raw \in Transcripts /\ k = Len(raw) + 1 /\ iter = 0 /\ runs = <<>> /\ roles.judge = NoSpeaker
      /\ segs \in Segments(V, 0, z) /\ Spoken(segs) /\ z \in Nat
  BY AllTaken DEF Regroup
<1>2. /\ segs # <<>> /\ pc' = "roles"
      /\ segs' = Normalized(FoldLeft(RegroupWord, <<>>, normalize_word_stream(Flat(Numbered(segs)))))
      /\ UNCHANGED <<raw, limit, k, runs, roles, iter>>
  BY DEF Regroup
<1> HIDE DEF V, z
<1>3. segs' \in Segments(V, 0, z) /\ Spoken(segs')
  BY <1>1, <1>2, RegroupIs
<1>4. segs' # <<>>
  <2>1. 0 < z
    BY <1>1, <1>2, SegmentsGrow
  <2> DEFINE t == segs'
  <2>2. t \in Segments(V, 0, z) /\ Spoken(t)
    BY <1>3
  <2> HIDE DEF t
  <2>3. t # <<>>
    BY <1>1, <2>1, <2>2, SegmentsGrow
  <2> QED BY <2>3 DEF t
<1>5. Cast' = V
  BY <1>1, <1>2 DEF Cast, LeftOf, V
<1>6. Passing'
  BY <1>1, <1>2, <1>3, <1>4, <1>5 DEF Passing, z
<1>7. Splitting' /\ Finished'
  BY <1>2 DEF Splitting, Finished
<1>8. Len(raw) \in Nat
  BY <1>1, ToldIs
<1> QED BY <1>1, <1>2, <1>6, <1>7, <1>8 DEF TurnsInv, Stages

LEMMA NothingSaidKeeps ==
    ASSUME TurnsInv, NothingSaid
    PROVE  TurnsInv'
<1> DEFINE z == Told(raw, Len(raw))
           U == 0 .. Cardinality(Cast) - 1
<1>1. /\ raw \in Transcripts /\ k = Len(raw) + 1 /\ iter = 0 /\ runs = <<>> /\ roles.judge = NoSpeaker
      /\ segs \in Segments(Came(raw), 0, z) /\ Spoken(segs) /\ z \in Nat
  BY AllTaken DEF NothingSaid
<1>2. segs = <<>> /\ pc' = "done" /\ UNCHANGED <<raw, limit, k, runs, segs, roles, iter>>
  BY DEF NothingSaid
<1> HIDE DEF z
<1>3. z = 0
  BY <1>1, <1>2, SegmentsGrow
<1>4. <<>> \in Segments(U, 0, 0)
  <2> HIDE DEF U
  <2> QED BY SegmentsNone
<1>5. Cast' = Cast
  BY <1>2 DEF Cast
<1>6. Finished'
  BY <1>1, <1>2, <1>3, <1>4, <1>5 DEF Finished, z
<1>7. Splitting' /\ Passing'
  BY <1>2 DEF Splitting, Passing
<1>8. Len(raw) \in Nat
  BY <1>1, ToldIs
<1> QED BY <1>1, <1>2, <1>6, <1>7, <1>8 DEF TurnsInv, Stages

LEMMA DiscoverRolesKeeps ==
    ASSUME TurnsInv, DiscoverRoles
    PROVE  TurnsInv'
<1> DEFINE V == Came(raw)
           z == Told(raw, Len(raw))
           rl == RolesOf(segs)
<1>1. /\ raw \in Transcripts /\ k = Len(raw) + 1 /\ iter = 0 /\ runs = <<>> /\ roles.judge = NoSpeaker
      /\ segs \in Segments(Cast, 0, z) /\ Spoken(segs) /\ segs # <<>>
  BY DEF TurnsInv, Passing, DiscoverRoles
<1>2. /\ roles' = rl /\ segs' = Prune(segs, rl, limit)
      /\ pc' = (IF rl.judge = NoSpeaker THEN "heal" ELSE "embedded")
      /\ UNCHANGED <<raw, limit, k, runs, iter>>
  BY Zenon DEF DiscoverRoles
<1>3. Len(raw) \in Nat /\ z \in Nat
  BY <1>1, ToldIs
<1>4. segs \in Segments(V, 0, z)
  BY <1>1, AllAreLeft
<1>5. Cast' = LeftOf(V, rl, limit)
  BY <1>2 DEF Cast
<1> HIDE DEF V, z, rl
<1>6. /\ Prune(segs, rl, limit) \in Segments(LeftOf(V, rl, limit), 0, z) /\ Spoken(Prune(segs, rl, limit))
  BY <1>1, <1>3, <1>4, PruneIs DEF rl
<1>7. RolesIn(rl, V)
  <2>1. segs \in Seq(Seg(V))
    BY <1>4, SegmentsAre
  <2>2. RolesIn(rl, Voices(segs)) /\ Voices(segs) \subseteq V
    BY <1>1, <2>1, RolesAre, VoicesAre DEF rl
  <2> QED BY <2>2 DEF RolesIn
<1>8. segs' \in Segments(Cast', 0, z) /\ Spoken(segs') /\ RolesIn(roles', Came(raw)')
  BY <1>2, <1>5, <1>6, <1>7 DEF V
<1>9. Passing'
  BY <1>2, <1>8 DEF Passing, z
<1>10. Splitting' /\ Finished'
  BY <1>2 DEF Splitting, Finished
<1>11. pc' \in {"heal", "embedded"}
  BY <1>2
<1> QED BY <1>1, <1>2, <1>3, <1>8, <1>9, <1>10, <1>11 DEF TurnsInv, Stages

\* What is known when a pass begins.
LEMMA PassBegins ==
    ASSUME TurnsInv, pc \in {"embedded", "whole", "heal", "sandwich", "number"}
    PROVE  /\ raw \in Transcripts /\ k = Len(raw) + 1 /\ iter \in 0 .. 3 /\ runs = <<>>
           /\ Len(raw) \in Nat /\ Told(raw, Len(raw)) \in Int /\ k \in 1 .. Len(raw) + 1
           /\ segs \in Segments(Cast, 0, Told(raw, Len(raw))) /\ Spoken(segs)
           /\ (pc = "embedded" => iter < 3) /\ (pc \in {"embedded", "whole"} => roles.judge # NoSpeaker)
           /\ roles.judge # NoSpeaker => RolesIn(roles, Cast)
<1>1. /\ raw \in Transcripts /\ k = Len(raw) + 1 /\ iter \in 0 .. 3 /\ runs = <<>>
      /\ segs \in Segments(Cast, 0, Told(raw, Len(raw))) /\ Spoken(segs)
      /\ (pc = "embedded" => iter < 3) /\ (pc \in {"embedded", "whole"} => roles.judge # NoSpeaker)
  BY DEF TurnsInv, Passing
<1>2. roles.judge # NoSpeaker => RolesIn(roles, Cast)
  BY RolesLeft
<1>3. Len(raw) \in Nat /\ Told(raw, Len(raw)) \in Nat
  BY <1>1, ToldIs
<1> QED BY <1>1, <1>3, <1>2

\* A pass that keeps the words leads to a stage of the passes.
LEMMA PassEnds ==
    ASSUME TurnsInv, pc \in {"embedded", "whole", "heal", "sandwich"},
           UNCHANGED <<raw, limit, k, runs, roles>>, iter' \in 0 .. 3,
           pc' \in {"embedded", "whole", "heal", "sandwich", "number"},
           pc' = "embedded" => iter' < 3, pc' \in {"embedded", "whole"} => roles.judge # NoSpeaker,
           segs' \in Segments(Cast, 0, Told(raw, Len(raw))), Spoken(segs'),
           pc' = "number" /\ roles.judge # NoSpeaker => NotToTheJudge(segs', roles.judge)
    PROVE  TurnsInv'
<1>1. Cast' = Cast
  BY DEF Cast
<1>2. Passing'
  BY <1>1 DEF Passing
<1>3. Splitting' /\ Finished'
  BY DEF Splitting, Finished
<1>4. roles'.judge # NoSpeaker => RolesIn(roles', Came(raw)')
  BY DEF TurnsInv
<1> QED BY <1>1, <1>2, <1>3, <1>4, PassBegins DEF TurnsInv, Stages

LEMMA SplitFormulasKeeps ==
    ASSUME TurnsInv, SplitFormulas
    PROVE  TurnsInv'
<1> DEFINE V == Cast
           z == Told(raw, Len(raw))
<1>1. /\ pc = "embedded" /\ segs' = Pass1C(segs, roles) /\ iter' = iter + 1
      /\ pc' = (IF iter' = 3 \/ segs' = segs THEN "whole" ELSE pc)
      /\ UNCHANGED <<raw, limit, k, runs, roles>>
  BY DEF SplitFormulas
<1>2. /\ z \in Int /\ segs \in Segments(V, 0, z) /\ Spoken(segs) /\ iter \in 0 .. 3 /\ iter < 3
      /\ roles.judge # NoSpeaker /\ RolesIn(roles, V)
  BY <1>1, PassBegins
<1> HIDE DEF V, z
<1>3. segs' \in Segments(V, 0, z) /\ Spoken(segs')
  BY <1>1, <1>2, Pass1CIs
<1>4. iter' \in 0 .. 3 /\ pc' \in {"embedded", "whole"} /\ (pc' = "embedded" => iter' < 3)
  BY <1>1, <1>2
<1> QED BY <1>1, <1>2, <1>3, <1>4, PassEnds DEF V, z

LEMMA WholeSegmentsKeeps ==
    ASSUME TurnsInv, WholeSegments
    PROVE  TurnsInv'
<1> DEFINE V == Cast
           z == Told(raw, Len(raw))
           x == Pass1(segs, roles)
<1>1. /\ pc = "whole" /\ segs' = Pass1B(x, roles) /\ pc' = "heal"
      /\ UNCHANGED <<raw, limit, k, runs, roles, iter>>
  BY DEF WholeSegments
<1>2. /\ z \in Int /\ segs \in Segments(V, 0, z) /\ Spoken(segs) /\ iter \in 0 .. 3
      /\ roles.judge # NoSpeaker /\ RolesIn(roles, V)
  BY <1>1, PassBegins
<1> HIDE DEF V, z
<1>3. x \in Segments(V, 0, z) /\ Spoken(x)
  BY <1>2, Pass1Is
<1> HIDE DEF x
<1>4. segs' \in Segments(V, 0, z) /\ Spoken(segs')
  BY <1>1, <1>2, <1>3, Pass1BIs
<1> QED BY <1>1, <1>2, <1>4, PassEnds DEF V, z

LEMMA HealKeeps ==
    ASSUME TurnsInv, Heal
    PROVE  TurnsInv'
<1> DEFINE V == Cast
           z == Told(raw, Len(raw))
           w == run_pass_1e(segs, roles)
           x == Pass1D(w)
           y == NonEmpty(x)
<1>1. /\ pc = "heal" /\ segs' = run_pass_1e(y, roles) /\ pc' = "sandwich"
      /\ UNCHANGED <<raw, limit, k, runs, roles, iter>>
  BY Zenon DEF Heal
<1>2. z \in Int /\ segs \in Segments(V, 0, z) /\ iter \in 0 .. 3
  BY <1>1, PassBegins
<1> HIDE DEF V, z
<1>3. w \in Segments(V, 0, z)
  BY <1>2, HealedAre
<1> HIDE DEF w
<1>4. x \in Segments(V, 0, z)
  BY <1>2, <1>3, TrimmedAre
<1> HIDE DEF x
<1>5. y \in Segments(V, 0, z)
  BY <1>2, <1>4, NonEmptyIs
<1> HIDE DEF y
<1>6. segs' \in Segments(V, 0, z) /\ Spoken(segs')
  BY <1>1, <1>2, <1>5, HealedAre
<1> QED BY <1>1, <1>2, <1>6, PassEnds DEF V, z

LEMMA SandwichesKeeps ==
    ASSUME TurnsInv, Sandwiches
    PROVE  TurnsInv'
<1> DEFINE V == Cast
           z == Told(raw, Len(raw))
           x == Pass2(segs, roles)
<1>1. /\ pc = "sandwich" /\ segs' = (IF roles.judge = NoSpeaker THEN segs ELSE x) /\ pc' = "number"
      /\ UNCHANGED <<raw, limit, k, runs, roles, iter>>
  BY Zenon DEF Sandwiches
<1>2. /\ z \in Int /\ segs \in Segments(V, 0, z) /\ Spoken(segs) /\ iter \in 0 .. 3
      /\ roles.judge # NoSpeaker => RolesIn(roles, V)
  BY <1>1, PassBegins
<1> HIDE DEF V, z
<1>3. CASE roles.judge = NoSpeaker
  <2>1. segs' = segs
    BY <1>1, <1>3
  <2> QED BY <1>1, <1>2, <1>3, <2>1, PassEnds DEF V, z
<1>4. CASE roles.judge # NoSpeaker
  <2>1. /\ x \in Segments(V, 0, z) /\ Spoken(x) /\ x \in SameWords(V, segs)
        /\ \A i \in 1 .. Len(segs) : Addressed(segs, i) => x[i].spk # roles.judge
    BY <1>2, <1>4, Pass2Is
  <2> HIDE DEF x
  <2>2. Len(x) = Len(segs) /\ Len(segs) \in Nat /\ \A i \in 1 .. Len(segs) : x[i].ws = segs[i].ws
    BY <1>2, <2>1, SegmentsAre DEF SameWords
  <2>3. ASSUME NEW i \in 1 .. Len(x), Addressed(x, i) PROVE Addressed(segs, i)
    <3>1. Honorific(segs[i]) /\ ~ Authority(segs[i])
      BY <2>2, <2>3, SameSaid DEF Addressed
    <3>2. ASSUME i < Len(segs) PROVE ~ Clarifies(segs[i + 1])
      <4>1. i + 1 \in 1 .. Len(segs) /\ i < Len(x)
        BY <2>2, <3>2
      <4> QED BY <2>2, <2>3, <4>1, SameSaid DEF Addressed
    <3> QED BY <3>1, <3>2 DEF Addressed
  <2>4. NotToTheJudge(x, roles.judge)
    BY <2>1, <2>2, <2>3 DEF NotToTheJudge
  <2>5. segs' = x
    BY <1>1, <1>4
  <2> QED BY <1>1, <1>2, <2>1, <2>4, <2>5, PassEnds DEF V, z
<1> QED BY <1>3, <1>4

LEMMA NumberKeeps ==
    ASSUME TurnsInv, Number
    PROVE  TurnsInv'
<1> DEFINE V == Cast
           z == Told(raw, Len(raw))
<1>1. /\ pc = "number" /\ segs' = Normalized(Renumber(Consolidate(segs))) /\ pc' = "done"
      /\ UNCHANGED <<raw, limit, k, runs, roles, iter>>
  BY DEF Number
<1>2. /\ raw \in Transcripts /\ k = Len(raw) + 1 /\ iter \in 0 .. 3 /\ runs = <<>> /\ Len(raw) \in Nat
      /\ z \in Int /\ segs \in Segments(V, 0, z) /\ Spoken(segs)
      /\ roles.judge # NoSpeaker => RolesIn(roles, V)
  BY <1>1, PassBegins
<1>3. IsFiniteSet(V)
  <2>1. CASE roles.judge = NoSpeaker
    BY <1>2, <2>1, AllAreLeft, CameIs
  <2>2. CASE roles.judge # NoSpeaker
    <3>1. V = Came(raw) \/ V = {roles.counsel, roles.judge}
      BY DEF Cast, LeftOf
    <3>2. IsFiniteSet({roles.counsel, roles.judge})
      <4>1. IsFiniteSet({roles.counsel}) /\ {roles.counsel} \cup {roles.judge} = {roles.counsel, roles.judge}
        BY FS_Singleton
      <4>2. IsFiniteSet({roles.counsel} \cup {roles.judge})
        BY <4>1, FS_AddElement
      <4> QED BY <4>1, <4>2
    <3> QED BY <1>2, <3>1, <3>2, CameIs
  <2> QED BY <2>1, <2>2
<1>4. Cast' = V
  BY <1>1 DEF Cast
<1> DEFINE U == 0 .. Cardinality(V) - 1
<1> HIDE DEF V, z
<1>5. /\ segs' \in Segments(U, 0, z) /\ Spoken(segs') /\ \A i \in 1 .. Len(segs') : OneLabel(segs'[i])
  BY <1>1, <1>2, <1>3, FinishedIs
<1>6. Finished'
  BY <1>1, <1>4, <1>5 DEF Finished, z
<1>7. Splitting' /\ Passing'
  BY <1>1 DEF Splitting, Passing
<1>8. roles'.judge # NoSpeaker => RolesIn(roles', Came(raw)')
  BY <1>1 DEF TurnsInv
<1> QED BY <1>1, <1>2, <1>6, <1>7, <1>8 DEF TurnsInv, Stages

\* The invariant holds in every state.
LEMMA TurnsInvAlways == TurnsSpec => []TurnsInv
<1>1. TurnsInit => TurnsInv
  BY InitEstablishes
<1>2. ASSUME TurnsInv, [TurnsNext]_turnVars PROVE TurnsInv'
  <2>1. CASE SplitSegment
    BY <1>2, <2>1, SplitSegmentKeeps
  <2>2. CASE SmoothRuns
    BY <1>2, <2>2, SmoothRunsKeeps
  <2>3. CASE KeepRuns
    BY <1>2, <2>3, KeepRunsKeeps
  <2>4. CASE Regroup
    BY <1>2, <2>4, RegroupKeeps
  <2>5. CASE NothingSaid
    BY <1>2, <2>5, NothingSaidKeeps
  <2>6. CASE DiscoverRoles
    BY <1>2, <2>6, DiscoverRolesKeeps
  <2>7. CASE SplitFormulas
    BY <1>2, <2>7, SplitFormulasKeeps
  <2>8. CASE WholeSegments
    BY <1>2, <2>8, WholeSegmentsKeeps
  <2>9. CASE Heal
    BY <1>2, <2>9, HealKeeps
  <2>10. CASE Sandwiches
    BY <1>2, <2>10, SandwichesKeeps
  <2>11. CASE Number
    BY <1>2, <2>11, NumberKeeps
  <2>12. CASE UNCHANGED turnVars
    <3>1. UNCHANGED <<pc, raw, limit, k, runs, segs, roles, iter>>
      BY <2>12 DEF turnVars
    <3>2. Cast' = Cast
      BY <3>1 DEF Cast
    <3>3. Splitting' /\ Passing' /\ Finished'
      BY <1>2, <3>1, <3>2 DEF TurnsInv, Splitting, Passing, Finished
    <3> QED BY <1>2, <3>1, <3>2, <3>3 DEF TurnsInv
  <2> QED BY <1>2, <2>1, <2>2, <2>3, <2>4, <2>5, <2>6, <2>7, <2>8, <2>9, <2>10, <2>11, <2>12
          DEF TurnsNext
<1> QED BY <1>1, <1>2, PTL DEF TurnsSpec

\* The segments and the runs stand for what was taken from the input.
LEMMA WhereTheyStand ==
    ASSUME TurnsInv
    PROVE  \E V : \E m \in Int :
               /\ segs \in Segments(V, 0, m) /\ runs \in Segments(V, m, 10 * Taken)
               /\ Spoken(segs) /\ Spoken(runs) /\ 10 * Taken \in Int
               /\ V \subseteq Nat
<1> DEFINE W == Came(raw)
           U == 0 .. Cardinality(Cast) - 1
           z == 10 * Taken
<1>1. raw \in Transcripts /\ pc \in Stages \ {"idle"} /\ k \in 1 .. Len(raw) + 1
  BY DEF TurnsInv
<1>2. W \subseteq Nat /\ Len(raw) \in Nat /\ \A n \in 0 .. Len(raw) : Told(raw, n) \in Nat
  BY <1>1, CameIs, ToldIs
<1>3. z = Told(raw, IF runs = <<>> THEN k - 1 ELSE k)
  BY DEF Taken, Told
<1>4. k - 1 \in 0 .. Len(raw)
  BY <1>1, <1>2
<1>5. \A V : runs = <<>> => runs \in Segments(V, Told(raw, k - 1), Told(raw, k - 1)) /\ Spoken(runs)
  <2> DEFINE a == Told(raw, k - 1)
  <2>1. a \in Int
    BY <1>2, <1>4
  <2> HIDE DEF a
  <2>2. ASSUME NEW V PROVE <<>> \in Segments(V, a, a)
    BY <2>1, SegmentsNone
  <2>3. Spoken(<<>>)
    BY DEF Spoken
  <2> QED BY <2>2, <2>3 DEF a
<1>6. CASE pc = "split"
  <2>1. runs = <<>> /\ segs \in Segments(W, 0, Told(raw, k - 1)) /\ Spoken(segs)
    BY <1>6 DEF TurnsInv, Splitting
  <2> DEFINE a == Told(raw, k - 1)
  <2>2. a \in Int /\ z = a
    BY <1>2, <1>3, <1>4, <2>1
  <2>3. segs \in Segments(W, 0, a) /\ runs \in Segments(W, a, a) /\ Spoken(segs) /\ Spoken(runs)
    BY <1>5, <2>1
  <2> HIDE DEF z, W, a
  <2> QED BY <1>2, <2>2, <2>3 DEF z
<1>7. CASE pc = "smooth"
  <2>1. /\ k <= Len(raw) /\ segs \in Segments(W, 0, Told(raw, k - 1)) /\ Spoken(segs)
        /\ runs \in Segments(W, Told(raw, k - 1), Told(raw, k)) /\ Spoken(runs)
    BY <1>7 DEF TurnsInv, Splitting
  <2>2. k \in 0 .. Len(raw)
    BY <1>1, <1>2, <2>1
  <2> DEFINE a == Told(raw, k - 1)
             b == Told(raw, k)
  <2>3. a \in Int /\ b \in Int
    BY <1>2, <1>4, <2>2
  <2>4. runs = <<>> => a = b
    <3>1. runs \in Segments(W, a, b) /\ Spoken(runs)
      BY <2>1
    <3> HIDE DEF a, b, W
    <3> QED BY <2>3, <3>1, SegmentsGrow
  <2>5. z = b
    BY <1>3, <2>4
  <2>6. segs \in Segments(W, 0, a) /\ runs \in Segments(W, a, b) /\ Spoken(segs) /\ Spoken(runs)
    BY <2>1
  <2> HIDE DEF z, W, a, b
  <2> QED BY <1>2, <2>3, <2>5, <2>6 DEF z
<1>8. CASE pc \notin {"split", "smooth"}
  <2>1. runs = <<>> /\ k = Len(raw) + 1
    BY <1>8 DEF TurnsInv
  <2>2. k - 1 = Len(raw)
    BY <1>2, <2>1
  <2>3. z = Told(raw, k - 1) /\ Told(raw, k - 1) = Told(raw, Len(raw)) /\ Told(raw, k - 1) \in Int
    BY <1>2, <1>3, <1>4, <2>1, <2>2
  <2>4. CASE pc = "done"
    <3>1. segs \in Segments(U, 0, Told(raw, k - 1)) /\ Spoken(segs)
      BY <2>2, <2>4 DEF TurnsInv, Finished
    <3>2. U \subseteq Nat
      OBVIOUS
    <3> HIDE DEF z, U
    <3> QED BY <1>5, <2>1, <2>3, <3>1, <3>2 DEF z
  <2>5. CASE pc # "done"
    <3>1. pc \in {"roles", "embedded", "whole", "heal", "sandwich", "number"}
      BY <1>1, <1>8, <2>5 DEF Stages
    <3>2. segs \in Segments(Cast, 0, Told(raw, k - 1)) /\ Spoken(segs)
      BY <2>2, <3>1 DEF TurnsInv, Passing
    <3>3. Cast \subseteq Nat
      BY <1>2, RolesLeft, AllAreLeft
    <3> HIDE DEF z
    <3> QED BY <1>5, <2>1, <2>3, <3>2, <3>3 DEF z
  <2> QED BY <2>4, <2>5
<1> QED BY <1>1, <1>6, <1>7, <1>8

-----------------------------------------------------------------------------
(* Theorems                                                                *)

\* No word is lost, said twice or moved past another by any pass over any
\* transcript: what the words of the transcript so far stand for follows one on the
\* other, from the first word of the input to the last one taken.
THEOREM WordsAreKept == TurnsSpec => []WordsKept
<1>1. ASSUME TurnsInv PROVE WordsKept
  <2> DEFINE z == 10 * Taken
             x == Flat(segs)
             y == Flat(runs)
  <2>1. PICK V : \E m \in Int : /\ segs \in Segments(V, 0, m) /\ runs \in Segments(V, m, z) /\ z \in Int
    BY <1>1, WhereTheyStand
  <2>2. PICK m \in Int : /\ segs \in Segments(V, 0, m) /\ runs \in Segments(V, m, z) /\ z \in Int
    BY <2>1
  <2> HIDE DEF z
  <2>3. x \in Stretch(V, 0, m) /\ y \in Stretch(V, m, z)
    BY <2>2, FlatIs
  <2> HIDE DEF x, y
  <2>4. x \o y \in Stretch(V, 0, z)
    BY <2>2, <2>3, StretchConcat
  <2>5. Covers(x \o y, 0, z)
    BY <2>4 DEF Stretch
  <2> QED BY <2>5 DEF WordsKept, Output, x, y, z
<1> QED BY <1>1, TurnsInvAlways, PTL

\* The state is what the stages say it is: segments and runs have words, and these
\* have a speaker, a mark and something they stand for.
THEOREM TurnsTyped == TurnsSpec => []TurnsTypeOK
<1>1. ASSUME TurnsInv PROVE TurnsTypeOK
  <2>1. /\ pc \in Stages /\ k \in 1 .. Len(raw) + 1 /\ iter \in 0 .. 3
        /\ runs # <<>> => pc = "smooth"
    BY <1>1 DEF TurnsInv
  <2>2. PICK V : \E m \in Int : /\ segs \in Segments(V, 0, m) /\ runs \in Segments(V, m, 10 * Taken)
                                /\ Spoken(segs) /\ Spoken(runs) /\ V \subseteq Nat
    BY <1>1, WhereTheyStand
  <2>3. PICK m \in Int : /\ segs \in Segments(V, 0, m) /\ runs \in Segments(V, m, 10 * Taken)
                         /\ Spoken(segs) /\ Spoken(runs) /\ V \subseteq Nat
    BY <2>2
  <2>4. segs \in Seq(Seg(V)) /\ runs \in Seq(Seg(V))
    <3> DEFINE z == 10 * Taken
    <3> HIDE DEF z
    <3>1. runs \in Segments(V, m, z)
      BY <2>3 DEF z
    <3> QED BY <2>3, <3>1, SegmentsAre
  <2> DEFINE all == segs \o runs
  <2>5. all \in Seq(Seg(V)) /\ Spoken(all)
    BY <2>3, <2>4, SpokenConcat, ConcatProperties
  <2>6. ASSUME NEW s \in ToSet(all)
        PROVE  /\ s.spk \in Nat /\ s.ws # <<>>
               /\ \A w \in ToSet(s.ws) : w.spk \in Nat /\ w.mark \in Marks /\ w.from < w.upto
    <3> HIDE DEF all
    <3>1. PICK i \in 1 .. Len(all) : s = all[i]
      BY <2>5 DEF ToSet
    <3>2. s \in Seg(V) /\ s.ws # <<>>
      BY <2>5, <3>1, ElementOfSeq DEF Spoken
    <3>3. s.spk \in V /\ s.ws \in Seq(Word(V))
      BY <3>2, SegIs
    <3>4. ASSUME NEW w \in ToSet(s.ws) PROVE w.spk \in Nat /\ w.mark \in Marks /\ w.from < w.upto
      <4> DEFINE ws == s.ws
      <4>1. ws \in Seq(Word(V)) /\ w \in ToSet(ws)
        BY <3>3
      <4> HIDE DEF ws
      <4>2. PICK j \in 1 .. Len(ws) : w = ws[j]
        BY <4>1 DEF ToSet
      <4>3. w \in Word(V)
        BY <4>1, <4>2, ElementOfSeq
      <4>4. w.spk \in V
        BY <4>3, WordIs
      <4>5. w.mark \in Marks /\ w.from < w.upto
        BY <4>3 DEF Word, WordFields, Sized
      <4> QED BY <2>3, <4>4, <4>5
    <3> QED BY <2>3, <3>2, <3>3, <3>4
  <2> QED BY <2>1, <2>6 DEF TurnsTypeOK
<1> QED BY <1>1, TurnsInvAlways, PTL

\* "The Judge NEVER addresses themselves", but for bench language and what "Sir?"
\* gives back to the judge: pass 2, which looks at a segment once and changes the one
\* before it, leaves no other segment with "my lord" in it to the judge.
THEOREM JudgeNotAddressed == TurnsSpec => []BenchNotAddressed
<1>1. ASSUME TurnsInv PROVE BenchNotAddressed
  <2>1. SUFFICES ASSUME pc = "number", roles.judge # NoSpeaker, NEW i \in DOMAIN segs,
                        segs[i].spk = roles.judge, Honorific(segs[i])
                 PROVE  Authority(segs[i]) \/ (i < Len(segs) /\ Clarifies(segs[i + 1]))
    BY DEF BenchNotAddressed
  <2>2. NotToTheJudge(segs, roles.judge) /\ segs \in Segments(Cast, 0, Told(raw, Len(raw)))
    BY <1>1, <2>1 DEF TurnsInv, Passing
  <2>3. i \in 1 .. Len(segs)
    BY <2>1, <2>2, SegmentsAre
  <2>4. ~ Addressed(segs, i)
    BY <2>1, <2>2, <2>3 DEF NotToTheJudge
  <2> QED BY <2>1, <2>4 DEF Addressed
<1> QED BY <1>1, TurnsInvAlways, PTL

\* The finished transcript has no segment without words and no word with another
\* label than its segment; its labels are below the number of speakers who came in;
\* and there are two at most when MAX_SPEAKERS is two and a judge was found.
THEOREM LabelsAreSound ==
    TurnsSpec => [](pc = "done" => LabelsWhole /\ NobodyMadeUp /\ TwoSpeakers)
<1>1. ASSUME TurnsInv, pc = "done" PROVE LabelsWhole /\ NobodyMadeUp /\ TwoSpeakers
  <2> DEFINE U == 0 .. Cardinality(Cast) - 1
             z == Told(raw, Len(raw))
  <2>1. /\ segs \in Segments(U, 0, z) /\ Spoken(segs) /\ \A i \in 1 .. Len(segs) : OneLabel(segs[i])
        /\ raw \in Transcripts
    BY <1>1 DEF TurnsInv, Finished
  <2> HIDE DEF U, z
  <2>2. segs \in Seq(Seg(U)) /\ DOMAIN segs = 1 .. Len(segs)
    BY <2>1, SegmentsAre
  <2>3. LabelsWhole
    <3>1. ASSUME NEW i \in DOMAIN segs
          PROVE  segs[i].ws # <<>> /\ \A w \in ToSet(segs[i].ws) : w.spk = segs[i].spk
      <4>1. i \in 1 .. Len(segs)
        BY <2>2
      <4> DEFINE r == segs[i]
      <4>2. OneLabel(r) /\ r.ws # <<>>
        BY <2>1, <4>1 DEF Spoken
      <4> HIDE DEF r
      <4>3. \A w \in ToSet(r.ws) : w.spk = r.spk
        BY <4>2, OneLabelIs
      <4> QED BY <4>2, <4>3 DEF r
    <3> QED BY <3>1 DEF LabelsWhole
  <2>4. Voices(segs) \subseteq U
    BY <2>2, VoicesAre
  <2>5. IsFiniteSet(Came(raw)) /\ Cast \subseteq Came(raw)
    BY <1>1, <2>1, CameIs, RolesLeft, AllAreLeft
  <2>6. IsFiniteSet(Cast) /\ Cardinality(Cast) <= Cardinality(Came(raw))
        /\ Cardinality(Cast) \in Nat /\ Cardinality(Came(raw)) \in Nat
    BY <2>5, FS_Subset, FS_CardinalityType
  <2>7. NobodyMadeUp
    <3> DEFINE c == Cardinality(Cast)
               d == Cardinality(Came(raw))
    <3>1. c \in Nat /\ d \in Nat /\ c <= d /\ U = 0 .. c - 1
      BY <2>6 DEF U
    <3> HIDE DEF c, d
    <3>2. U \subseteq 0 .. d - 1
      BY <3>1
    <3> QED BY <2>4, <3>2 DEF NobodyMadeUp, d
  <2>8. TwoSpeakers
    <3>1. SUFFICES ASSUME limit = 2, roles.judge # NoSpeaker PROVE Cardinality(Voices(segs)) <= 2
      BY DEF TwoSpeakers
    <3>2. Cast = {roles.counsel, roles.judge}
      BY <3>1 DEF Cast, LeftOf
    <3>3. Cardinality(Cast) <= 2
      <4>1. IsFiniteSet({roles.counsel}) /\ Cardinality({roles.counsel}) = 1
        BY FS_Singleton
      <4>2. Cardinality({roles.counsel} \cup {roles.judge}) <= 2
        BY <4>1, FS_AddElement
      <4>3. {roles.counsel} \cup {roles.judge} = {roles.counsel, roles.judge}
        OBVIOUS
      <4> QED BY <3>2, <4>2, <4>3
    <3>4. U \in SUBSET (0 .. 1)
      <4> DEFINE c == Cardinality(Cast)
      <4>1. c \in Nat /\ c <= 2 /\ U = 0 .. c - 1
        BY <2>6, <3>3 DEF U
      <4> HIDE DEF c
      <4> QED BY <4>1
    <3>5. IsFiniteSet(0 .. 1) /\ Cardinality(0 .. 1) = 2
      <4>1. 0 \in Int /\ 1 \in Int /\ ~ (0 > 1) /\ 1 - 0 + 1 = 2
        OBVIOUS
      <4> QED BY <4>1, FS_Interval
    <3>6. Voices(segs) \in SUBSET (0 .. 1)
      BY <2>4, <3>4
    <3> QED BY <3>5, <3>6, FS_Subset
  <2> QED BY <2>3, <2>7, <2>8
<1> QED BY <1>1, TurnsInvAlways, PTL

\* The loop of _split_segment_runs that absorbs jitter ends for every segment of
\* every transcript: each round that sets changed leaves fewer runs.
THEOREM SmoothingStops == TurnsSpec => []SmoothingEnds
<1>1. ASSUME TurnsInv PROVE SmoothingEnds
  <2>1. SUFFICES ASSUME pc = "smooth", SmoothPass(runs).changed
                 PROVE  Len(MergeRuns(SmoothPass(runs).new)) < Len(runs)
    BY DEF SmoothingEnds
  <2> DEFINE V == Came(raw)
             a == Told(raw, k - 1)
             z == Told(raw, k)
  <2>2. raw \in Transcripts /\ k \in 1 .. Len(raw) + 1 /\ k <= Len(raw)
        /\ runs \in Segments(V, a, z) /\ Spoken(runs)
    BY <1>1, <2>1 DEF TurnsInv, Splitting
  <2>3. k \in 0 .. Len(raw) /\ k - 1 \in 0 .. Len(raw)
    BY <2>2, ToldIs
  <2>4. a \in Int /\ z \in Int
    BY <2>2, <2>3, ToldIs
  <2> HIDE DEF V, a, z
  <2> QED BY <2>1, <2>2, <2>4, RoundIs
<1> QED BY <1>1, TurnsInvAlways, PTL

=============================================================================
