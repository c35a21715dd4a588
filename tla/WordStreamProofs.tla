--------------------------- MODULE WordStreamProofs ---------------------------
(***************************************************************************)
(* Facts about natural numbers, sequences, folds and functions that read a *)
(* sequence, and from them what the functions of WordStream do to words:   *)
(* whatever they join or replace, the words they leave stand for the same  *)
(* stretch of the input, without a gap.                                    *)
(***************************************************************************)
EXTENDS WordStream, FiniteSetTheorems, SequenceTheorems, WellFoundedInduction, TLAPS

-----------------------------------------------------------------------------
(* Natural numbers                                                         *)

\* A set of natural numbers has a least element.
LEMMA LeastOfNat ==
    ASSUME NEW S \in SUBSET Nat, S # {}
    PROVE  \E x \in S : \A y \in S : x <= y
<1>1. IsWellFoundedOn(OpToRel(<, Nat), Nat)
  BY NatLessThanWellFounded
<1>2. PICK x \in S : \A y \in S : ~ (<<y, x>> \in OpToRel(<, Nat))
  BY <1>1, WFMin
<1>3. \A y \in S : ~ (y < x)
  BY <1>2 DEF OpToRel
<1> QED BY <1>3

\* Induction up to n, for the set of the numbers that have a property.
LEMMA InductionUpTo ==
    ASSUME NEW n \in Nat, NEW S, 0 \in S, \A m \in 0 .. n - 1 : m \in S => m + 1 \in S
    PROVE  0 .. n \subseteq S
<1> SUFFICES ASSUME (0 .. n) \ S # {} PROVE FALSE
  OBVIOUS
<1>1. PICK x \in (0 .. n) \ S : \A y \in (0 .. n) \ S : x <= y
  <2>1. (0 .. n) \ S \in SUBSET Nat
    OBVIOUS
  <2> QED BY <2>1, LeastOfNat
<1>2. x # 0 /\ x - 1 \in 0 .. n - 1
  BY <1>1
<1>3. x - 1 \in S
  BY <1>1, <1>2
<1>4. (x - 1) + 1 = x
  BY <1>1
<1> QED BY <1>1, <1>2, <1>3, <1>4

\* The greatest and the least number of a set between 1 and n.
LEMMA MaxUpTo ==
    ASSUME NEW n \in Nat, NEW X \in SUBSET (1 .. n), X # {}
    PROVE  Max(X) \in X /\ \A y \in X : y <= Max(X)
<1> DEFINE U == {u \in Nat : \A y \in X : y <= u}
<1>1. n \in U
  OBVIOUS
<1>2. PICK u \in U : \A v \in U : u <= v
  <2>1. U \in SUBSET Nat /\ U # {}
    BY <1>1
  <2> QED BY <2>1, LeastOfNat
<1>3. u \in X
  <2> SUFFICES ASSUME u \notin X PROVE FALSE
    OBVIOUS
  <2>1. \A y \in X : y <= u - 1
    BY <1>2
  <2>2. u - 1 \in Nat
    <3>1. PICK y \in X : TRUE
      OBVIOUS
    <3>2. y \in 1 .. n /\ y <= u - 1 /\ u \in Nat
      BY <1>2, <2>1
    <3> QED BY <3>2
  <2>3. u - 1 \in U
    BY <2>1, <2>2
  <2> QED BY <1>2, <2>2, <2>3
<1>4. \E x \in X : \A y \in X : x >= y
  BY <1>2, <1>3
<1> QED BY <1>4 DEF Max

\* The same for the least.
LEMMA MinUpTo ==
    ASSUME NEW n \in Nat, NEW X \in SUBSET (1 .. n), X # {}
    PROVE  Min(X) \in X /\ \A y \in X : Min(X) <= y
<1>1. \E x \in X : \A y \in X : x <= y
  <2>1. X \in SUBSET Nat
    OBVIOUS
  <2> QED BY <2>1, LeastOfNat
<1> QED BY <1>1 DEF Min

-----------------------------------------------------------------------------
(* Sequences                                                               *)

\* A function on 1 .. n is a sequence of length n.
LEMMA MappingIsSeq ==
    ASSUME NEW S, NEW n \in Nat, NEW f \in [1 .. n -> S]
    PROVE  f \in Seq(S) /\ Len(f) = n /\ DOMAIN f = 1 .. n
<1>1. f \in Seq(S)
  BY SeqDef
<1>2. DOMAIN f = 1 .. n
  OBVIOUS
<1>3. DOMAIN f = 1 .. Len(f) /\ Len(f) \in Nat
  BY <1>1, LenProperties
<1> QED BY <1>1, <1>2, <1>3

-----------------------------------------------------------------------------
(* Folds.  FoldLeft takes the members of the index set away from the top;  *)
(* on values of a set T that the folded operator stays in, it is the       *)
(* iteration of a function step on T.                                      *)

IsFold(h, n, b, step) ==
    /\ h[{}] = b
    /\ \A s \in SUBSET (1 .. n) : s # {} => h[s] = step[<<h[s \ {Max(s)}], Max(s)>>]

IsFoldIn(h, n, b, step, T) ==
    /\ h[{}] = b
    /\ \A s \in SUBSET (1 .. n) :
          s # {} /\ h[s \ {Max(s)}] \in T => h[s] = step[<<h[s \ {Max(s)}], Max(s)>>]

Iterates(g, n, b, step, x) ==
    g[0] = b /\ g[n] = x /\ \A m \in 1 .. n : g[m] = step[<<g[m - 1], m>>]

\* Every step function on a type T has a fold over the subsets of 1 .. n.
LEMMA FoldExists ==
    ASSUME NEW n \in Nat, NEW T, NEW b \in T, NEW step \in [T \X (1 .. n) -> T]
    PROVE  \E h \in [SUBSET (1 .. n) -> T] : IsFold(h, n, b, step)
<1> DEFINE Folds(h, m) ==
               /\ h \in [SUBSET (1 .. m) -> T]
               /\ h[{}] = b
               /\ \A s \in SUBSET (1 .. m) : s # {} => h[s] = step[<<h[s \ {Max(s)}], Max(s)>>]
           S == {m \in 0 .. n : \E h : Folds(h, m)}
<1>1. 0 \in S
  <2> DEFINE h == [s \in SUBSET (1 .. 0) |-> b]
  <2>1. \A s \in SUBSET (1 .. 0) : s = {}
    OBVIOUS
  <2>2. Folds(h, 0)
    BY <2>1
  <2> HIDE DEF h, Folds
  <2> QED BY <2>2
<1>2. ASSUME NEW m \in 0 .. n - 1, m \in S PROVE m + 1 \in S
  <2>1. PICK h : Folds(h, m)
    BY <1>2
  <2> DEFINE t == m + 1
             g == [s \in SUBSET (1 .. t) |-> IF t \in s THEN step[<<h[s \ {t}], t>>] ELSE h[s]]
  <2>2. t \in 1 .. n /\ t \in Nat /\ t \notin 1 .. m /\ m \in Nat
    OBVIOUS
  <2>3. \A s \in SUBSET (1 .. t) : s \ {t} \in SUBSET (1 .. m)
    OBVIOUS
  <2>4. \A s \in SUBSET (1 .. t) : t \notin s => s \in SUBSET (1 .. m)
    OBVIOUS
  <2>5. \A s \in SUBSET (1 .. m) : s \in SUBSET (1 .. t) /\ t \notin s
    OBVIOUS
  <2>6. \A s \in SUBSET (1 .. m) : h[s] \in T
    BY <2>1
  <2>7. ASSUME NEW s \in SUBSET (1 .. t), t \in s PROVE Max(s) = t
    <3> HIDE DEF t
    <3>1. s # {}
      BY <2>7
    <3>2. Max(s) \in s /\ \A y \in s : y <= Max(s)
      BY <2>2, <3>1, MaxUpTo
    <3>3. Max(s) \in 1 .. t /\ t <= Max(s)
      BY <2>7, <3>2
    <3> QED BY <2>2, <3>3
  <2> HIDE DEF t
  <2>8. \A s \in SUBSET (1 .. t) : g[s] \in T
    <3> SUFFICES ASSUME NEW s \in SUBSET (1 .. t) PROVE g[s] \in T
      OBVIOUS
    <3>1. CASE t \in s
      <4>1. h[s \ {t}] \in T
        BY <2>3, <2>6
      <4> QED BY <2>2, <3>1, <4>1
    <3>2. CASE t \notin s
      BY <2>4, <2>6, <3>2
    <3> QED BY <3>1, <3>2
  <2>9. g \in [SUBSET (1 .. t) -> T]
    BY <2>8
  <2>10. \A s \in SUBSET (1 .. m) : g[s] = h[s]
    BY <2>5
  <2>11. g[{}] = b
    BY <2>1, <2>10
  <2>12. ASSUME NEW s \in SUBSET (1 .. t), s # {}
         PROVE  g[s] = step[<<g[s \ {Max(s)}], Max(s)>>]
    <3>1. CASE t \in s
      <4>1. Max(s) = t
        BY <2>7, <3>1
      <4>2. g[s] = step[<<h[s \ {t}], t>>]
        BY <3>1
      <4>3. g[s \ {t}] = h[s \ {t}]
        BY <2>3, <2>10
      <4> HIDE DEF g
      <4> QED BY <4>1, <4>2, <4>3
    <3>2. CASE t \notin s
      <4>1. s \in SUBSET (1 .. m)
        BY <2>4, <3>2
      <4>2. s \ {Max(s)} \in SUBSET (1 .. m)
        BY <4>1
      <4>3. h[s] = step[<<h[s \ {Max(s)}], Max(s)>>]
        BY <2>1, <2>12, <4>1
      <4> HIDE DEF g
      <4> QED BY <2>10, <4>1, <4>2, <4>3
    <3> QED BY <3>1, <3>2
  <2> HIDE DEF g
  <2>13. Folds(g, t)
    BY <2>9, <2>11, <2>12
  <2>14. t \in 0 .. n
    BY <2>2
  <2> HIDE DEF Folds
  <2>15. t \in S
    BY <2>13, <2>14
  <2> QED BY <2>15 DEF t
<1>3. n \in S
  <2> HIDE DEF S
  <2>1. 0 .. n \subseteq S
    BY <1>1, <1>2, InductionUpTo
  <2> QED BY <2>1
<1> QED BY <1>3 DEF IsFold

\* A fold over 1 .. n is the last of the values 0, 1, ... n steps give.
LEMMA FoldValues ==
    ASSUME NEW n \in Nat, NEW T, NEW b \in T, NEW step \in [T \X (1 .. n) -> T], NEW h,
           IsFoldIn(h, n, b, step, T)
    PROVE  \E g \in [0 .. n -> T] : Iterates(g, n, b, step, h[1 .. n])
<1> USE DEF IsFoldIn
<1> DEFINE S == {m \in 0 .. n : h[1 .. m] \in T}
           g == [m \in 0 .. n |-> h[1 .. m]]
<1>1. 1 .. 0 = {}
  OBVIOUS
<1>2. ASSUME NEW m \in 1 .. n, h[1 .. m - 1] \in T
      PROVE  h[1 .. m] = step[<<h[1 .. m - 1], m>>]
  <2>1. 1 .. m \in SUBSET (1 .. n) /\ 1 .. m # {}
    OBVIOUS
  <2>2. Max(1 .. m) = m
    <3> DEFINE X == 1 .. m
    <3>0. X \in SUBSET (1 .. m) /\ X # {} /\ m \in Nat /\ m \in X
      OBVIOUS
    <3> HIDE DEF X
    <3>2. Max(X) \in X /\ \A y \in X : y <= Max(X)
      BY <3>0, MaxUpTo
    <3>1. Max(X) \in 1 .. m /\ m <= Max(X)
      BY <3>0, <3>2
    <3> USE DEF X
    <3> QED BY <3>1
  <2>3. (1 .. m) \ {m} = 1 .. m - 1
    OBVIOUS
  <2> QED BY <1>2, <2>1, <2>2, <2>3
<1>3. 0 \in S
  BY <1>1
<1>4. ASSUME NEW m \in 0 .. n - 1, m \in S PROVE m + 1 \in S
  <2>1. m + 1 \in 1 .. n /\ (m + 1) - 1 = m /\ m + 1 \in 0 .. n
    OBVIOUS
  <2>2. h[1 .. m] \in T
    BY <1>4
  <2>3. h[1 .. m + 1] = step[<<h[1 .. m], m + 1>>]
    BY <1>2, <2>1, <2>2
  <2>4. h[1 .. m + 1] \in T
    BY <2>1, <2>2, <2>3
  <2> QED BY <2>1, <2>4
<1>5. \A m \in 0 .. n : h[1 .. m] \in T
  <2>1. 0 .. n \subseteq S
    <3> HIDE DEF S
    <3> QED BY <1>3, <1>4, InductionUpTo
  <2> QED BY <2>1
<1>6. g \in [0 .. n -> T]
  BY <1>5
<1>7. g[0] = b /\ g[n] = h[1 .. n]
  BY <1>1
<1>8. \A m \in 1 .. n : g[m] = step[<<g[m - 1], m>>]
  <2> SUFFICES ASSUME NEW m \in 1 .. n PROVE g[m] = step[<<g[m - 1], m>>]
    OBVIOUS
  <2>1. m - 1 \in 0 .. n /\ m \in 0 .. n
    OBVIOUS
  <2> QED BY <1>2, <1>5, <2>1
<1> HIDE DEF g
<1> QED BY <1>6, <1>7, <1>8 DEF Iterates

-----------------------------------------------------------------------------
(* Functions that read a sequence from left to right and leave the rest to *)
(* themselves: at i they put down part[i] and go on at next[i].            *)

RestOf(r, n, part, next) ==
    r[n + 1] = <<>> /\ \A i \in 1 .. n : r[i] = part[i] \o r[next[i]]

\* Such a function exists when every step moves on.
LEMMA RestExists ==
    ASSUME NEW n \in Nat, NEW W, NEW part \in [1 .. n -> Seq(W)], NEW next \in [1 .. n -> 1 .. n + 1],
           \A i \in 1 .. n : next[i] > i
    PROVE  \E r \in [1 .. n + 1 -> Seq(W)] : RestOf(r, n, part, next)
<1> DEFINE Rest(r, m) ==
               /\ r \in [n + 1 - m .. n + 1 -> Seq(W)]
               /\ r[n + 1] = <<>>
               /\ \A i \in n + 1 - m .. n : r[i] = part[i] \o r[next[i]]
           S == {m \in 0 .. n : \E r : Rest(r, m)}
<1>1. 0 \in S
  <2> DEFINE r == [i \in n + 1 .. n + 1 |-> <<>>]
  <2>1. <<>> \in Seq(W)
    OBVIOUS
  <2>2. n + 1 - 0 = n + 1 /\ \A i \in n + 1 .. n + 1 : i = n + 1
    OBVIOUS
  <2>3. r \in [n + 1 .. n + 1 -> Seq(W)] /\ r[n + 1] = <<>> /\ n + 1 .. n = {}
    BY <2>1
  <2> HIDE DEF r
  <2>4. Rest(r, 0)
    BY <2>2, <2>3
  <2> HIDE DEF Rest
  <2> QED BY <2>4
<1>2. ASSUME NEW m \in 0 .. n - 1, m \in S PROVE m + 1 \in S
  <2>1. PICK r : Rest(r, m)
    BY <1>2
  <2> DEFINE t == n - m
             q == [i \in t .. n + 1 |-> IF i = t THEN part[t] \o r[next[t]] ELSE r[i]]
  <2>2. t \in 1 .. n /\ t \in Nat /\ t = n + 1 - (m + 1) /\ t + 1 = n + 1 - m
    OBVIOUS
  <2>3. next[t] \in t + 1 .. n + 1 /\ part[t] \in Seq(W)
    BY <2>2
  <2> HIDE DEF t
  <2>4. \A i \in t .. n + 1 : i = t \/ i \in t + 1 .. n + 1
    BY <2>2
  <2>5. \A i \in t + 1 .. n + 1 : r[i] \in Seq(W) /\ i # t /\ i \in t .. n + 1
    BY <2>1, <2>2
  <2>6. \A i \in t .. n + 1 : q[i] \in Seq(W)
    BY <2>3, <2>4, <2>5
  <2>7. q \in [t .. n + 1 -> Seq(W)]
    BY <2>6
  <2>8. \A i \in t + 1 .. n + 1 : q[i] = r[i]
    BY <2>5
  <2>9. q[n + 1] = <<>>
    BY <2>1, <2>2, <2>8
  <2>10. q[t] = part[t] \o r[next[t]]
    <3>1. t \in t .. n + 1
      BY <2>2
    <3> QED BY <3>1, Zenon
  <2> HIDE DEF q
  <2>11. ASSUME NEW i \in t .. n PROVE q[i] = part[i] \o q[next[i]]
    <3>1. CASE i = t
      BY <2>3, <2>8, <2>10, <3>1
    <3>2. CASE i # t
      <4>1. i \in t + 1 .. n /\ i \in t + 1 .. n + 1 /\ next[i] \in t + 1 .. n + 1
        BY <2>2, <3>2
      <4>2. r[i] = part[i] \o r[next[i]]
        BY <2>1, <2>2, <4>1
      <4> QED BY <2>8, <4>1, <4>2
    <3> QED BY <3>1, <3>2
  <2>12. Rest(q, m + 1)
    BY <2>2, <2>7, <2>9, <2>11
  <2> HIDE DEF Rest
  <2> QED BY <2>12
<1>3. n \in S
  <2> HIDE DEF S
  <2>1. 0 .. n \subseteq S
    BY <1>1, <1>2, InductionUpTo
  <2> QED BY <2>1
<1>4. n + 1 - n = 1
  OBVIOUS
<1> QED BY <1>3, <1>4 DEF RestOf

\* What it writes from the start is a sequence over what the parts hold.
LEMMA RestTyped ==
    ASSUME NEW n \in Nat, NEW W, NEW part \in [1 .. n -> Seq(W)], NEW next \in [1 .. n -> 1 .. n + 1],
           \A i \in 1 .. n : next[i] > i,
           NEW r, RestOf(r, n, part, next)
    PROVE  r[1] \in Seq(W)
<1> USE DEF RestOf
<1> DEFINE S == {m \in 0 .. n : \A i \in n + 1 - m .. n + 1 : r[i] \in Seq(W)}
<1>1. 0 \in S
  <2>1. <<>> \in Seq(W) /\ 0 \in 0 .. n /\ \A i \in n + 1 - 0 .. n + 1 : i = n + 1
    OBVIOUS
  <2> QED BY <2>1, Zenon
<1>2. ASSUME NEW m \in 0 .. n - 1, m \in S PROVE m + 1 \in S
  <2> SUFFICES ASSUME NEW i \in n + 1 - (m + 1) .. n + 1 PROVE r[i] \in Seq(W)
    OBVIOUS
  <2>1. \A j \in n + 1 - m .. n + 1 : r[j] \in Seq(W)
    BY <1>2
  <2>2. CASE i \in n + 1 - m .. n + 1
    BY <2>1, <2>2
  <2>3. CASE i = n - m
    <3>1. i \in 1 .. n
      BY <2>3
    <3>2. next[i] \in n + 1 - m .. n + 1 /\ part[i] \in Seq(W)
      BY <2>3, <3>1
    <3>3. r[i] = part[i] \o r[next[i]] /\ r[next[i]] \in Seq(W)
      BY <2>1, <3>1, <3>2
    <3> QED BY <3>2, <3>3
  <2>4. i \in n + 1 - m .. n + 1 \/ i = n - m
    OBVIOUS
  <2> QED BY <2>2, <2>3, <2>4
<1>3. n \in S
  <2> HIDE DEF S
  <2>1. 0 .. n \subseteq S
    BY <1>1, <1>2, InductionUpTo
  <2> QED BY <2>1
<1> QED BY <1>3

-----------------------------------------------------------------------------
(* Words and stretches                                                     *)

\* The texts that the functions of WordStream put in.
Put == {"as", "the", "court", "pleases", "yes", "my", "lord", "orally", "apply",
        "5A", "/5/", "/5", "E/", "E/5", "/", "no"}

\* The texts of words.  The provers do not know that a literal is a string.
Tokens == STRING \cup Put

WordFields(V) ==
    [from : Nat, upto : Nat, tok : Tokens, mark : Marks, cap : BOOLEAN,
     spk : V, st : Int, en : Int, seg : Nat]

\* A word stands for something; "copy" for enough to become a phrase of four
\* words with the two before it.
Sized(w) == w.from < w.upto /\ (w.tok = "copy" => w.from + 1 < w.upto)

\* A word of a speaker of V.
Word(V) == {w \in WordFields(V) : Sized(w)}

\* Words that stand for what was said from a to z.
Stretch(V, a, z) == {ws \in Seq(Word(V)) : Covers(ws, a, z)}

\* The place behind the i-th word of words that begin at a.
Point(ws, a, i) == IF i = 0 THEN a ELSE ws[i].upto

\* The fields of a word.
LEMMA WordIs ==
    ASSUME NEW V, NEW w \in Word(V)
    PROVE  /\ w.from \in Nat /\ w.upto \in Nat /\ w.tok \in Tokens /\ w.mark \in Marks
           /\ w.cap \in BOOLEAN /\ w.spk \in V /\ w.st \in Int /\ w.en \in Int /\ w.seg \in Nat
           /\ w.from < w.upto
  BY DEF Word, WordFields, Sized

\* A word of one of V is a word of one of U when V is part of U.
LEMMA WordOf ==
    ASSUME NEW V, NEW U, V \subseteq U
    PROVE  Word(V) \subseteq Word(U)
  BY DEF Word, WordFields

\* A stretch by its words.
LEMMA StretchIs ==
    ASSUME NEW V, NEW a \in Int, NEW z \in Int, NEW ws \in Stretch(V, a, z)
    PROVE  /\ ws \in Seq(Word(V)) /\ Len(ws) \in Nat /\ DOMAIN ws = 1 .. Len(ws)
           /\ \A i \in 1 .. Len(ws) : ws[i] \in Word(V)
           /\ \A i \in 0 .. Len(ws) : Point(ws, a, i) \in Int
           /\ Point(ws, a, 0) = a /\ Point(ws, a, Len(ws)) = z
           /\ \A i \in 1 .. Len(ws) : ws[i].from = Point(ws, a, i - 1) /\ ws[i].upto = Point(ws, a, i)
           /\ \A i \in 1 .. Len(ws) : Point(ws, a, i - 1) < Point(ws, a, i)
<1>1. ws \in Seq(Word(V)) /\ Covers(ws, a, z)
  BY DEF Stretch
<1>2. Len(ws) \in Nat /\ DOMAIN ws = 1 .. Len(ws) /\ \A i \in 1 .. Len(ws) : ws[i] \in Word(V)
  BY <1>1
<1>3. \A i \in 1 .. Len(ws) : ws[i].from \in Nat /\ ws[i].upto \in Nat /\ ws[i].from < ws[i].upto
  BY <1>2, WordIs
<1>4. Point(ws, a, 0) = a /\ \A i \in 1 .. Len(ws) : Point(ws, a, i) = ws[i].upto
  BY <1>2 DEF Point
<1>5. \A i \in 0 .. Len(ws) : Point(ws, a, i) \in Int
  <2> SUFFICES ASSUME NEW i \in 0 .. Len(ws) PROVE Point(ws, a, i) \in Int
    OBVIOUS
  <2>1. i = 0 \/ i \in 1 .. Len(ws)
    BY <1>2
  <2> QED BY <1>3, <1>4, <2>1
<1>6. CASE ws = <<>>
  <2>1. Len(ws) = 0 /\ a = z
    BY <1>1, <1>6 DEF Covers
  <2> QED BY <1>1, <1>2, <1>4, <1>5, <2>1
<1>7. CASE ws # <<>>
  <2>1. Len(ws) \in 1 .. Len(ws) /\ 1 \in 1 .. Len(ws)
    BY <1>1, <1>2, <1>7, EmptySeq
  <2>2. ws[1].from = a /\ ws[Len(ws)].upto = z /\ \A i \in 1 .. Len(ws) - 1 : ws[i + 1].from = ws[i].upto
    BY <1>1, <1>7, Zenon DEF Covers, Last
  <2>3. Point(ws, a, Len(ws)) = z
    BY <1>4, <2>1, <2>2
  <2>4. ASSUME NEW i \in 1 .. Len(ws) PROVE ws[i].from = Point(ws, a, i - 1)
    <3>1. CASE i = 1
      BY <1>4, <2>2, <3>1
    <3>2. CASE i # 1
      <4>1. i - 1 \in 1 .. Len(ws) - 1 /\ i - 1 \in 1 .. Len(ws) /\ (i - 1) + 1 = i
        BY <1>2, <3>2
      <4>2. ws[(i - 1) + 1].from = ws[i - 1].upto
        BY <2>2, <4>1
      <4> QED BY <1>4, <4>1, <4>2
    <3> QED BY <3>1, <3>2
  <2> QED BY <1>1, <1>2, <1>3, <1>4, <1>5, <2>3, <2>4
<1> QED BY <1>6, <1>7

\* And the other way round.
LEMMA StretchMade ==
    ASSUME NEW V, NEW a \in Int, NEW z \in Int, NEW ws \in Seq(Word(V)),
           \A i \in 1 .. Len(ws) : ws[i].from = Point(ws, a, i - 1), Point(ws, a, Len(ws)) = z
    PROVE  ws \in Stretch(V, a, z)
<1>1. Len(ws) \in Nat
  OBVIOUS
<1>2. CASE ws = <<>>
  <2>1. Len(ws) = 0
    BY <1>2
  <2> QED BY <1>2, <2>1 DEF Stretch, Covers, Point
<1>3. CASE ws # <<>>
  <2>1. Len(ws) \in 1 .. Len(ws) /\ 1 \in 1 .. Len(ws) /\ Len(ws) # 0 /\ 1 - 1 = 0
    BY <1>1, <1>3, EmptySeq
  <2>2. ws[1].from = a /\ ws[Len(ws)].upto = z
    BY <2>1 DEF Point
  <2>3. ASSUME NEW i \in 1 .. Len(ws) - 1 PROVE ws[i + 1].from = ws[i].upto
    <3>1. i + 1 \in 1 .. Len(ws) /\ (i + 1) - 1 = i /\ i # 0
      BY <1>1
    <3> QED BY <3>1 DEF Point
  <2>4. Covers(ws, a, z)
    BY <1>3, <2>2, <2>3, Zenon DEF Covers, Last
  <2> QED BY <2>4 DEF Stretch
<1> QED BY <1>2, <1>3

\* A word is a stretch.
LEMMA StretchOne ==
    ASSUME NEW V, NEW w \in Word(V)
    PROVE  <<w>> \in Stretch(V, w.from, w.upto) /\ w.from \in Int /\ w.upto \in Int
<1>1. <<w>> \in Seq(Word(V)) /\ Len(<<w>>) = 1 /\ <<w>>[1] = w /\ <<w>> # <<>>
  OBVIOUS
<1>2. Covers(<<w>>, w.from, w.upto)
  BY <1>1 DEF Covers, Last
<1> QED BY <1>1, <1>2, WordIs DEF Stretch

\* No words stand for nothing.
LEMMA StretchNone ==
    ASSUME NEW V, NEW a
    PROVE  <<>> \in Stretch(V, a, a)
<1>1. <<>> \in Seq(Word(V)) /\ Covers(<<>>, a, a)
  BY DEF Covers
<1> QED BY <1>1 DEF Stretch

\* The places behind words go up.
LEMMA StretchGrows ==
    ASSUME NEW V, NEW a \in Int, NEW z \in Int, NEW ws \in Stretch(V, a, z)
    PROVE  a <= z /\ (ws # <<>> => a < z) /\ (ws = <<>> => a = z)
<1> DEFINE n == Len(ws)
           S == {i \in 0 .. n : Point(ws, a, i) >= a + i}
<1>1. /\ n \in Nat /\ ws \in Seq(Word(V)) /\ Point(ws, a, 0) = a /\ Point(ws, a, n) = z
      /\ \A i \in 0 .. n : Point(ws, a, i) \in Int
      /\ \A i \in 1 .. n : Point(ws, a, i - 1) < Point(ws, a, i)
  BY StretchIs
<1> HIDE DEF n
<1>2. 0 \in S
  BY <1>1
<1>3. ASSUME NEW m \in 0 .. n - 1, m \in S PROVE m + 1 \in S
  <2>1. m + 1 \in 1 .. n /\ m + 1 \in 0 .. n /\ (m + 1) - 1 = m /\ m \in 0 .. n
    BY <1>1
  <2>2. Point(ws, a, m) < Point(ws, a, m + 1) /\ Point(ws, a, m) \in Int /\ Point(ws, a, m + 1) \in Int
    BY <1>1, <2>1
  <2>3. Point(ws, a, m) >= a + m
    BY <1>3
  <2>4. Point(ws, a, m + 1) >= a + (m + 1)
    BY <2>1, <2>2, <2>3
  <2> QED BY <2>1, <2>4
<1>4. n \in S
  <2> HIDE DEF S
  <2>1. 0 .. n \subseteq S
    BY <1>1, <1>2, <1>3, InductionUpTo
  <2> QED BY <1>1, <2>1
<1>5. z >= a + n
  BY <1>1, <1>4
<1>6. ws # <<>> => n >= 1
  BY <1>1, EmptySeq DEF n
<1>7. ws = <<>> => n = 0
  BY DEF n
<1> QED BY <1>1, <1>5, <1>6, <1>7

\* Stretches that follow one on the other make one.
LEMMA StretchConcat ==
    ASSUME NEW V, NEW a \in Int, NEW b \in Int, NEW z \in Int,
           NEW u \in Stretch(V, a, b), NEW v \in Stretch(V, b, z)
    PROVE  u \o v \in Stretch(V, a, z)
<1> DEFINE m == Len(u)
           n == Len(v)
           w == u \o v
<1>1. /\ u \in Seq(Word(V)) /\ m \in Nat /\ Point(u, a, m) = b
      /\ \A i \in 1 .. m : u[i].from = Point(u, a, i - 1)
  BY StretchIs
<1>2. /\ v \in Seq(Word(V)) /\ n \in Nat /\ Point(v, b, n) = z
      /\ \A i \in 1 .. n : v[i].from = Point(v, b, i - 1)
  BY StretchIs
<1>3. /\ w \in Seq(Word(V)) /\ Len(w) = m + n
      /\ \A i \in 1 .. m + n : w[i] = IF i <= m THEN u[i] ELSE v[i - m]
  BY <1>1, <1>2, ConcatProperties
<1> HIDE DEF w, m, n
<1>4. \A i \in 0 .. m + n : Point(w, a, i) = IF i <= m THEN Point(u, a, i) ELSE Point(v, b, i - m)
  <2> SUFFICES ASSUME NEW i \in 0 .. m + n
               PROVE  Point(w, a, i) = IF i <= m THEN Point(u, a, i) ELSE Point(v, b, i - m)
    OBVIOUS
  <2>1. CASE i = 0
    BY <1>1, <2>1 DEF Point
  <2>2. CASE i \in 1 .. m
    <3>1. i # 0 /\ i <= m /\ i \in 1 .. m + n
      BY <1>1, <1>2, <2>2
    <3> QED BY <1>3, <3>1 DEF Point
  <2>3. CASE i \in m + 1 .. m + n
    <3>1. i # 0 /\ ~ (i <= m) /\ i \in 1 .. m + n /\ i - m # 0
      BY <1>1, <1>2, <2>3
    <3> QED BY <1>3, <3>1 DEF Point
  <2> QED BY <1>1, <1>2, <2>1, <2>2, <2>3
<1>5. Point(w, a, m + n) = z
  <2>1. m + n \in 0 .. m + n /\ (n = 0 => m + n <= m) /\ (n # 0 => ~ (m + n <= m)) /\ m + n - m = n
    BY <1>1, <1>2
  <2>2. CASE n = 0
    <3>1. Point(v, b, n) = b /\ m + n = m /\ m \in 0 .. m + n /\ m <= m
      BY <1>1, <2>2 DEF Point
    <3>2. Point(w, a, m) = Point(u, a, m)
      BY <1>4, <3>1
    <3> QED BY <1>1, <1>2, <3>1, <3>2
  <2>3. CASE n # 0
    <3> DEFINE j == m + n
    <3>1. j \in 0 .. m + n /\ ~ (j <= m) /\ j - m = n
      BY <1>1, <1>2, <2>3
    <3> HIDE DEF j
    <3>2. Point(w, a, j) = Point(v, b, n)
      BY <1>4, <3>1
    <3> QED BY <1>2, <3>2 DEF j
  <2> QED BY <2>2, <2>3
<1>6. ASSUME NEW i \in 1 .. m + n PROVE w[i].from = Point(w, a, i - 1)
  <2>0. i - 1 \in 0 .. m + n
    BY <1>1, <1>2
  <2>1. CASE i <= m
    <3>1. i \in 1 .. m /\ i - 1 <= m
      BY <1>1, <2>1
    <3> QED BY <1>1, <1>3, <1>4, <2>0, <2>1, <3>1
  <2>2. CASE i = m + 1
    <3>1. i - m = 1 /\ 1 \in 1 .. n /\ ~ (i <= m) /\ i - 1 = m /\ m <= m
      BY <1>1, <1>2, <2>2
    <3>2. w[i] = v[1] /\ v[1].from = Point(v, b, 1 - 1) /\ Point(w, a, i - 1) = Point(u, a, m)
      BY <1>2, <1>3, <1>4, <2>0, <3>1
    <3>3. Point(v, b, 1 - 1) = b
      BY DEF Point
    <3> QED BY <1>1, <3>2, <3>3
  <2>3. CASE i > m + 1
    <3>1. i - m \in 1 .. n /\ ~ (i <= m) /\ ~ (i - 1 <= m) /\ (i - 1) - m = (i - m) - 1
      BY <1>1, <1>2, <2>3
    <3>2. w[i] = v[i - m] /\ v[i - m].from = Point(v, b, (i - m) - 1)
          /\ Point(w, a, i - 1) = Point(v, b, (i - 1) - m)
      BY <1>2, <1>3, <1>4, <2>0, <3>1
    <3> QED BY <3>1, <3>2
  <2> QED BY <1>1, <1>2, <2>1, <2>2, <2>3
<1>7. w \in Stretch(V, a, z)
  BY <1>3, <1>5, <1>6, StretchMade
<1> QED BY <1>7 DEF w

\* The words from i to j stand for what lies between the places around them.
LEMMA StretchCut ==
    ASSUME NEW V, NEW a \in Int, NEW z \in Int, NEW ws \in Stretch(V, a, z),
           NEW i \in 1 .. Len(ws) + 1, NEW j \in 0 .. Len(ws), i <= j + 1
    PROVE  /\ SubSeq(ws, i, j) \in Stretch(V, Point(ws, a, i - 1), Point(ws, a, j))
           /\ Point(ws, a, i - 1) \in Int /\ Point(ws, a, j) \in Int
           /\ Len(SubSeq(ws, i, j)) = j - i + 1
           /\ \A m \in 1 .. j - i + 1 : SubSeq(ws, i, j)[m] = ws[i + m - 1]
<1> DEFINE u == SubSeq(ws, i, j)
           n == j - i + 1
           p == Point(ws, a, i - 1)
<1>1. /\ ws \in Seq(Word(V)) /\ Len(ws) \in Nat /\ \A m \in 1 .. Len(ws) : ws[m] \in Word(V)
      /\ \A m \in 0 .. Len(ws) : Point(ws, a, m) \in Int
      /\ \A m \in 1 .. Len(ws) : ws[m].from = Point(ws, a, m - 1) /\ ws[m].upto = Point(ws, a, m)
  BY StretchIs
<1>2. n \in Nat /\ i - 1 \in 0 .. Len(ws) /\ \A m \in i .. j : m \in 1 .. Len(ws)
  BY <1>1
<1>3. u \in Seq(Word(V)) /\ Len(u) = n /\ \A m \in 1 .. n : u[m] = ws[i + m - 1]
  <2>1. \A m \in i .. j : ws[m] \in Word(V)
    BY <1>1, <1>2
  <2>2. i \in Int /\ j \in Int
    OBVIOUS
  <2>3. u \in Seq(Word(V)) /\ Len(u) = (IF i <= j THEN j - i + 1 ELSE 0)
        /\ \A m \in 1 .. j - i + 1 : u[m] = ws[i + m - 1]
    BY <2>1, <2>2, SubSeqProperties
  <2>4. (IF i <= j THEN j - i + 1 ELSE 0) = n
    BY <1>1
  <2> QED BY <2>3, <2>4
<1> HIDE DEF u
<1>4. \A m \in 0 .. n : Point(u, p, m) = Point(ws, a, i + m - 1)
  <2> SUFFICES ASSUME NEW m \in 0 .. n PROVE Point(u, p, m) = Point(ws, a, i + m - 1)
    OBVIOUS
  <2>1. CASE m = 0
    BY <2>1 DEF Point
  <2>2. CASE m # 0
    <3>1. m \in 1 .. n /\ i + m - 1 # 0 /\ i + m - 1 \in 1 .. Len(ws)
      BY <1>2, <2>2
    <3>2. Point(u, p, m) = u[m].upto /\ u[m] = ws[i + m - 1]
      BY <1>3, <2>2, <3>1 DEF Point
    <3> QED BY <1>1, <3>1, <3>2
  <2> QED BY <2>1, <2>2
<1>5. Point(u, p, n) = Point(ws, a, j)
  <2>1. n \in 0 .. n /\ i + n - 1 = j
    BY <1>2
  <2> QED BY <1>4, <2>1
<1>6. ASSUME NEW m \in 1 .. n PROVE u[m].from = Point(u, p, m - 1)
  <2>1. m - 1 \in 0 .. n /\ i + m - 1 \in 1 .. Len(ws) /\ i + (m - 1) - 1 = (i + m - 1) - 1
    BY <1>2
  <2>2. u[m] = ws[i + m - 1] /\ ws[i + m - 1].from = Point(ws, a, (i + m - 1) - 1)
    BY <1>1, <1>3, <2>1
  <2> QED BY <1>4, <2>1, <2>2
<1>7. p \in Int /\ Point(ws, a, j) \in Int
  BY <1>1, <1>2
<1> HIDE DEF p, n
<1>8. u \in Stretch(V, p, Point(ws, a, j))
  BY <1>3, <1>5, <1>6, <1>7, StretchMade
<1> QED BY <1>3, <1>7, <1>8 DEF u, n, p

\* Words changed one by one, in anything but what they stand for.
LEMMA StretchLike ==
    ASSUME NEW V, NEW U, NEW a \in Int, NEW z \in Int, NEW ws \in Stretch(V, a, z),
           NEW f \in [1 .. Len(ws) -> Word(U)],
           \A i \in 1 .. Len(ws) : f[i].from = ws[i].from /\ f[i].upto = ws[i].upto
    PROVE  f \in Stretch(U, a, z) /\ Len(f) = Len(ws)
<1>1. /\ Len(ws) \in Nat /\ Point(ws, a, Len(ws)) = z
      /\ \A i \in 1 .. Len(ws) : ws[i].from = Point(ws, a, i - 1)
  BY StretchIs
<1>2. f \in Seq(Word(U)) /\ Len(f) = Len(ws)
  BY <1>1, MappingIsSeq
<1>3. \A i \in 0 .. Len(ws) : Point(f, a, i) = Point(ws, a, i)
  BY DEF Point
<1>4. \A i \in 1 .. Len(f) : f[i].from = Point(f, a, i - 1)
  <2> SUFFICES ASSUME NEW i \in 1 .. Len(ws) PROVE f[i].from = Point(f, a, i - 1)
    BY <1>2
  <2>1. i - 1 \in 0 .. Len(ws)
    BY <1>1
  <2> QED BY <1>1, <1>3, <2>1
<1>5. Point(f, a, Len(f)) = z
  <2>1. Len(ws) \in 0 .. Len(ws)
    BY <1>1
  <2> QED BY <1>1, <1>2, <1>3, <2>1
<1> QED BY <1>2, <1>4, <1>5, StretchMade

\* A stretch of V is one of U when V is part of U.
LEMMA StretchOf ==
    ASSUME NEW V, NEW U, V \subseteq U, NEW a, NEW z
    PROVE  Stretch(V, a, z) \subseteq Stretch(U, a, z)
<1>1. Word(V) \subseteq Word(U)
  BY WordOf
<1>2. Seq(Word(V)) \subseteq Seq(Word(U))
  <2> SUFFICES ASSUME NEW s \in Seq(Word(V)) PROVE s \in Seq(Word(U))
    OBVIOUS
  <2>1. Len(s) \in Nat /\ s \in [1 .. Len(s) -> Word(V)]
    BY LenProperties
  <2>2. s \in [1 .. Len(s) -> Word(U)]
    BY <1>1, <2>1
  <2> QED BY <2>1, <2>2, SeqDef
<1> QED BY <1>2 DEF Stretch

-----------------------------------------------------------------------------
(* Reading from left to right                                              *)

\* What LET rest[i \in 1 .. n + 1] == ... IN rest[1] defines.
Reads(r, n, part, next) ==
    r = [i \in 1 .. n + 1 |-> IF i = n + 1 THEN <<>> ELSE part[i] \o r[next[i]]]

\* Where every part stands for what lies before the place at which reading goes
\* on, what is written from the start stands for everything.
LEMMA ReadsStretch ==
    ASSUME NEW V, NEW n \in Nat, NEW p \in [1 .. n + 1 -> Int],
           NEW part \in [1 .. n -> Seq(Word(V))], NEW next \in [1 .. n -> 1 .. n + 1],
           \A i \in 1 .. n : next[i] > i /\ part[i] \in Stretch(V, p[i], p[next[i]]),
           NEW q, \A r : Reads(r, n, part, next) => Reads(q, n, part, next)
    PROVE  q[1] \in Stretch(V, p[1], p[n + 1])
<1>0. n + 1 \in 1 .. n + 1 /\ \A i \in 1 .. n : i \in 1 .. n + 1 /\ i # n + 1
  OBVIOUS
<1>1. Reads(q, n, part, next)
  <2>1. PICK r \in [1 .. n + 1 -> Seq(Word(V))] : RestOf(r, n, part, next)
    BY RestExists
  <2>2. \A i \in 1 .. n + 1 : i # n + 1 => i \in 1 .. n
    OBVIOUS
  <2>3. \A i \in 1 .. n + 1 : r[i] = IF i = n + 1 THEN <<>> ELSE part[i] \o r[next[i]]
    BY <2>1, <2>2, Zenon DEF RestOf
  <2>4. r = [i \in 1 .. n + 1 |-> r[i]]
    BY <2>1
  <2>5. r = [i \in 1 .. n + 1 |-> IF i = n + 1 THEN <<>> ELSE part[i] \o r[next[i]]]
    BY <2>3, <2>4, Zenon
  <2>6. Reads(r, n, part, next)
    BY <2>5, Zenon DEF Reads
  <2> QED BY <2>6, Zenon
<1>2. q[n + 1] = <<>> /\ \A i \in 1 .. n : q[i] = part[i] \o q[next[i]]
  BY <1>0, <1>1, Zenon DEF Reads
<1> DEFINE S == {m \in 0 .. n : \A i \in n + 1 - m .. n + 1 : q[i] \in Stretch(V, p[i], p[n + 1])}
<1>3. 0 \in S
  <2>1. 0 \in 0 .. n /\ \A i \in n + 1 - 0 .. n + 1 : i = n + 1
    OBVIOUS
  <2>2. <<>> \in Stretch(V, p[n + 1], p[n + 1])
    BY StretchNone
  <2> QED BY <1>2, <2>1, <2>2, Zenon
<1>4. ASSUME NEW m \in 0 .. n - 1, m \in S PROVE m + 1 \in S
  <2> SUFFICES ASSUME NEW i \in n + 1 - (m + 1) .. n + 1 PROVE q[i] \in Stretch(V, p[i], p[n + 1])
    OBVIOUS
  <2>1. \A j \in n + 1 - m .. n + 1 : q[j] \in Stretch(V, p[j], p[n + 1])
    BY <1>4
  <2>2. CASE i \in n + 1 - m .. n + 1
    BY <2>1, <2>2
  <2>3. CASE i = n - m
    <3>1. i \in 1 .. n
      BY <2>3
    <3>2. next[i] \in n + 1 - m .. n + 1 /\ part[i] \in Stretch(V, p[i], p[next[i]])
      BY <2>3, <3>1
    <3>3. q[i] = part[i] \o q[next[i]] /\ q[next[i]] \in Stretch(V, p[next[i]], p[n + 1])
      BY <1>2, <2>1, <3>1, <3>2
    <3>4. p[i] \in Int /\ p[next[i]] \in Int /\ p[n + 1] \in Int
      BY <3>1
    <3> QED BY <3>2, <3>3, <3>4, StretchConcat
  <2>4. i \in n + 1 - m .. n + 1 \/ i = n - m
    OBVIOUS
  <2> QED BY <2>2, <2>3, <2>4
<1>5. n \in S
  <2> HIDE DEF S
  <2>1. 0 .. n \subseteq S
    BY <1>3, <1>4, InductionUpTo
  <2> QED BY <2>1
<1> QED BY <1>5

-----------------------------------------------------------------------------
(* Phonetic phrases                                                        *)

\* The tables of phonetic rules: a phrase of two words or more, and for each word
\* put in its place a mark.
LEMMA RulesAre ==
    ASSUME NEW m \in DOMAIN PhoneticRules
    PROVE  LET rule == PhoneticRules[m]
           IN  /\ Len(rule.heard) \in Nat \ {0} /\ DOMAIN rule.heard = 1 .. Len(rule.heard)
               /\ Len(rule.said) \in Nat \ {0}
               /\ \A d \in 1 .. Len(rule.said) : rule.said[d] \in Put /\ rule.marks[d] \in Marks
               /\ \/ Len(rule.said) <= Len(rule.heard)
                  \/ /\ Len(rule.said) = Len(rule.heard) + 1
                     /\ rule.heard[Len(rule.heard)] = "copy"
<1>1. m \in {1, 2, 3}
  BY DEF PhoneticRules
<1>2. CASE m = 1
  <2> DEFINE heard == <<"as", "a", "copy">>
             said == <<"as", "the", "court", "pleases">>
             marks == <<"", "", "", ".">>
  <2>1. PhoneticRules[m] = [heard |-> heard, said |-> said, marks |-> marks, caps |-> {1, 3}]
    BY <1>2 DEF PhoneticRules
  <2>2. Len(heard) = 3 /\ DOMAIN heard = 1 .. Len(heard) /\ Len(said) = 4 /\ Len(marks) = 4
    OBVIOUS
  <2>3. said \in Seq(Put) /\ marks \in Seq(Marks)
    BY DEF Marks, Put
  <2>4. heard[Len(heard)] = "copy"
    OBVIOUS
  <2> HIDE DEF heard, said, marks
  <2>5. PhoneticRules[m].heard = heard /\ PhoneticRules[m].said = said /\ PhoneticRules[m].marks = marks
    BY <2>1
  <2>6. \A d \in 1 .. Len(said) : said[d] \in Put /\ marks[d] \in Marks
    BY <2>2, <2>3, ElementOfSeq
  <2>7. Len(heard) \in Nat \ {0} /\ Len(said) \in Nat \ {0}
    BY <2>2
  <2>8. Len(said) = Len(heard) + 1
    BY <2>2
  <2> QED BY <2>2, <2>4, <2>5, <2>6, <2>7, <2>8, Zenon
<1>3. CASE m = 2
  <2> DEFINE heard == <<"yes", "my", "lord", "lord">>
             said == <<"yes", "my", "lord">>
             marks == <<",", "", ".">>
  <2>1. PhoneticRules[m] = [heard |-> heard, said |-> said, marks |-> marks, caps |-> {1, 2, 3}]
    BY <1>3 DEF PhoneticRules
  <2>2. Len(heard) = 4 /\ DOMAIN heard = 1 .. Len(heard) /\ Len(said) = 3 /\ Len(marks) = 3
    OBVIOUS
  <2>3. said \in Seq(Put) /\ marks \in Seq(Marks)
    BY DEF Marks, Put
  <2> HIDE DEF heard, said, marks
  <2>4. PhoneticRules[m].heard = heard /\ PhoneticRules[m].said = said /\ PhoneticRules[m].marks = marks
    BY <2>1
  <2>5. \A d \in 1 .. Len(said) : said[d] \in Put /\ marks[d] \in Marks
    BY <2>2, <2>3, ElementOfSeq
  <2>6. Len(heard) \in Nat \ {0} /\ Len(said) \in Nat \ {0}
    BY <2>2
  <2>7. Len(said) <= Len(heard)
    BY <2>2
  <2> QED BY <2>2, <2>4, <2>5, <2>6, <2>7, Zenon
<1>4. CASE m = 3
  <2> DEFINE heard == <<"already", "apply">>
             said == <<"orally", "apply">>
             marks == <<"", "">>
  <2>1. PhoneticRules[m] = [heard |-> heard, said |-> said, marks |-> marks, caps |-> {}]
    BY <1>4 DEF PhoneticRules
  <2>2. Len(heard) = 2 /\ DOMAIN heard = 1 .. Len(heard) /\ Len(said) = 2 /\ Len(marks) = 2
    OBVIOUS
  <2>3. said \in Seq(Put) /\ marks \in Seq(Marks)
    BY DEF Marks, Put
  <2> HIDE DEF heard, said, marks
  <2>4. PhoneticRules[m].heard = heard /\ PhoneticRules[m].said = said /\ PhoneticRules[m].marks = marks
    BY <2>1
  <2>5. \A d \in 1 .. Len(said) : said[d] \in Put /\ marks[d] \in Marks
    BY <2>2, <2>3, ElementOfSeq
  <2>6. Len(heard) \in Nat \ {0} /\ Len(said) \in Nat \ {0}
    BY <2>2
  <2>7. Len(said) <= Len(heard)
    BY <2>2
  <2> QED BY <2>2, <2>4, <2>5, <2>6, <2>7, Zenon
<1> QED BY <1>1, <1>2, <1>3, <1>4

\* The greater of two numbers.
LEMMA MaxPair ==
    ASSUME NEW a \in Int, NEW b \in Int
    PROVE  Max({a, b}) \in {a, b} /\ Max({a, b}) >= a /\ Max({a, b}) >= b
<1>1. \E x \in {a, b} : \A y \in {a, b} : x >= y
  <2>1. CASE a >= b
    BY <2>1
  <2>2. CASE b >= a
    BY <2>2
  <2> QED BY <2>1, <2>2
<1> QED BY <1>1 DEF Max

\* A phrase of h words stands for at least as many places, one more with "copy"
\* at its end.
LEMMA PhraseSize ==
    ASSUME NEW V, NEW a \in Int, NEW z \in Int, NEW ws \in Stretch(V, a, z),
           NEW i \in 1 .. Len(ws), NEW j \in i .. Len(ws)
    PROVE  /\ ws[j].upto >= ws[i].from + (j - i + 1)
           /\ ws[j].tok = "copy" => ws[j].upto >= ws[i].from + (j - i + 2)
<1>1. /\ Len(ws) \in Nat /\ \A m \in 1 .. Len(ws) : ws[m] \in Word(V)
      /\ \A m \in 1 .. Len(ws) : ws[m].from = Point(ws, a, m - 1) /\ ws[m].upto = Point(ws, a, m)
  <2>1. Len(ws) \in Nat /\ \A m \in 1 .. Len(ws) : ws[m] \in Word(V)
    BY StretchIs
  <2>2. ASSUME NEW m \in 1 .. Len(ws) PROVE ws[m].from = Point(ws, a, m - 1) /\ ws[m].upto = Point(ws, a, m)
    BY StretchIs
  <2> QED BY <2>1, <2>2
<1>2. j - i \in Nat /\ \A m \in 0 .. j - i : i + m \in 1 .. Len(ws)
  BY <1>1
<1>3. \A m \in 1 .. Len(ws) : ws[m].from \in Nat /\ ws[m].upto \in Nat /\ ws[m].from < ws[m].upto
  BY <1>1, WordIs
<1> DEFINE S == {m \in 0 .. j - i : ws[i + m].from >= ws[i].from + m}
<1>4. 0 \in S
  <2>1. i + 0 = i /\ 0 \in 0 .. j - i
    BY <1>2
  <2> QED BY <1>3, <2>1
<1>5. ASSUME NEW m \in 0 .. (j - i) - 1, m \in S PROVE m + 1 \in S
  <2>1. m \in 0 .. j - i /\ m + 1 \in 0 .. j - i /\ i + m \in 1 .. Len(ws) /\ i + (m + 1) \in 1 .. Len(ws)
        /\ (i + (m + 1)) - 1 = i + m
    BY <1>2
  <2>2. ws[i + (m + 1)].from = ws[i + m].upto
    BY <1>1, <2>1
  <2>3. ws[i + m].from >= ws[i].from + m
    BY <1>5
  <2>4. ws[i + (m + 1)].from >= ws[i].from + (m + 1)
    <3> DEFINE u == ws[i + m].from
               v == ws[i + m].upto
               w == ws[i + (m + 1)].from
               o == ws[i].from
    <3>1. u \in Nat /\ v \in Nat /\ u < v /\ o \in Nat
      BY <1>1, <1>3, <2>1
    <3>2. w = v /\ u >= o + m /\ m \in Int
      BY <2>1, <2>2, <2>3
    <3> HIDE DEF u, v, w, o
    <3>3. w >= o + (m + 1)
      BY <3>1, <3>2
    <3> QED BY <3>3 DEF w, o
  <2> QED BY <2>1, <2>4
<1>6. j - i \in S
  <2> HIDE DEF S
  <2>1. 0 .. (j - i) \subseteq S
    BY <1>2, <1>4, <1>5, InductionUpTo
  <2> QED BY <1>2, <2>1
<1>7. ws[j].from >= ws[i].from + (j - i)
  <2>1. i + (j - i) = j
    OBVIOUS
  <2> QED BY <1>6, <2>1
<1>8. ws[j] \in Word(V) /\ j \in 1 .. Len(ws)
  BY <1>1
<1>9. ws[j].tok = "copy" => ws[j].from + 1 < ws[j].upto
  BY <1>8 DEF Word, Sized
<1> DEFINE u == ws[j].from
           v == ws[j].upto
           o == ws[i].from
           k == j - i
<1>10. u \in Nat /\ v \in Nat /\ u < v /\ o \in Nat /\ k \in Nat
  BY <1>2, <1>3, <1>8
<1>11. u >= o + k /\ (ws[j].tok = "copy" => u + 1 < v)
  BY <1>7, <1>9
<1> HIDE DEF u, v, o, k
<1>12. v >= o + (k + 1) /\ (ws[j].tok = "copy" => v >= o + (k + 2))
  BY <1>10, <1>11
<1> QED BY <1>12 DEF u, v, o, k

\* What a phonetic rule writes stands for what it read, and its match moves the
\* reader on.
LEMMA ReplaceIs ==
    ASSUME NEW V, NEW a \in Int, NEW e \in Int, NEW ws \in Stretch(V, a, e),
           NEW i \in 1 .. Len(ws), NEW m \in Matching(ws, i)
    PROVE  LET j == i + Len(PhoneticRules[m].heard)
           IN  /\ j \in i + 1 .. Len(ws) + 1
               /\ Replace(ws, i, PhoneticRules[m]) \in Stretch(V, Point(ws, a, i - 1), Point(ws, a, j - 1))
<1> DEFINE rule == PhoneticRules[m]
           z == i + Len(rule.heard) - 1
           n == Len(rule.said)
           dur == Max({50, ws[z].en - ws[i].st})
           x == Replace(ws, i, rule)
<1>0. /\ Len(ws) \in Nat /\ \A l \in 1 .. Len(ws) : ws[l] \in Word(V)
      /\ \A l \in 1 .. Len(ws) : ws[l].from = Point(ws, a, l - 1) /\ ws[l].upto = Point(ws, a, l)
  BY StretchIs
<1>1. m \in DOMAIN PhoneticRules /\ PhraseAt(ws, i, rule.heard)
  BY Zenon DEF Matching
<1>2. /\ Len(rule.heard) \in Nat \ {0} /\ n \in Nat \ {0}
      /\ \A d \in 1 .. n : rule.said[d] \in Put /\ rule.marks[d] \in Marks
      /\ \/ n <= Len(rule.heard)
         \/ n = Len(rule.heard) + 1 /\ rule.heard[Len(rule.heard)] = "copy"
  BY <1>1, RulesAre
<1>3. z <= Len(ws) /\ \A l \in DOMAIN rule.heard : ws[i + l - 1].tok = rule.heard[l]
  BY <1>1, Zenon DEF PhraseAt
<1>4. DOMAIN rule.heard = 1 .. Len(rule.heard)
  BY <1>1, RulesAre
<1> HIDE DEF rule
<1>5. z \in i .. Len(ws) /\ z \in 1 .. Len(ws) /\ z - i + 1 = Len(rule.heard)
  BY <1>0, <1>2, <1>3
<1>6. ws[i] \in Word(V) /\ ws[z] \in Word(V)
  BY <1>0, <1>5
<1>7. ws[i].from \in Nat /\ ws[z].upto \in Nat /\ ws[z].upto > ws[i].from + (n - 1)
  <2>1. /\ ws[z].upto >= ws[i].from + (z - i + 1)
        /\ ws[z].tok = "copy" => ws[z].upto >= ws[i].from + (z - i + 2)
    BY <1>5, PhraseSize
  <2>2. ws[z].tok = rule.heard[Len(rule.heard)]
    <3>1. Len(rule.heard) \in DOMAIN rule.heard
      BY <1>2, <1>4
    <3> QED BY <1>3, <3>1
  <2>3. ws[i].from \in Nat /\ ws[z].upto \in Nat
    BY <1>6, WordIs
  <2> DEFINE lo == ws[i].from
             hi == ws[z].upto
             h == Len(rule.heard)
             copy == rule.heard[h] = "copy"
  <2>4. hi >= lo + (z - i + 1) /\ (copy => hi >= lo + (z - i + 2))
    BY <2>1, <2>2
  <2>5. lo \in Nat /\ hi \in Nat /\ h \in Nat \ {0} /\ n \in Nat \ {0} /\ z - i + 1 = h /\ z \in Int
    BY <1>2, <1>5, <2>3
  <2>6. n <= h \/ (n = h + 1 /\ copy)
    BY <1>2
  <2> HIDE DEF z, n, lo, hi, h, copy
  <2>7. hi > lo + (n - 1)
    <3>1. CASE n <= h
      BY <2>4, <2>5, <3>1
    <3>2. CASE n = h + 1 /\ copy
      BY <2>4, <2>5, <3>2
    <3> QED BY <2>6, <3>1, <3>2
  <2> QED BY <2>3, <2>7 DEF lo, hi
<1>8. dur \in Int
  <2>1. 50 \in Int /\ ws[z].en - ws[i].st \in Int
    <3> HIDE DEF z
    <3>1. \A w \in Word(V) : w.en \in Int /\ w.st \in Int
      BY WordIs
    <3> QED BY <1>6, <3>1
  <2> QED BY <2>1, MaxPair
<1> HIDE DEF n, z, dur
<1>9. \A d \in 0 .. n : Round(d * dur, n) \in Int
  BY <1>2, <1>8 DEF Round
<1>10. x = [d \in 1 .. n |->
              [ws[i] EXCEPT !.tok = rule.said[d], !.seg = 0,
                            !.from = ws[i].from + d - 1,
                            !.upto = IF d = n THEN ws[z].upto ELSE ws[i].from + d,
                            !.mark = IF d = n /\ ws[z].mark # "" THEN ws[z].mark ELSE rule.marks[d],
                            !.cap = d \in rule.caps,
                            !.st = ws[i].st + Round((d - 1) * dur, n),
                            !.en = ws[i].st + Round(d * dur, n)]]
  BY Zenon DEF Replace, n, z, dur
<1>11. ASSUME NEW d \in 1 .. n
       PROVE  /\ x[d] \in Word(V)
              /\ x[d].from = ws[i].from + d - 1
              /\ x[d].upto = IF d = n THEN ws[z].upto ELSE ws[i].from + d
  <2> DEFINE w == ws[i]
             tok == rule.said[d]
             f == ws[i].from + d - 1
             u == IF d = n THEN ws[z].upto ELSE ws[i].from + d
             mark == IF d = n /\ ws[z].mark # "" THEN ws[z].mark ELSE rule.marks[d]
             cap == d \in rule.caps
             st == ws[i].st + Round((d - 1) * dur, n)
             en == ws[i].st + Round(d * dur, n)
             y == [w EXCEPT !.tok = tok, !.seg = 0, !.from = f, !.upto = u,
                            !.mark = mark, !.cap = cap, !.st = st, !.en = en]
  <2>1. d \in 0 .. n /\ d - 1 \in 0 .. n /\ d \in Nat /\ n \in Nat
    BY <1>2
  <2>2. ws[i].st \in Int /\ ws[z].mark \in Marks
    BY <1>6, WordIs
  <2>3. st \in Int /\ en \in Int
    BY <1>9, <2>1, <2>2
  <2>4. f \in Nat /\ u \in Nat /\ f < u
    <3>1. CASE d = n
      BY <1>7, <2>1, <3>1
    <3>2. CASE d # n
      BY <1>7, <2>1, <3>2
    <3> QED BY <3>1, <3>2
  <2>5. mark \in Marks /\ tok \in Put /\ cap \in BOOLEAN
    <3>1. tok \in Put /\ rule.marks[d] \in Marks
      BY <1>2
    <3>2. cap \in BOOLEAN
      OBVIOUS
    <3> QED BY <2>2, <3>1, <3>2
  <2>6. w \in WordFields(V)
    BY <1>6 DEF Word
  <2>7. x[d] = y
    BY <1>10, Zenon
  <2> HIDE DEF w, tok, f, u, mark, cap, st, en
  <2>8. y \in WordFields(V) /\ y.from = f /\ y.upto = u /\ y.tok = tok
    BY <2>3, <2>4, <2>5, <2>6 DEF WordFields, Tokens
  <2>9. tok # "copy"
    BY <2>5 DEF Put
  <2>10. y \in Word(V)
    BY <2>4, <2>8, <2>9 DEF Word, Sized
  <2> QED BY <2>7, <2>8, <2>10 DEF f, u
<1>12. x \in [1 .. n -> Word(V)]
  <2>1. x = [d \in 1 .. n |-> x[d]]
    BY <1>10, Zenon
  <2> HIDE DEF x
  <2> QED BY <1>11, <2>1
<1> HIDE DEF x
<1>13. x \in Seq(Word(V)) /\ Len(x) = n
  BY <1>2, <1>12, MappingIsSeq
<1> DEFINE p == ws[i].from
<1>14. ASSUME NEW d \in 1 .. n PROVE x[d].from = Point(x, p, d - 1)
  <2>1. CASE d = 1
    <3>1. d - 1 = 0 /\ x[d].from = p + 1 - 1 /\ p \in Nat
      BY <1>7, <1>11, <2>1
    <3>2. p + 1 - 1 = p
      <4> HIDE DEF p
      <4> QED BY <3>1
    <3> QED BY <3>1, <3>2 DEF Point
  <2>2. CASE d # 1
    <3>1. d - 1 # 0 /\ d - 1 \in 1 .. n /\ d - 1 # n
      BY <1>2, <2>2
    <3>2. Point(x, p, d - 1) = p + (d - 1) /\ x[d].from = p + d - 1
      BY <1>11, <3>1 DEF Point
    <3> QED BY <1>7, <3>2
  <2> QED BY <2>1, <2>2
<1>15. Point(x, p, n) = ws[z].upto
  <2>1. n \in 1 .. n /\ n # 0
    BY <1>2
  <2> QED BY <1>11, <2>1 DEF Point
<1>16. x \in Stretch(V, p, ws[z].upto)
  <2>1. p \in Int /\ ws[z].upto \in Int
    BY <1>7
  <2> HIDE DEF p
  <2> QED BY <1>13, <1>14, <1>15, <2>1, StretchMade
<1>17. i + Len(rule.heard) = z + 1 /\ (i + Len(rule.heard)) - 1 = z
  BY <1>2 DEF z
<1>18. p = Point(ws, a, i - 1) /\ ws[z].upto = Point(ws, a, z)
  BY <1>0, <1>5
<1>19. i + Len(rule.heard) \in i + 1 .. Len(ws) + 1
  BY <1>0, <1>5, <1>17
<1> HIDE DEF p
<1> QED BY <1>16, <1>17, <1>18, <1>19 DEF rule, x

StreamRest(r, ws) ==
    r = [i \in 1 .. Len(ws) + 1 |->
            IF i > Len(ws) THEN <<>>
            ELSE IF Matching(ws, i) = {} THEN <<ws[i]>> \o r[i + 1]
            ELSE LET rule == PhoneticRules[Min(Matching(ws, i))]
                 IN  Replace(ws, i, rule) \o r[i + Len(rule.heard)]]

\* Replacing phrases leaves words that stand for the same.
LEMMA StreamIs ==
    ASSUME NEW V, NEW a \in Int, NEW z \in Int, NEW ws \in Stretch(V, a, z)
    PROVE  normalize_word_stream(ws) \in Stretch(V, a, z)
<1> DEFINE n == Len(ws)
           Rule(i) == PhoneticRules[Min(Matching(ws, i))]
           part == [i \in 1 .. n |-> IF Matching(ws, i) = {} THEN <<ws[i]>> ELSE Replace(ws, i, Rule(i))]
           next == [i \in 1 .. n |-> IF Matching(ws, i) = {} THEN i + 1 ELSE i + Len(Rule(i).heard)]
           p == [i \in 1 .. n + 1 |-> Point(ws, a, i - 1)]
           q == CHOOSE r : StreamRest(r, ws)
<1>1. normalize_word_stream(ws) = q[1]
  BY Zenon DEF normalize_word_stream, StreamRest
<1>2. /\ n \in Nat /\ Point(ws, a, 0) = a /\ Point(ws, a, n) = z
      /\ \A i \in 1 .. n : ws[i] \in Word(V) /\ ws[i].from = Point(ws, a, i - 1) /\ ws[i].upto = Point(ws, a, i)
      /\ \A i \in 0 .. n : Point(ws, a, i) \in Int
  BY StretchIs
<1>3. /\ p \in [1 .. n + 1 -> Int] /\ p[1] = a /\ p[n + 1] = z
      /\ \A i \in 1 .. n : p[i] = ws[i].from /\ p[i + 1] = ws[i].upto
  <2>1. /\ \A i \in 1 .. n + 1 : i - 1 \in 0 .. n
        /\ \A i \in 1 .. n : i \in 1 .. n + 1 /\ i + 1 \in 1 .. n + 1 /\ (i + 1) - 1 = i
        /\ 1 \in 1 .. n + 1 /\ n + 1 \in 1 .. n + 1 /\ 1 - 1 = 0 /\ (n + 1) - 1 = n
    BY <1>2
  <2> QED BY <1>2, <2>1
<1>4. ASSUME NEW i \in 1 .. n
      PROVE  next[i] \in 1 .. n + 1 /\ next[i] > i /\ part[i] \in Stretch(V, p[i], p[next[i]])
  <2>1. CASE Matching(ws, i) = {}
    <3>1. part[i] = <<ws[i]>> /\ next[i] = i + 1
      BY <2>1
    <3>2. <<ws[i]>> \in Stretch(V, p[i], p[i + 1])
      BY <1>2, <1>3, StretchOne
    <3> HIDE DEF part, next, p
    <3> QED BY <1>2, <3>1, <3>2
  <2>2. CASE Matching(ws, i) # {}
    <3>1. DOMAIN PhoneticRules = 1 .. 3
      BY DEF PhoneticRules
    <3>2. Matching(ws, i) \in SUBSET (1 .. 3)
      <4>1. \A m \in Matching(ws, i) : m \in DOMAIN PhoneticRules
        BY Zenon DEF Matching
      <4> QED BY <3>1, <4>1
    <3>3. Min(Matching(ws, i)) \in Matching(ws, i)
      BY <2>2, <3>2, MinUpTo
    <3>4. part[i] = Replace(ws, i, Rule(i)) /\ next[i] = i + Len(Rule(i).heard)
      BY <2>2, Zenon
    <3> DEFINE j == i + Len(Rule(i).heard)
    <3>5. /\ j \in i + 1 .. n + 1
          /\ Replace(ws, i, Rule(i)) \in Stretch(V, Point(ws, a, i - 1), Point(ws, a, j - 1))
      BY <3>3, ReplaceIs
    <3> HIDE DEF Rule, j
    <3>6. j \in 1 .. n + 1 /\ j > i /\ i \in 1 .. n + 1
      BY <1>2, <3>5
    <3>7. p[i] = Point(ws, a, i - 1) /\ p[j] = Point(ws, a, j - 1)
      BY <3>6
    <3>8. part[i] = Replace(ws, i, Rule(i)) /\ next[i] = j
      BY <3>4 DEF j
    <3> HIDE DEF part, next, p
    <3> QED BY <3>5, <3>6, <3>7, <3>8
  <2> QED BY <2>1, <2>2
<1>5. ASSUME NEW r, NEW i \in 1 .. n + 1
      PROVE  (IF i > Len(ws) THEN <<>>
              ELSE IF Matching(ws, i) = {} THEN <<ws[i]>> \o r[i + 1]
              ELSE LET rule == PhoneticRules[Min(Matching(ws, i))]
                   IN  Replace(ws, i, rule) \o r[i + Len(rule.heard)])
             = (IF i = n + 1 THEN <<>> ELSE part[i] \o r[next[i]])
  <2>1. CASE i = n + 1
    <3>1. i > Len(ws)
      BY <1>2, <2>1
    <3> QED BY <2>1, <3>1, Zenon
  <2>2. CASE i # n + 1
    <3>1. ~ (i > Len(ws)) /\ i \in 1 .. n
      BY <1>2, <2>2
    <3>2. CASE Matching(ws, i) = {}
      <4>1. part[i] = <<ws[i]>> /\ next[i] = i + 1
        BY <3>1, <3>2, Zenon
      <4> HIDE DEF part, next
      <4> QED BY <2>2, <3>1, <3>2, <4>1, Zenon
    <3>3. CASE Matching(ws, i) # {}
      <4>1. part[i] = Replace(ws, i, Rule(i)) /\ next[i] = i + Len(Rule(i).heard)
        BY <3>1, <3>3, Zenon
      <4> HIDE DEF part, next
      <4> QED BY <2>2, <3>1, <3>3, <4>1, Zenon
    <3> QED BY <3>2, <3>3
  <2> QED BY <2>1, <2>2
<1>6. part \in [1 .. n -> Seq(Word(V))] /\ next \in [1 .. n -> 1 .. n + 1]
  <2>1. part = [i \in 1 .. n |-> part[i]] /\ next = [i \in 1 .. n |-> next[i]]
    BY Zenon
  <2> HIDE DEF part, next, p
  <2>2. \A i \in 1 .. n : part[i] \in Seq(Word(V)) /\ next[i] \in 1 .. n + 1
    BY <1>4 DEF Stretch
  <2> QED BY <2>1, <2>2
<1> HIDE DEF part, next, n, p
<1>7. \A r : StreamRest(r, ws) <=> Reads(r, n, part, next)
  BY <1>5, Zenon DEF StreamRest, Reads, n
<1>8. \A r : Reads(r, n, part, next) => Reads(q, n, part, next)
  <2> SUFFICES ASSUME NEW r, Reads(r, n, part, next) PROVE Reads(q, n, part, next)
    OBVIOUS
  <2>1. StreamRest(r, ws)
    BY <1>7
  <2>2. StreamRest(q, ws)
    BY <2>1, Zenon
  <2> HIDE DEF q
  <2> QED BY <1>7, <2>2
<1> HIDE DEF q
<1>9. q[1] \in Stretch(V, p[1], p[n + 1])
  BY <1>2, <1>3, <1>4, <1>6, <1>8, ReadsStretch
<1> QED BY <1>1, <1>3, <1>9

-----------------------------------------------------------------------------
(* Joining                                                                 *)

\* The joined word stands for what its parts and those between stood for.
LEMMA JoinIs ==
    ASSUME NEW V, NEW a \in Int, NEW z \in Int, NEW ws \in Stretch(V, a, z),
           NEW i \in 1 .. Len(ws), NEW j \in i .. Len(ws), NEW tok \in Put
    PROVE  /\ Join(ws, i, j, tok) \in Word(V) /\ Join(ws, i, j, tok).tok = tok
           /\ <<Join(ws, i, j, tok)>> \in Stretch(V, ws[i].from, ws[j].upto)
<1> DEFINE w == ws[i]
           mark == ws[j].mark
           en == ws[j].en
           u == ws[j].upto
           x == [w EXCEPT !.tok = tok, !.mark = mark, !.en = en, !.upto = u]
<1>1. Len(ws) \in Nat /\ \A m \in 1 .. Len(ws) : ws[m] \in Word(V)
  BY StretchIs
<1>2. j \in 1 .. Len(ws)
  BY <1>1
<1>3. ws[i] \in Word(V) /\ ws[j] \in Word(V)
  BY <1>1, <1>2
<1>4. mark \in Marks /\ en \in Int /\ u \in Nat /\ w \in WordFields(V)
  BY <1>3 DEF Word, WordFields
<1>5. ws[i].from \in Nat /\ ws[i].from < u
  <2>1. u >= ws[i].from + (j - i + 1)
    BY PhraseSize
  <2>2. ws[i].from \in Nat
    BY <1>3, WordIs
  <2> HIDE DEF u
  <2> QED BY <1>2, <1>4, <2>1, <2>2
<1>6. Join(ws, i, j, tok) = x
  BY DEF Join
<1>7. w.from = ws[i].from
  OBVIOUS
<1> HIDE DEF w, mark, en, u
<1>8. x \in WordFields(V) /\ x.from = w.from /\ x.upto = u /\ x.tok = tok
  BY <1>4 DEF WordFields, Tokens
<1>9. tok # "copy"
  BY DEF Put
<1> HIDE DEF x
<1>10. x \in Word(V)
  BY <1>5, <1>7, <1>8, <1>9 DEF Word, Sized
<1>11. <<x>> \in Stretch(V, x.from, x.upto)
  BY <1>10, StretchOne
<1> QED BY <1>6, <1>7, <1>8, <1>10, <1>11 DEF u

NumberLetterRest(r, ws) ==
    r = [i \in 1 .. Len(ws) + 1 |->
            IF i > Len(ws) THEN <<>>
            ELSE IF NumberLetterAt(ws, i) THEN <<Join(ws, i, i + 1, "5A")>> \o r[i + 2]
            ELSE <<ws[i]>> \o r[i + 1]]

\* Identifiers put together stand for their parts.
LEMMA NumberLettersAre ==
    ASSUME NEW V, NEW a \in Int, NEW z \in Int, NEW ws \in Stretch(V, a, z)
    PROVE  merge_number_letter_words(ws) \in Stretch(V, a, z)
<1> DEFINE n == Len(ws)
           part == [i \in 1 .. n |-> IF NumberLetterAt(ws, i) THEN <<Join(ws, i, i + 1, "5A")>> ELSE <<ws[i]>>]
           next == [i \in 1 .. n |-> IF NumberLetterAt(ws, i) THEN i + 2 ELSE i + 1]
           p == [i \in 1 .. n + 1 |-> Point(ws, a, i - 1)]
           q == CHOOSE r : NumberLetterRest(r, ws)
<1>1. merge_number_letter_words(ws) = q[1]
  BY Zenon DEF merge_number_letter_words, NumberLetterRest
<1>2. /\ n \in Nat /\ Point(ws, a, 0) = a /\ Point(ws, a, n) = z
      /\ \A i \in 1 .. n : ws[i] \in Word(V) /\ ws[i].from = Point(ws, a, i - 1) /\ ws[i].upto = Point(ws, a, i)
      /\ \A i \in 0 .. n : Point(ws, a, i) \in Int
  BY StretchIs
<1>3. /\ p \in [1 .. n + 1 -> Int] /\ p[1] = a /\ p[n + 1] = z
      /\ \A i \in 1 .. n : p[i] = ws[i].from /\ p[i + 1] = ws[i].upto
  <2>1. /\ \A i \in 1 .. n + 1 : i - 1 \in 0 .. n
        /\ \A i \in 1 .. n : i \in 1 .. n + 1 /\ i + 1 \in 1 .. n + 1 /\ (i + 1) - 1 = i
        /\ 1 \in 1 .. n + 1 /\ n + 1 \in 1 .. n + 1 /\ 1 - 1 = 0 /\ (n + 1) - 1 = n
    BY <1>2
  <2> QED BY <1>2, <2>1
<1>4. ASSUME NEW i \in 1 .. n
      PROVE  next[i] \in 1 .. n + 1 /\ next[i] > i /\ part[i] \in Stretch(V, p[i], p[next[i]])
  <2>1. CASE ~ NumberLetterAt(ws, i)
    <3>1. part[i] = <<ws[i]>> /\ next[i] = i + 1
      BY <2>1
    <3>2. <<ws[i]>> \in Stretch(V, p[i], p[i + 1])
      BY <1>2, <1>3, StretchOne
    <3> HIDE DEF part, next, p
    <3> QED BY <1>2, <3>1, <3>2
  <2>2. CASE NumberLetterAt(ws, i)
    <3>1. part[i] = <<Join(ws, i, i + 1, "5A")>> /\ next[i] = i + 2
      BY <2>2
    <3>2. i < n
      BY <2>2 DEF NumberLetterAt
    <3> DEFINE j == i + 1
    <3>3. j \in i .. n /\ j \in 1 .. n /\ j + 1 \in 1 .. n + 1 /\ i + 2 = j + 1
      BY <1>2, <3>2
    <3> HIDE DEF j
    <3>4. <<Join(ws, i, j, "5A")>> \in Stretch(V, ws[i].from, ws[j].upto)
      <4>1. "5A" \in Put
        BY DEF Put
      <4> QED BY <3>3, <4>1, JoinIs
    <3>5. p[i] = ws[i].from /\ p[j + 1] = ws[j].upto /\ j + 1 > i
      BY <1>2, <1>3, <3>3
    <3>6. part[i] = <<Join(ws, i, j, "5A")>> /\ next[i] = j + 1
      BY <3>1, <3>3 DEF j
    <3> HIDE DEF part, next, p
    <3> QED BY <3>3, <3>4, <3>5, <3>6
  <2> QED BY <2>1, <2>2
<1>5. ASSUME NEW r, NEW i \in 1 .. n + 1
      PROVE  (IF i > Len(ws) THEN <<>>
              ELSE IF NumberLetterAt(ws, i) THEN <<Join(ws, i, i + 1, "5A")>> \o r[i + 2]
              ELSE <<ws[i]>> \o r[i + 1])
             = (IF i = n + 1 THEN <<>> ELSE part[i] \o r[next[i]])
  <2>1. CASE i = n + 1
    <3>1. i > Len(ws)
      BY <1>2, <2>1
    <3> QED BY <2>1, <3>1, Zenon
  <2>2. CASE i # n + 1
    <3>1. ~ (i > Len(ws)) /\ i \in 1 .. n
      BY <1>2, <2>2
    <3>2. CASE ~ NumberLetterAt(ws, i)
      <4>1. part[i] = <<ws[i]>> /\ next[i] = i + 1
        BY <3>1, <3>2, Zenon
      <4> HIDE DEF part, next
      <4> QED BY <2>2, <3>1, <3>2, <4>1, Zenon
    <3>3. CASE NumberLetterAt(ws, i)
      <4>1. part[i] = <<Join(ws, i, i + 1, "5A")>> /\ next[i] = i + 2
        BY <3>1, <3>3, Zenon
      <4> HIDE DEF part, next
      <4> QED BY <2>2, <3>1, <3>3, <4>1, Zenon
    <3> QED BY <3>2, <3>3
  <2> QED BY <2>1, <2>2
<1>6. part \in [1 .. n -> Seq(Word(V))] /\ next \in [1 .. n -> 1 .. n + 1]
  <2>1. part = [i \in 1 .. n |-> part[i]] /\ next = [i \in 1 .. n |-> next[i]]
    BY Zenon
  <2> HIDE DEF part, next, p
  <2>2. \A i \in 1 .. n : part[i] \in Seq(Word(V)) /\ next[i] \in 1 .. n + 1
    BY <1>4 DEF Stretch
  <2> QED BY <2>1, <2>2
<1> HIDE DEF part, next, n, p
<1>7. \A r : NumberLetterRest(r, ws) <=> Reads(r, n, part, next)
  BY <1>5, Zenon DEF NumberLetterRest, Reads, n
<1>8. \A r : Reads(r, n, part, next) => Reads(q, n, part, next)
  <2> SUFFICES ASSUME NEW r, Reads(r, n, part, next) PROVE Reads(q, n, part, next)
    OBVIOUS
  <2>1. NumberLetterRest(r, ws)
    BY <1>7
  <2>2. NumberLetterRest(q, ws)
    BY <2>1, Zenon
  <2> HIDE DEF q
  <2> QED BY <1>7, <2>2
<1> HIDE DEF q
<1>9. q[1] \in Stretch(V, p[1], p[n + 1])
  BY <1>2, <1>3, <1>4, <1>6, <1>8, ReadsStretch
<1> QED BY <1>1, <1>3, <1>9

\* A chain of slashes ends in the segment.
LEMMA SlashedIs ==
    ASSUME NEW V, NEW a \in Int, NEW z \in Int, NEW ws \in Stretch(V, a, z), NEW i \in 1 .. Len(ws)
    PROVE  /\ SlashEnd(ws, i) \in i .. Len(ws)
           /\ <<JoinSlashed(ws, i, SlashEnd(ws, i))>> \in Stretch(V, ws[i].from, ws[SlashEnd(ws, i)].upto)
<1> DEFINE Chained(j) == SlashEnded(ws[j - 1]) \/ SlashLed(ws[j]) \/ Slash(ws, j + 1)
           X == {j \in i .. Len(ws) : \A m \in i + 1 .. j : Chained(m)}
           j == SlashEnd(ws, i)
           tok == SlashTok(SlashLed(ws[i]), SlashEnded(ws[j]))
           w == Join(ws, i, j, tok)
           cap == ~ SlashLed(ws[i])
<1>1. Len(ws) \in Nat
  BY StretchIs
<1>2. j = Max(X)
  BY Zenon DEF SlashEnd
<1>3. i \in X
  <2>1. i + 1 .. i = {} /\ i \in i .. Len(ws)
    BY <1>1
  <2> HIDE DEF Chained
  <2> QED BY <2>1
<1>4. X \in SUBSET (1 .. Len(ws)) /\ X # {} /\ \A m \in X : m \in i .. Len(ws)
  <2> HIDE DEF Chained
  <2> QED BY <1>1, <1>3
<1> HIDE DEF X
<1>5. j \in i .. Len(ws)
  BY <1>1, <1>2, <1>4, MaxUpTo
<1> HIDE DEF j
<1>6. tok \in Put
  <2> DEFINE led == SlashLed(ws[i])
             ended == SlashEnded(ws[j])
  <2> HIDE DEF led, ended
  <2>1. SlashTok(led, ended) \in {"/5/", "/5", "E/", "E/5"}
    BY DEF SlashTok
  <2> QED BY <2>1 DEF led, ended, Put
<1> HIDE DEF tok
<1>7. w \in Word(V) /\ <<w>> \in Stretch(V, ws[i].from, ws[j].upto)
  BY <1>5, <1>6, JoinIs
<1>8. JoinSlashed(ws, i, j) = [w EXCEPT !.cap = cap]
  BY DEF JoinSlashed, tok
<1>9. cap \in BOOLEAN
  BY DEF SlashLed
<1> HIDE DEF cap, w
<1> DEFINE x == [w EXCEPT !.cap = cap]
<1>10. x \in Word(V) /\ x.from = w.from /\ x.upto = w.upto
  BY <1>7, <1>9 DEF Word, WordFields, Sized
<1> HIDE DEF x
<1>11. <<x>> \in Stretch(V, ws[i].from, ws[j].upto)
  <2>1. Covers(<<w>>, ws[i].from, ws[j].upto)
    BY <1>7 DEF Stretch
  <2>2. w.from = ws[i].from /\ w.upto = ws[j].upto
    BY <2>1 DEF Covers, Last
  <2>3. <<x>> \in Stretch(V, x.from, x.upto)
    BY <1>10, StretchOne
  <2> QED BY <1>10, <2>2, <2>3
<1> QED BY <1>5, <1>8, <1>11 DEF j, x

SlashRest(r, ws) ==
    r = [i \in 1 .. Len(ws) + 1 |->
            IF i > Len(ws) THEN <<>>
            ELSE IF SlashStart(ws, i)
            THEN <<JoinSlashed(ws, i, SlashEnd(ws, i))>> \o r[SlashEnd(ws, i) + 1]
            ELSE <<ws[i]>> \o r[i + 1]]

\* So does what slashes join.
LEMMA SlashedAre ==
    ASSUME NEW V, NEW a \in Int, NEW z \in Int, NEW ws \in Stretch(V, a, z)
    PROVE  merge_slashed_words(ws) \in Stretch(V, a, z)
<1> DEFINE n == Len(ws)
           part == [i \in 1 .. n |-> IF SlashStart(ws, i) THEN <<JoinSlashed(ws, i, SlashEnd(ws, i))>> ELSE <<ws[i]>>]
           next == [i \in 1 .. n |-> IF SlashStart(ws, i) THEN SlashEnd(ws, i) + 1 ELSE i + 1]
           p == [i \in 1 .. n + 1 |-> Point(ws, a, i - 1)]
           q == CHOOSE r : SlashRest(r, ws)
<1>1. merge_slashed_words(ws) = q[1]
  BY Zenon DEF merge_slashed_words, SlashRest
<1>2. /\ n \in Nat /\ Point(ws, a, 0) = a /\ Point(ws, a, n) = z
      /\ \A i \in 1 .. n : ws[i] \in Word(V) /\ ws[i].from = Point(ws, a, i - 1) /\ ws[i].upto = Point(ws, a, i)
      /\ \A i \in 0 .. n : Point(ws, a, i) \in Int
  BY StretchIs
<1>3. /\ p \in [1 .. n + 1 -> Int] /\ p[1] = a /\ p[n + 1] = z
      /\ \A i \in 1 .. n : p[i] = ws[i].from /\ p[i + 1] = ws[i].upto
  <2>1. /\ \A i \in 1 .. n + 1 : i - 1 \in 0 .. n
        /\ \A i \in 1 .. n : i \in 1 .. n + 1 /\ i + 1 \in 1 .. n + 1 /\ (i + 1) - 1 = i
        /\ 1 \in 1 .. n + 1 /\ n + 1 \in 1 .. n + 1 /\ 1 - 1 = 0 /\ (n + 1) - 1 = n
    BY <1>2
  <2> QED BY <1>2, <2>1
<1>4. ASSUME NEW i \in 1 .. n
      PROVE  next[i] \in 1 .. n + 1 /\ next[i] > i /\ part[i] \in Stretch(V, p[i], p[next[i]])
  <2>1. CASE ~ SlashStart(ws, i)
    <3>1. part[i] = <<ws[i]>> /\ next[i] = i + 1
      BY <2>1
    <3>2. <<ws[i]>> \in Stretch(V, p[i], p[i + 1])
      BY <1>2, <1>3, StretchOne
    <3> HIDE DEF part, next, p
    <3> QED BY <1>2, <3>1, <3>2
  <2>2. CASE SlashStart(ws, i)
    <3>1. part[i] = <<JoinSlashed(ws, i, SlashEnd(ws, i))>> /\ next[i] = SlashEnd(ws, i) + 1
      BY <2>2, Zenon
    <3> DEFINE j == SlashEnd(ws, i)
    <3>2. j \in i .. n /\ <<JoinSlashed(ws, i, SlashEnd(ws, i))>> \in Stretch(V, ws[i].from, ws[j].upto)
      BY SlashedIs
    <3> HIDE DEF j
    <3>3. j \in 1 .. n /\ j + 1 \in 1 .. n + 1 /\ j + 1 > i
      BY <1>2, <3>2
    <3>4. p[i] = ws[i].from /\ p[j + 1] = ws[j].upto
      BY <1>3, <3>3
    <3>5. part[i] = <<JoinSlashed(ws, i, SlashEnd(ws, i))>> /\ next[i] = j + 1
      BY <3>1 DEF j
    <3> HIDE DEF part, next, p
    <3> QED BY <3>2, <3>3, <3>4, <3>5
  <2> QED BY <2>1, <2>2
<1>5. ASSUME NEW r, NEW i \in 1 .. n + 1
      PROVE  (IF i > Len(ws) THEN <<>>
              ELSE IF SlashStart(ws, i)
              THEN <<JoinSlashed(ws, i, SlashEnd(ws, i))>> \o r[SlashEnd(ws, i) + 1]
              ELSE <<ws[i]>> \o r[i + 1])
             = (IF i = n + 1 THEN <<>> ELSE part[i] \o r[next[i]])
  <2>1. CASE i = n + 1
    <3>1. i > Len(ws)
      BY <1>2, <2>1
    <3> QED BY <2>1, <3>1, Zenon
  <2>2. CASE i # n + 1
    <3>1. ~ (i > Len(ws)) /\ i \in 1 .. n
      BY <1>2, <2>2
    <3>2. CASE ~ SlashStart(ws, i)
      <4>1. part[i] = <<ws[i]>> /\ next[i] = i + 1
        BY <3>1, <3>2, Zenon
      <4> HIDE DEF part, next
      <4> QED BY <2>2, <3>1, <3>2, <4>1, Zenon
    <3>3. CASE SlashStart(ws, i)
      <4>1. part[i] = <<JoinSlashed(ws, i, SlashEnd(ws, i))>> /\ next[i] = SlashEnd(ws, i) + 1
        BY <3>1, <3>3, Zenon
      <4> HIDE DEF part, next
      <4> QED BY <2>2, <3>1, <3>3, <4>1, Zenon
    <3> QED BY <3>2, <3>3
  <2> QED BY <2>1, <2>2
<1>6. part \in [1 .. n -> Seq(Word(V))] /\ next \in [1 .. n -> 1 .. n + 1]
  <2>1. part = [i \in 1 .. n |-> part[i]] /\ next = [i \in 1 .. n |-> next[i]]
    BY Zenon
  <2> HIDE DEF part, next, p
  <2>2. \A i \in 1 .. n : part[i] \in Seq(Word(V)) /\ next[i] \in 1 .. n + 1
    BY <1>4 DEF Stretch
  <2> QED BY <2>1, <2>2
<1> HIDE DEF part, next, n, p
<1>7. \A r : SlashRest(r, ws) <=> Reads(r, n, part, next)
  BY <1>5, Zenon DEF SlashRest, Reads, n
<1>8. \A r : Reads(r, n, part, next) => Reads(q, n, part, next)
  <2> SUFFICES ASSUME NEW r, Reads(r, n, part, next) PROVE Reads(q, n, part, next)
    OBVIOUS
  <2>1. SlashRest(r, ws)
    BY <1>7
  <2>2. SlashRest(q, ws)
    BY <2>1, Zenon
  <2> HIDE DEF q
  <2> QED BY <1>7, <2>2
<1> HIDE DEF q
<1>9. q[1] \in Stretch(V, p[1], p[n + 1])
  BY <1>2, <1>3, <1>4, <1>6, <1>8, ReadsStretch
<1> QED BY <1>1, <1>3, <1>9

-----------------------------------------------------------------------------
(* Words changed in place                                                  *)

\* A word that is given another text, mark or capital stands for the same.
LEMMA WordChanged ==
    ASSUME NEW V, NEW w \in Word(V), NEW x \in WordFields(V),
           x.from = w.from, x.upto = w.upto, x.tok = w.tok \/ x.tok \in Put
    PROVE  x \in Word(V)
<1>1. w.from < w.upto /\ (w.tok = "copy" => w.from + 1 < w.upto)
  BY DEF Word, Sized
<1>2. x.tok \in Put => x.tok # "copy"
  BY DEF Put
<1> QED BY <1>1, <1>2 DEF Word, Sized

\* The same for a speaker.
LEMMA WordRelabelled ==
    ASSUME NEW V, NEW U, NEW w \in Word(V), NEW spk \in U,
           NEW x, x = [w EXCEPT !.spk = spk]
    PROVE  x \in Word(U) /\ x.from = w.from /\ x.upto = w.upto /\ x.spk = spk
  BY DEF Word, WordFields, Sized

\* The same for the number of a segment.
LEMMA WordNumbered ==
    ASSUME NEW V, NEW w \in Word(V), NEW n \in Nat,
           NEW x, x = [w EXCEPT !.seg = n]
    PROVE  x \in Word(V) /\ x.from = w.from /\ x.upto = w.upto
  BY DEF Word, WordFields, Sized

\* Words handed to a speaker of U stand for the same.
LEMMA RelabelIs ==
    ASSUME NEW V, NEW U, NEW a \in Int, NEW z \in Int, NEW ws \in Stretch(V, a, z), NEW spk \in U
    PROVE  /\ Relabel(ws, spk) \in Stretch(U, a, z) /\ Len(Relabel(ws, spk)) = Len(ws)
           /\ \A i \in 1 .. Len(ws) : Relabel(ws, spk)[i].spk = spk
<1> DEFINE f == Relabel(ws, spk)
<1>1. DOMAIN ws = 1 .. Len(ws) /\ \A i \in 1 .. Len(ws) : ws[i] \in Word(V)
  BY StretchIs
<1>2. f = [i \in 1 .. Len(ws) |-> [ws[i] EXCEPT !.spk = spk]]
  BY <1>1 DEF Relabel
<1>3. \A i \in 1 .. Len(ws) : f[i] \in Word(U) /\ f[i].from = ws[i].from /\ f[i].upto = ws[i].upto
                              /\ f[i].spk = spk
  <2> SUFFICES ASSUME NEW i \in 1 .. Len(ws)
               PROVE  f[i] \in Word(U) /\ f[i].from = ws[i].from /\ f[i].upto = ws[i].upto /\ f[i].spk = spk
    OBVIOUS
  <2>1. f[i] = [ws[i] EXCEPT !.spk = spk] /\ ws[i] \in Word(V)
    BY <1>1, <1>2
  <2> HIDE DEF f
  <2> QED BY <2>1, WordRelabelled
<1> HIDE DEF f
<1>4. f \in [1 .. Len(ws) -> Word(U)]
  BY <1>2, <1>3
<1>5. f \in Stretch(U, a, z) /\ Len(f) = Len(ws)
  BY <1>3, <1>4, StretchLike
<1> QED BY <1>3, <1>5 DEF f

\* Tokens cleaned.
LEMMA CleanTokensAre ==
    ASSUME NEW V, NEW a \in Int, NEW z \in Int, NEW ws \in Stretch(V, a, z)
    PROVE  [i \in DOMAIN ws |-> clean_word_token(ws[i])] \in Stretch(V, a, z)
<1> DEFINE f == [i \in DOMAIN ws |-> clean_word_token(ws[i])]
<1>1. DOMAIN ws = 1 .. Len(ws) /\ \A i \in 1 .. Len(ws) : ws[i] \in Word(V)
  BY StretchIs
<1>2. ASSUME NEW w \in Word(V)
      PROVE  /\ clean_word_token(w) \in Word(V)
             /\ clean_word_token(w).from = w.from /\ clean_word_token(w).upto = w.upto
  <2> DEFINE cap == w.cap \/ w.tok \in {"i", "i'm", "may", "lord", "lordship", "counsel"}
  <2>1. w \in WordFields(V) /\ w.cap \in BOOLEAN /\ w.mark \in Marks
    BY DEF Word, WordFields
  <2>2. CASE w.tok = "slash" /\ w.mark = ""
    <3>1. clean_word_token(w) = [w EXCEPT !.tok = "/"]
      BY <2>2 DEF clean_word_token
    <3>2. "/" \in Put /\ "/" \in Tokens
      BY DEF Put, Tokens
    <3> DEFINE x == [w EXCEPT !.tok = "/"]
    <3>3. x \in WordFields(V) /\ x.from = w.from /\ x.upto = w.upto /\ x.tok = "/"
      BY <2>1, <3>2 DEF WordFields
    <3> HIDE DEF x
    <3>4. x \in Word(V)
      BY <3>2, <3>3, WordChanged
    <3> QED BY <3>1, <3>3, <3>4 DEF x
  <2>3. CASE ~ (w.tok = "slash" /\ w.mark = "")
    <3>1. clean_word_token(w) = [w EXCEPT !.cap = cap]
      BY <2>1, <2>3 DEF clean_word_token, WordFields
    <3>2. cap \in BOOLEAN
      OBVIOUS
    <3> HIDE DEF cap
    <3> DEFINE x == [w EXCEPT !.cap = cap]
    <3>3. x \in WordFields(V) /\ x.from = w.from /\ x.upto = w.upto /\ x.tok = w.tok
      BY <2>1, <3>2 DEF WordFields
    <3> HIDE DEF x
    <3>4. x \in Word(V)
      BY <3>3, WordChanged
    <3> QED BY <3>1, <3>3, <3>4 DEF x
  <2> QED BY <2>2, <2>3
<1>3. f = [i \in 1 .. Len(ws) |-> clean_word_token(ws[i])]
  BY <1>1
<1>4. \A i \in 1 .. Len(ws) : f[i] \in Word(V) /\ f[i].from = ws[i].from /\ f[i].upto = ws[i].upto
  BY <1>1, <1>2
<1> HIDE DEF f
<1>5. f \in [1 .. Len(ws) -> Word(V)]
  BY <1>3, <1>4
<1>6. f \in Stretch(V, a, z)
  BY <1>4, <1>5, StretchLike
<1> QED BY <1>6 DEF f

\* Titles, abbreviations and capitals.
LEMMA CasesAre ==
    ASSUME NEW V, NEW a \in Int, NEW z \in Int, NEW ws \in Stretch(V, a, z)
    PROVE  /\ ProperCase(ws) \in Stretch(V, a, z)
           /\ ExhibitCase(ws) \in Stretch(V, a, z)
           /\ MyCase(ws) \in Stretch(V, a, z)
<1>1. DOMAIN ws = 1 .. Len(ws) /\ \A i \in 1 .. Len(ws) : ws[i] \in Word(V)
  BY StretchIs
<1>2. \A w \in Word(V) : w.cap \in BOOLEAN /\ w.mark \in Marks
  BY WordIs
<1>3. ProperCase(ws) \in Stretch(V, a, z)
  <2> DEFINE f == ProperCase(ws)
             Cap(i) == ws[i].cap \/ Abbreviated(ws, i)
                           \/ \E m \in {i - 1, i} \ {0}, t \in Titles : PhraseAt(ws, m, t)
             Mark(i) == IF Abbreviated(ws, i) /\ ws[i].mark # "," THEN "." ELSE ws[i].mark
             g == [i \in 1 .. Len(ws) |-> [ws[i] EXCEPT !.cap = Cap(i), !.mark = Mark(i), !.tok = ProperTok(ws, i)]]
  <2>1. f = g
    <3>1. \A i \in 1 .. Len(ws) : ws[i] \in WordFields(V)
      BY <1>1 DEF Word
    <3>2. f = [i \in 1 .. Len(ws) |->
                  [ws[i] EXCEPT !.cap = ws[i].cap \/ Abbreviated(ws, i)
                           \/ \E m \in {i - 1, i} \ {0}, t \in Titles : PhraseAt(ws, m, t),
                                !.mark = IF Abbreviated(ws, i) /\ ws[i].mark # "," THEN "." ELSE ws[i].mark,
                                !.tok = ProperTok(ws, i)]]
      BY <1>1, Zenon DEF ProperCase
    <3> QED BY <3>2, Zenon
  <2>2. ASSUME NEW i \in 1 .. Len(ws)
        PROVE  g[i] \in Word(V) /\ g[i].from = ws[i].from /\ g[i].upto = ws[i].upto
    <3> DEFINE cap == Cap(i)
               mark == Mark(i)
               tok == ProperTok(ws, i)
    <3>1. ws[i] \in Word(V)
      BY <1>1
    <3>2. cap \in BOOLEAN
      OBVIOUS
    <3>3. mark \in Marks
      <4>1. ws[i].mark \in Marks /\ "." \in Marks
        BY <1>2, <3>1 DEF Marks
      <4> QED BY <4>1
    <3>4. tok = ws[i].tok \/ tok \in Put
      <4> DEFINE me == PhraseAt(ws, i, <<"me", "lord">>)
                 abbr == Abbreviated(ws, i) /\ ws[i].tok = "number"
      <4>1. tok = CASE me -> "my" [] abbr -> "no" [] OTHER -> ws[i].tok
        BY Zenon DEF ProperTok
      <4> HIDE DEF me, abbr, tok
      <4>2. tok = "my" \/ tok = "no" \/ tok = ws[i].tok
        BY <4>1
      <4> QED BY <4>2 DEF Put
    <3>5. g[i] = [ws[i] EXCEPT !.cap = cap, !.mark = mark, !.tok = tok]
      BY Zenon
    <3>6. ws[i] \in WordFields(V) /\ tok \in Tokens
      BY <3>1, <3>4 DEF Word, WordFields, Tokens
    <3> DEFINE x == [ws[i] EXCEPT !.cap = cap, !.mark = mark, !.tok = tok]
    <3> HIDE DEF cap, mark, tok, g
    <3>7. x \in WordFields(V) /\ x.from = ws[i].from /\ x.upto = ws[i].upto /\ x.tok = tok
      BY <3>2, <3>3, <3>6 DEF WordFields
    <3> HIDE DEF x
    <3>8. x \in Word(V)
      BY <3>1, <3>4, <3>7, WordChanged
    <3> QED BY <3>5, <3>7, <3>8 DEF x
  <2>3. g \in [1 .. Len(ws) -> Word(V)]
    <3>1. g = [i \in 1 .. Len(ws) |-> g[i]]
      BY Zenon
    <3> HIDE DEF g
    <3> QED BY <2>2, <3>1
  <2> HIDE DEF g
  <2>4. g \in Stretch(V, a, z)
    BY <2>2, <2>3, StretchLike
  <2> QED BY <2>1, <2>4
<1>4. ASSUME NEW w \in Word(V), NEW cap \in BOOLEAN
      PROVE  LET x == [w EXCEPT !.cap = cap]
             IN  x \in Word(V) /\ x.from = w.from /\ x.upto = w.upto
  BY DEF Word, WordFields, Sized
<1>5. ASSUME NEW Cap \in [1 .. Len(ws) -> BOOLEAN]
      PROVE  [i \in 1 .. Len(ws) |-> [ws[i] EXCEPT !.cap = Cap[i]]] \in Stretch(V, a, z)
  <2> DEFINE g == [i \in 1 .. Len(ws) |-> [ws[i] EXCEPT !.cap = Cap[i]]]
  <2>1. \A i \in 1 .. Len(ws) : g[i] \in Word(V) /\ g[i].from = ws[i].from /\ g[i].upto = ws[i].upto
    BY <1>1, <1>4
  <2>2. g \in [1 .. Len(ws) -> Word(V)]
    BY <1>1, <1>4
  <2> HIDE DEF g
  <2>3. g \in Stretch(V, a, z)
    BY <2>1, <2>2, StretchLike
  <2> QED BY <2>3 DEF g
<1>6. ExhibitCase(ws) \in Stretch(V, a, z)
  <2> DEFINE Named(i) == i < Len(ws) /\ ws[i + 1].tok \notin {"is", "in", "/"}
             Cap == [i \in 1 .. Len(ws) |->
                        IF ws[i].tok # "exhibit" THEN ws[i].cap ELSE Named(i) \/ (i = 1 /\ ws[i].cap)]
  <2>1. Cap \in [1 .. Len(ws) -> BOOLEAN]
    BY <1>1, <1>2
  <2>2. ExhibitCase(ws) =
            [i \in 1 .. Len(ws) |->
                [ws[i] EXCEPT !.cap = IF ws[i].tok # "exhibit" THEN ws[i].cap
                                      ELSE Named(i) \/ (i = 1 /\ ws[i].cap)]]
    BY <1>1, Zenon DEF ExhibitCase
  <2>3. \A i \in 1 .. Len(ws) : Cap[i] = IF ws[i].tok # "exhibit" THEN ws[i].cap
                                         ELSE Named(i) \/ (i = 1 /\ ws[i].cap)
    BY Zenon
  <2> HIDE DEF Cap, Named
  <2>4. ExhibitCase(ws) = [i \in 1 .. Len(ws) |-> [ws[i] EXCEPT !.cap = Cap[i]]]
    BY <2>2, <2>3, Zenon
  <2> QED BY <1>5, <2>1, <2>4
<1>7. MyCase(ws) \in Stretch(V, a, z)
  <2> DEFINE Starts(i) == i = 1 \/ EndsSentence(ws[i - 1])
             Honours(i) == i < Len(ws) /\ ws[i + 1].tok \in COURT_MY_TRAILS
             Cap == [i \in 1 .. Len(ws) |-> ws[i].cap /\ (ws[i].tok = "my" => Starts(i) \/ Honours(i))]
  <2>1. Cap \in [1 .. Len(ws) -> BOOLEAN]
    OBVIOUS
  <2>2. MyCase(ws) =
            [i \in 1 .. Len(ws) |->
                [ws[i] EXCEPT !.cap = ws[i].cap /\ (ws[i].tok = "my" => Starts(i) \/ Honours(i))]]
    BY <1>1, Zenon DEF MyCase
  <2>3. \A i \in 1 .. Len(ws) : Cap[i] = (ws[i].cap /\ (ws[i].tok = "my" => Starts(i) \/ Honours(i)))
    BY Zenon
  <2> HIDE DEF Cap, Starts, Honours
  <2>4. MyCase(ws) = [i \in 1 .. Len(ws) |-> [ws[i] EXCEPT !.cap = Cap[i]]]
    BY <2>2, <2>3, Zenon
  <2> QED BY <1>5, <2>1, <2>4
<1> QED BY <1>3, <1>6, <1>7

\* normalize_segment keeps what the words of a segment stand for.
LEMMA NormalizedIs ==
    ASSUME NEW V, NEW a \in Int, NEW z \in Int, NEW ws \in Stretch(V, a, z)
    PROVE  normalize_segment(ws) \in Stretch(V, a, z)
<1> DEFINE w1 == [i \in DOMAIN ws |-> clean_word_token(ws[i])]
           w2 == merge_number_letter_words(w1)
           w3 == merge_slashed_words(w2)
           w4 == normalize_word_stream(w3)
           w5 == ProperCase(w4)
           w6 == ExhibitCase(w5)
<1>1. w1 \in Stretch(V, a, z)
  BY CleanTokensAre
<1> HIDE DEF w1
<1>2. w2 \in Stretch(V, a, z)
  BY <1>1, NumberLettersAre
<1> HIDE DEF w2
<1>3. w3 \in Stretch(V, a, z)
  BY <1>2, SlashedAre
<1> HIDE DEF w3
<1>4. w4 \in Stretch(V, a, z)
  BY <1>3, StreamIs
<1> HIDE DEF w4
<1>5. w5 \in Stretch(V, a, z)
  BY <1>4, CasesAre
<1> HIDE DEF w5
<1>6. w6 \in Stretch(V, a, z)
  BY <1>5, CasesAre
<1> HIDE DEF w6
<1>7. MyCase(w6) \in Stretch(V, a, z)
  BY <1>6, CasesAre
<1> QED BY <1>7 DEF normalize_segment, w1, w2, w3, w4, w5, w6

-----------------------------------------------------------------------------
(* Sequences of sequences                                                  *)

Flattens(f, ss) ==
    f = [i \in 1 .. Len(ss) |-> IF i = 1 THEN ss[i] ELSE f[i - 1] \o ss[i]]

\* The first parts of ss, put together one after the other.
Sums(g, ss) == g[0] = <<>> /\ \A i \in 1 .. Len(ss) : g[i] = g[i - 1] \o ss[i]

\* There is one such function.
LEMMA SumsExist ==
    ASSUME NEW W, NEW ss \in Seq(Seq(W))
    PROVE  \E g \in [0 .. Len(ss) -> Seq(W)] : Sums(g, ss)
<1> DEFINE n == Len(ss)
           T == Seq(W)
           step == [x \in T \X (1 .. n) |-> x[1] \o ss[x[2]]]
<1>1. n \in Nat /\ <<>> \in T /\ \A i \in 1 .. n : ss[i] \in Seq(W)
  OBVIOUS
<1>2. \A x \in T : \A i \in 1 .. n : x \o ss[i] \in T
  BY <1>1
<1>3. \A x \in T : \A i \in 1 .. n : step[<<x, i>>] = x \o ss[i]
  OBVIOUS
<1>4. step \in [T \X (1 .. n) -> T]
  BY <1>2
<1> HIDE DEF step, T, n
<1>5. PICK h \in [SUBSET (1 .. n) -> T] : IsFold(h, n, <<>>, step)
  BY <1>1, <1>4, FoldExists
<1>6. IsFoldIn(h, n, <<>>, step, T)
  BY <1>5, Zenon DEF IsFold, IsFoldIn
<1>7. PICK g \in [0 .. n -> T] : Iterates(g, n, <<>>, step, h[1 .. n])
  BY <1>1, <1>4, <1>6, FoldValues
<1>8. ASSUME NEW i \in 1 .. n PROVE g[i] = g[i - 1] \o ss[i]
  <2>1. i - 1 \in 0 .. n
    BY <1>1
  <2>2. g[i - 1] \in T /\ g[i] = step[<<g[i - 1], i>>]
    BY <1>7, <2>1 DEF Iterates
  <2> QED BY <1>3, <2>2
<1>9. Sums(g, ss)
  BY <1>7, <1>8 DEF Sums, Iterates, n
<1> QED BY <1>7, <1>9 DEF n, T

\* FlattenSeq is the last of them.
LEMMA FlattenIs ==
    ASSUME NEW W, NEW ss \in Seq(Seq(W)), NEW g \in [0 .. Len(ss) -> Seq(W)], Sums(g, ss)
    PROVE  FlattenSeq(ss) = g[Len(ss)]
<1> DEFINE n == Len(ss)
           f == CHOOSE f : Flattens(f, ss)
<1>1. n \in Nat /\ \A i \in 1 .. n : ss[i] \in Seq(W)
  OBVIOUS
<1>2. CASE n = 0
  <2>1. ss = <<>> /\ FlattenSeq(ss) = ss
    BY <1>2, EmptySeq DEF FlattenSeq
  <2> QED BY <1>2, <2>1 DEF Sums
<1>3. CASE n # 0
  <2>1. FlattenSeq(ss) = f[n]
    BY <1>3, Zenon DEF FlattenSeq, Flattens
  <2>2. g[0] = <<>> /\ \A i \in 1 .. n : g[i] = g[i - 1] \o ss[i]
    BY DEF Sums
  <2>3. \A i \in 0 .. n : g[i] \in Seq(W)
    OBVIOUS
  <2>4. n \in 1 .. n /\ 1 \in 1 .. n /\ \A i \in 1 .. n : i \in 0 .. n /\ i - 1 \in 0 .. n
    BY <1>1, <1>3
  <2>5. g[1] = ss[1]
    <3>1. g[1] = g[1 - 1] \o ss[1] /\ ss[1] \in Seq(W)
      BY <1>1, <2>2, <2>4, Zenon
    <3>2. g[1 - 1] = <<>>
      BY <2>2
    <3> QED BY <3>1, <3>2, ConcatEmptySeq
  <2> HIDE DEF n
  <2>6. Flattens(f, ss)
    <3> DEFINE e == [i \in 1 .. n |-> g[i]]
    <3>1. ASSUME NEW i \in 1 .. n PROVE e[i] = IF i = 1 THEN ss[i] ELSE e[i - 1] \o ss[i]
      <4>1. CASE i = 1
        BY <2>5, <4>1
      <4>2. CASE i # 1
        <5>1. i - 1 \in 1 .. n
          BY <1>1, <4>2
        <5> QED BY <2>2, <4>2, <5>1
      <4> QED BY <4>1, <4>2
    <3>2. e = [i \in 1 .. n |-> e[i]]
      OBVIOUS
    <3> HIDE DEF e
    <3>3. e = [i \in 1 .. n |-> IF i = 1 THEN ss[i] ELSE e[i - 1] \o ss[i]]
      BY <3>1, <3>2, Zenon
    <3>4. Flattens(e, ss)
      BY <3>3, Zenon DEF Flattens, n
    <3> QED BY <3>4, Zenon
  <2> HIDE DEF f
  <2>7. \A i \in 1 .. n : f[i] = IF i = 1 THEN ss[i] ELSE f[i - 1] \o ss[i]
    BY <2>6, Zenon DEF Flattens, n
  <2> DEFINE S == {m \in 0 .. n : m = 0 \/ f[m] = g[m]}
  <2>8. 0 \in S
    BY <1>1
  <2>9. ASSUME NEW m \in 0 .. n - 1, m \in S PROVE m + 1 \in S
    <3>1. m + 1 \in 1 .. n /\ m + 1 \in 0 .. n /\ (m + 1) - 1 = m
      BY <1>1
    <3>2. CASE m = 0
      <4>1. f[1] = ss[1] /\ m + 1 = 1
        BY <2>4, <2>7, <3>2
      <4> QED BY <2>5, <3>1, <4>1
    <3>3. CASE m # 0
      <4>1. f[m] = g[m] /\ m + 1 # 1
        BY <2>9, <3>1, <3>3
      <4>2. f[m + 1] = f[m] \o ss[m + 1] /\ g[m + 1] = g[m] \o ss[m + 1]
        BY <2>2, <2>7, <3>1, <4>1
      <4> QED BY <3>1, <4>1, <4>2
    <3> QED BY <3>2, <3>3
  <2>10. 0 .. n \subseteq S
    <3> HIDE DEF S
    <3> QED BY <1>1, <2>8, <2>9, InductionUpTo
  <2>11. f[n] = g[n]
    BY <1>1, <1>3, <2>4, <2>10
  <2> QED BY <2>1, <2>11 DEF n
<1> QED BY <1>2, <1>3

\* One more part is put at the end.
LEMMA FlattenMore ==
    ASSUME NEW W, NEW ss \in Seq(Seq(W)), NEW t \in Seq(Seq(W)), Len(t) = Len(ss) + 1,
           \A i \in 1 .. Len(ss) : t[i] = ss[i]
    PROVE  /\ FlattenSeq(t) = FlattenSeq(ss) \o t[Len(t)]
           /\ FlattenSeq(ss) \in Seq(W) /\ FlattenSeq(t) \in Seq(W)
<1> DEFINE n == Len(ss)
<1>1. n \in Nat
  OBVIOUS
<1>2. PICK g \in [0 .. Len(t) -> Seq(W)] : Sums(g, t)
  BY SumsExist
<1> DEFINE h == [i \in 0 .. n |-> g[i]]
<1>3. Len(t) = n + 1 /\ n \in 0 .. Len(t) /\ Len(t) \in 1 .. Len(t) /\ Len(t) - 1 = n /\ Len(t) \in 0 .. Len(t)
  BY <1>1
<1>4. h \in [0 .. n -> Seq(W)] /\ h[n] = g[n]
  BY <1>1, <1>3
<1>5. Sums(h, ss)
  <2>1. h[0] = <<>>
    BY <1>1, <1>2 DEF Sums
  <2>2. ASSUME NEW i \in 1 .. n PROVE h[i] = h[i - 1] \o ss[i]
    <3>1. i \in 1 .. Len(t) /\ i \in 0 .. n /\ i - 1 \in 0 .. n
      BY <1>1, <1>3
    <3>2. g[i] = g[i - 1] \o t[i]
      BY <1>2, <3>1 DEF Sums
    <3> QED BY <3>1, <3>2
  <2> HIDE DEF h
  <2> QED BY <2>1, <2>2 DEF Sums
<1>6. FlattenSeq(t) = g[Len(t)] /\ FlattenSeq(ss) = h[n]
  <2> HIDE DEF h
  <2> QED BY <1>2, <1>4, <1>5, FlattenIs
<1>7. g[Len(t)] = g[n] \o t[Len(t)]
  BY <1>2, <1>3 DEF Sums
<1> QED BY <1>2, <1>3, <1>4, <1>6, <1>7

\* Stretches that follow one on the other, put together.
LEMMA FlattenStretch ==
    ASSUME NEW V, NEW n \in Nat, NEW ss \in Seq(Seq(Word(V))), Len(ss) = n, NEW p \in [0 .. n -> Int],
           \A i \in 1 .. n : ss[i] \in Stretch(V, p[i - 1], p[i])
    PROVE  FlattenSeq(ss) \in Stretch(V, p[0], p[n])
<1>1. PICK g \in [0 .. n -> Seq(Word(V))] : Sums(g, ss)
  BY SumsExist
<1>2. FlattenSeq(ss) = g[n]
  BY <1>1, FlattenIs
<1>3. g[0] = <<>> /\ \A i \in 1 .. n : g[i] = g[i - 1] \o ss[i]
  BY <1>1 DEF Sums
<1> DEFINE S == {m \in 0 .. n : g[m] \in Stretch(V, p[0], p[m])}
<1>4. 0 \in S
  BY <1>3, StretchNone
<1>5. ASSUME NEW m \in 0 .. n - 1, m \in S PROVE m + 1 \in S
  <2>1. m + 1 \in 1 .. n /\ m + 1 \in 0 .. n /\ (m + 1) - 1 = m /\ m \in 0 .. n /\ 0 \in 0 .. n
    OBVIOUS
  <2>2. g[m + 1] = g[m] \o ss[m + 1] /\ ss[m + 1] \in Stretch(V, p[m], p[m + 1])
    BY <1>3, <2>1
  <2>3. p[0] \in Int /\ p[m] \in Int /\ p[m + 1] \in Int /\ g[m] \in Stretch(V, p[0], p[m])
    BY <1>5, <2>1
  <2>4. g[m + 1] \in Stretch(V, p[0], p[m + 1])
    BY <2>2, <2>3, StretchConcat
  <2> QED BY <2>1, <2>4
<1>6. n \in S
  <2> HIDE DEF S
  <2>1. 0 .. n \subseteq S
    BY <1>4, <1>5, InductionUpTo
  <2> QED BY <2>1
<1> QED BY <1>2, <1>6

=============================================================================
