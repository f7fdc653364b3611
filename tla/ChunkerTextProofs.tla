-------------------------- MODULE ChunkerTextProofs --------------------------
(***************************************************************************)
(* More theorems about Chunker, for every file and every choice of the     *)
(* sizes: that packing goes on where it left off, and that tables stand in *)
(* the chunks as they are.  They rest on what the text of units, sentences *)
(* and paragraphs is, word after word.                                     *)
(***************************************************************************)
EXTENDS ChunkerProofs, SequenceTheorems

-----------------------------------------------------------------------------
(* Flattened sequences. *)

\* Flattening goes through concatenation.
LEMMA FlattenConcat ==
    ASSUME NEW T, NEW s \in Seq(Seq(T)), NEW t \in Seq(Seq(T))
    PROVE  /\ FlattenSeq(s) \in Seq(T) /\ FlattenSeq(t) \in Seq(T)
           /\ FlattenSeq(s \o t) = FlattenSeq(s) \o FlattenSeq(t)
  <1> DEFINE U == Seq(T)
             Good == {u \in Seq(U) : FlattenSeq(s \o u) = FlattenSeq(s) \o FlattenSeq(u)}
  <1>1. \A u \in Seq(U) : FlattenSeq(u) \in Seq(T)
    BY FlattenElements
  <1>2. <<>> \in Good
    <2>1. <<>> \in Seq(U) /\ s \o <<>> = s
      OBVIOUS
    <2>2. FlattenSeq(s) \o <<>> = FlattenSeq(s)
      BY <1>1
    <2> QED
      BY <2>1, <2>2, FlattenEmpty
  <1>3. ASSUME NEW u \in Seq(U), NEW x \in U, u \in Good
        PROVE  Append(u, x) \in Good
    <2>1. Append(u, x) \in Seq(U) /\ s \o u \in Seq(U)
      OBVIOUS
    <2>2. s \o Append(u, x) = Append(s \o u, x)
      OBVIOUS
    <2>3. FlattenSeq(Append(s \o u, x)) = FlattenSeq(s \o u) \o x
      BY <2>1, FlattenAppend
    <2>4. FlattenSeq(Append(u, x)) = FlattenSeq(u) \o x
      BY FlattenAppend
    <2>5. (FlattenSeq(s) \o FlattenSeq(u)) \o x = FlattenSeq(s) \o (FlattenSeq(u) \o x)
      BY <1>1, ConcatAssociative, SMTT(30)
    <2> QED
      BY <1>3, <2>1, <2>2, <2>3, <2>4, <2>5
  <1>4. \A u \in Seq(U) : u \in Good
    <2> HIDE DEF Good, U
    <2> QED
      BY <1>2, <1>3, AppendInduction
  <1> QED
    BY <1>1, <1>4

\* The words of pieces, one piece after the other.
TextOf(ps) == FlattenSeq([i \in DOMAIN ps |-> ps[i].words])

\* The text of pieces grows with them.
LEMMA TextOfFacts ==
    ASSUME NEW ps \in Seq(Pieces)
    PROVE  /\ [i \in DOMAIN ps |-> ps[i].words] \in Seq(Seq(Occurrence))
           /\ TextOf(ps) \in Seq(Occurrence)
           /\ TextOf(<<>>) = <<>>
           /\ \A p \in Pieces : TextOf(Append(ps, p)) = TextOf(ps) \o p.words
           /\ \A qs \in Seq(Pieces) : TextOf(ps \o qs) = TextOf(ps) \o TextOf(qs)
  <1> DEFINE W(qs) == [i \in DOMAIN qs |-> qs[i].words]
  <1>1. ASSUME NEW qs \in Seq(Pieces)
        PROVE  W(qs) \in Seq(Seq(Occurrence)) /\ Len(W(qs)) = Len(qs)
    <2>1. Len(qs) \in Nat /\ DOMAIN qs = 1 .. Len(qs)
          /\ \A i \in 1 .. Len(qs) : qs[i].words \in Seq(Occurrence)
      <3>1. \A p \in Pieces : p.words \in Seq(Occurrence)
        BY DEF Pieces, Texts
      <3>2. \A i \in 1 .. Len(qs) : qs[i] \in Pieces
        OBVIOUS
      <3> QED
        BY <3>1, <3>2
    <2>2. W(qs) \in [1 .. Len(qs) -> Seq(Occurrence)]
      BY <2>1
    <2> QED
      BY <2>1, <2>2
  <1>2. \A qs \in Seq(Pieces) : TextOf(qs) \in Seq(Occurrence)
    BY <1>1, FlattenElements DEF TextOf
  <1>3. TextOf(<<>>) = <<>>
    <2>1. W(<<>>) = <<>>
      OBVIOUS
    <2> QED
      BY <2>1, FlattenEmpty DEF TextOf
  <1>4. ASSUME NEW p \in Pieces
        PROVE  TextOf(Append(ps, p)) = TextOf(ps) \o p.words
    <2>1. W(Append(ps, p)) = Append(W(ps), p.words)
      OBVIOUS
    <2>2. p.words \in Seq(Occurrence)
      BY DEF Pieces, Texts
    <2> QED
      BY <1>1, <2>1, <2>2, FlattenAppend DEF TextOf
  <1>5. ASSUME NEW qs \in Seq(Pieces)
        PROVE  TextOf(ps \o qs) = TextOf(ps) \o TextOf(qs)
    <2>1. W(ps \o qs) = W(ps) \o W(qs)
      OBVIOUS
    <2> QED
      BY <1>1, <2>1, FlattenConcat DEF TextOf
  <1> QED
    BY <1>1, <1>2, <1>3, <1>4, <1>5

\* The text of flattened pieces is the texts one after the other.
LEMMA FlattenedText ==
    ASSUME NEW s \in Seq(Seq(Pieces))
    PROVE  TextOf(FlattenSeq(s)) = FlattenSeq([i \in DOMAIN s |-> TextOf(s[i])])
  <1> DEFINE U == Seq(Pieces)
             W(u) == [i \in DOMAIN u |-> TextOf(u[i])]
             Good == {u \in Seq(U) : TextOf(FlattenSeq(u)) = FlattenSeq(W(u))}
  <1>0. \A u \in U : TextOf(u) \in Seq(Occurrence)
    BY TextOfFacts
  <1>1. ASSUME NEW u \in Seq(U)
        PROVE  FlattenSeq(u) \in U /\ W(u) \in Seq(Seq(Occurrence))
    <2>1. FlattenSeq(u) \in U
      BY FlattenElements
    <2>2. Len(u) \in Nat /\ DOMAIN u = 1 .. Len(u)
          /\ \A i \in 1 .. Len(u) : TextOf(u[i]) \in Seq(Occurrence)
      <3>1. \A i \in 1 .. Len(u) : u[i] \in Seq(Pieces)
        OBVIOUS
      <3> QED
        BY <1>0, <3>1
    <2>3. W(u) \in [1 .. Len(u) -> Seq(Occurrence)]
      BY <2>2
    <2> QED
      BY <2>1, <2>2, <2>3
  <1>2. <<>> \in Good
    <2>1. W(<<>>) = <<>> /\ <<>> \in U /\ <<>> \in Seq(U)
      OBVIOUS
    <2> QED
      BY <2>1, FlattenEmpty, TextOfFacts
  <1>3. ASSUME NEW u \in Seq(U), NEW x \in U, u \in Good
        PROVE  Append(u, x) \in Good
    <2>1. W(Append(u, x)) = Append(W(u), TextOf(x))
      <3> DEFINE v == Append(u, x)
                 n == Len(u)
      <3>1. n \in Nat /\ DOMAIN u = 1 .. n /\ DOMAIN v = 1 .. n + 1 /\ v[n + 1] = x
            /\ \A i \in 1 .. n : v[i] = u[i]
        OBVIOUS
      <3>2. W(u) \in Seq(Seq(Occurrence)) /\ Len(W(u)) = n
        <4>1. W(u) \in Seq(Seq(Occurrence)) /\ DOMAIN W(u) = 1 .. n
          BY <1>1, <3>1
        <4> HIDE DEF W, n
        <4> QED
          BY <3>1, <4>1
      <3> HIDE DEF v, n
      <3>3. Append(W(u), TextOf(x)) = [i \in 1 .. n + 1 |-> IF i = n + 1 THEN TextOf(x) ELSE W(u)[i]]
        BY <3>1, <3>2
      <3>4. \A i \in 1 .. n : W(u)[i] = TextOf(v[i]) /\ i \in 1 .. n + 1 /\ i # n + 1
        BY <3>1
      <3>5. \A i \in 1 .. n + 1 : i = n + 1 \/ i \in 1 .. n
        BY <3>1
      <3>6. W(v) = [i \in 1 .. n + 1 |-> IF i = n + 1 THEN TextOf(x) ELSE W(u)[i]]
        BY <3>1, <3>4, <3>5
      <3>7. W(v) = Append(W(u), TextOf(x))
        BY <3>3, <3>6
      <3> HIDE DEF W
      <3> QED
        BY <3>7 DEF v
    <2>2. TextOf(x) \in Seq(Occurrence) /\ Append(u, x) \in Seq(U)
      BY <1>0
    <2>3. FlattenSeq(W(Append(u, x))) = FlattenSeq(W(u)) \o TextOf(x)
      BY <1>1, <2>1, <2>2, FlattenAppend
    <2>4. FlattenSeq(Append(u, x)) = FlattenSeq(u) \o x
      BY FlattenAppend
    <2>5. TextOf(FlattenSeq(u) \o x) = TextOf(FlattenSeq(u)) \o TextOf(x)
      BY <1>1, TextOfFacts
    <2> HIDE DEF W
    <2> QED
      BY <1>3, <2>2, <2>3, <2>4, <2>5
  <1>4. \A u \in Seq(U) : u \in Good
    <2> HIDE DEF Good, U
    <2> QED
      BY <1>2, <1>3, AppendInduction
  <1> QED
    BY <1>4

-----------------------------------------------------------------------------
(* Stretches of a sequence. *)

\* One sequence after another, place by place.
LEMMA ConcatFacts ==
    ASSUME NEW T, NEW s \in Seq(T), NEW t \in Seq(T)
    PROVE  /\ s \o t \in Seq(T) /\ Len(s \o t) = Len(s) + Len(t)
           /\ \A i \in 1 .. Len(s) : (s \o t)[i] = s[i]
           /\ \A i \in 1 .. Len(t) : (s \o t)[Len(s) + i] = t[i]
  OBVIOUS

\* Parentheses around sequences that follow each other can be moved.
LEMMA ConcatMoved ==
    ASSUME NEW T, NEW x \in Seq(T), NEW v \in Seq(T), NEW r \in Seq(T), NEW w \in Seq(T),
           NEW y \in Seq(T)
    PROVE  /\ (x \o ((v \o r) \o w)) \o y = ((x \o v) \o r) \o (w \o y)
           /\ x \o v \in Seq(T) /\ w \o y \in Seq(T)
  BY SMTT(30)

\* A part of a sequence, place by place.
LEMMA SubSeqFacts ==
    ASSUME NEW T, NEW t \in Seq(T), NEW a \in 1 .. Len(t) + 1, NEW b \in a - 1 .. Len(t)
    PROVE  /\ SubSeq(t, a, b) \in Seq(T) /\ Len(SubSeq(t, a, b)) = b - a + 1
           /\ \A i \in 1 .. b - a + 1 : SubSeq(t, a, b)[i] = t[a + i - 1]
  <1>1. \A i \in a .. b : t[i] \in T
    OBVIOUS
  <1>2. a \in Int /\ b \in Int /\ (a <= b \/ b = a - 1)
    OBVIOUS
  <1> QED
    BY <1>1, <1>2, SubSeqProperties

\* A sequence stands in another.
IsStretch(s, t) ==
    \E a \in 1 .. Len(t) + 1 : \E b \in a - 1 .. Len(t) : s = SubSeq(t, a, b)

\* A stretch with what is before it and what is after it.
LEMMA AroundStretch ==
    ASSUME NEW T, NEW t \in Seq(T), NEW a \in 1 .. Len(t) + 1, NEW b \in a - 1 .. Len(t)
    PROVE  /\ SubSeq(t, 1, a - 1) \in Seq(T) /\ SubSeq(t, a, b) \in Seq(T)
           /\ SubSeq(t, b + 1, Len(t)) \in Seq(T)
           /\ t = (SubSeq(t, 1, a - 1) \o SubSeq(t, a, b)) \o SubSeq(t, b + 1, Len(t))
  <1> DEFINE n == Len(t)
             x == SubSeq(t, 1, a - 1)
             s == SubSeq(t, a, b)
             y == SubSeq(t, b + 1, n)
  <1>1. n \in Nat /\ a \in 1 .. n + 1 /\ b \in a - 1 .. n /\ a \in Nat /\ b \in Nat
    OBVIOUS
  <1>2. x \in Seq(T) /\ Len(x) = a - 1 /\ \A i \in 1 .. a - 1 : x[i] = t[i]
    <2>1. 1 \in 1 .. n + 1 /\ a - 1 \in 1 - 1 .. n /\ a - 1 - 1 + 1 = a - 1
      BY <1>1
    <2>2. x \in Seq(T) /\ Len(x) = a - 1 - 1 + 1
          /\ \A i \in 1 .. a - 1 - 1 + 1 : x[i] = t[1 + i - 1]
      BY <2>1, SubSeqFacts
    <2>3. \A i \in 1 .. a - 1 : 1 + i - 1 = i
      OBVIOUS
    <2> HIDE DEF x, n
    <2> QED
      BY <2>1, <2>2, <2>3
  <1>3. s \in Seq(T) /\ Len(s) = b - a + 1 /\ \A i \in 1 .. b - a + 1 : s[i] = t[a + i - 1]
    BY SubSeqFacts
  <1>4. y \in Seq(T) /\ Len(y) = n - b /\ \A i \in 1 .. n - b : y[i] = t[b + i]
    <2>1. b + 1 \in 1 .. n + 1 /\ n \in b + 1 - 1 .. n /\ n - (b + 1) + 1 = n - b
      BY <1>1
    <2>2. y \in Seq(T) /\ Len(y) = n - (b + 1) + 1
          /\ \A i \in 1 .. n - (b + 1) + 1 : y[i] = t[b + 1 + i - 1]
      <3> DEFINE c == b + 1
      <3>1. c \in 1 .. Len(t) + 1 /\ n \in c - 1 .. Len(t)
        BY <2>1
      <3> HIDE DEF c, n
      <3>2. SubSeq(t, c, n) \in Seq(T) /\ Len(SubSeq(t, c, n)) = n - c + 1
            /\ \A i \in 1 .. n - c + 1 : SubSeq(t, c, n)[i] = t[c + i - 1]
        BY <3>1, SubSeqFacts
      <3> QED
        BY <3>2 DEF c
    <2>3. \A i \in 1 .. n - b : b + 1 + i - 1 = b + i
      BY <1>1
    <2> HIDE DEF y, n
    <2> QED
      BY <2>1, <2>2, <2>3
  <1> HIDE DEF n, x, s, y
  <1> DEFINE xs == x \o s
             u == xs \o y
  <1>5. xs \in Seq(T) /\ Len(xs) = b /\ \A i \in 1 .. b : xs[i] = t[i]
    <2>1. /\ xs \in Seq(T) /\ Len(xs) = Len(x) + Len(s)
          /\ \A i \in 1 .. Len(x) : xs[i] = x[i]
          /\ \A i \in 1 .. Len(s) : xs[Len(x) + i] = s[i]
      <3>1. x \in Seq(T) /\ s \in Seq(T)
        BY <1>2, <1>3
      <3> QED
        BY <3>1
    <2> HIDE DEF xs
    <2>2. ASSUME NEW i \in 1 .. b
          PROVE  xs[i] = t[i]
      <3>1. CASE i \in 1 .. a - 1
        BY <1>2, <2>1, <3>1
      <3>2. CASE i \notin 1 .. a - 1
        <4> DEFINE k == i - (a - 1)
        <4>1. k \in 1 .. b - a + 1 /\ a + k - 1 = i /\ a - 1 + k = i
          BY <1>1, <3>2
        <4> HIDE DEF k
        <4>2. xs[a - 1 + k] = s[k] /\ s[k] = t[a + k - 1]
          BY <1>2, <1>3, <2>1, <4>1
        <4> QED
          BY <4>1, <4>2
      <3> QED
        BY <3>1, <3>2
    <2> QED
      BY <1>1, <1>2, <1>3, <2>1, <2>2
  <1> HIDE DEF xs
  <1>6. /\ u \in Seq(T) /\ Len(u) = Len(xs) + Len(y)
        /\ \A i \in 1 .. Len(xs) : u[i] = xs[i]
        /\ \A i \in 1 .. Len(y) : u[Len(xs) + i] = y[i]
    <2>1. xs \in Seq(T) /\ y \in Seq(T)
      BY <1>4, <1>5
    <2> QED
      BY <2>1
  <1> HIDE DEF u
  <1>7. ASSUME NEW i \in 1 .. n
        PROVE  u[i] = t[i]
    <2>1. CASE i \in 1 .. b
      BY <1>5, <1>6, <2>1
    <2>2. CASE i \notin 1 .. b
      <3> DEFINE k == i - b
      <3>1. k \in 1 .. n - b /\ b + k = i
        BY <1>1, <2>2
      <3> HIDE DEF k
      <3>2. u[b + k] = y[k] /\ y[k] = t[b + k]
        BY <1>4, <1>5, <1>6, <3>1
      <3> QED
        BY <3>1, <3>2
    <2> QED
      BY <2>1, <2>2
  <1>8. t = u
    <2>1. Len(u) = Len(t) /\ \A i \in 1 .. Len(t) : u[i] = t[i]
      BY <1>1, <1>4, <1>5, <1>6, <1>7 DEF n
    <2> QED
      BY <1>6, <2>1, SeqEqual
  <1> QED
    BY <1>2, <1>3, <1>4, <1>8 DEF x, s, y, xs, u, n

\* What is between two sequences is a stretch of the whole.
LEMMA StretchBetween ==
    ASSUME NEW T, NEW x \in Seq(T), NEW s \in Seq(T), NEW y \in Seq(T)
    PROVE  /\ IsStretch(s, (x \o s) \o y)
           /\ s = SubSeq((x \o s) \o y, Len(x) + 1, Len(x) + Len(s))
           /\ Len((x \o s) \o y) = Len(x) + Len(s) + Len(y)
  <1> DEFINE a == Len(x)
             n == Len(s)
             m == Len(y)
             xs == x \o s
             t == xs \o y
             c == a + 1
             d == a + n
             u == SubSeq(t, c, d)
  <1>1. a \in Nat /\ n \in Nat /\ m \in Nat
    OBVIOUS
  <1>2. xs \in Seq(T) /\ Len(xs) = a + n /\ \A i \in 1 .. n : xs[a + i] = s[i]
    BY ConcatFacts
  <1> HIDE DEF xs
  <1>3. t \in Seq(T) /\ Len(t) = Len(xs) + m /\ \A i \in 1 .. Len(xs) : t[i] = xs[i]
    <2>1. xs \in Seq(T)
      BY <1>2
    <2> QED
      BY <2>1
  <1> HIDE DEF t, a, n, m
  <1>4. \A i \in 1 .. n : t[a + i] = s[i]
    <2>1. \A i \in 1 .. n : a + i \in 1 .. a + n
      BY <1>1
    <2> QED
      BY <1>2, <1>3, <2>1
  <1>5. c \in 1 .. Len(t) + 1 /\ d \in c - 1 .. Len(t) /\ d - c + 1 = n
        /\ \A i \in 1 .. n : c + i - 1 = a + i
    BY <1>1, <1>2, <1>3
  <1> HIDE DEF c, d
  <1>6. u \in Seq(T) /\ Len(u) = d - c + 1 /\ \A i \in 1 .. d - c + 1 : u[i] = t[c + i - 1]
    BY <1>3, <1>5, SubSeqFacts, SMTT(30)
  <1> HIDE DEF u
  <1>7. u = s
    <2>1. Len(u) = Len(s) /\ \A i \in 1 .. Len(u) : u[i] = s[i]
      BY <1>4, <1>5, <1>6 DEF n
    <2> QED
      BY <1>6, <2>1, SeqEqual
  <1>8. IsStretch(s, t)
    BY <1>5, <1>7 DEF IsStretch, u
  <1> QED
    BY <1>2, <1>3, <1>7, <1>8 DEF u, c, d, t, xs, a, n, m

\* A sequence is between two others.
Between(T, s, t) == s \in Seq(T) /\ \E x, y \in Seq(T) : t = (x \o s) \o y

\* A stretch and what is around it.
LEMMA StretchFacts ==
    ASSUME NEW T, NEW t \in Seq(T), NEW s, IsStretch(s, t)
    PROVE  Between(T, s, t)
  <1>1. PICK a \in 1 .. Len(t) + 1 : \E b \in a - 1 .. Len(t) : s = SubSeq(t, a, b)
    BY DEF IsStretch
  <1>2. PICK b \in a - 1 .. Len(t) : s = SubSeq(t, a, b)
    BY <1>1
  <1> DEFINE x == SubSeq(t, 1, a - 1)
             y == SubSeq(t, b + 1, Len(t))
             r == SubSeq(t, a, b)
  <1>3. x \in Seq(T) /\ r \in Seq(T) /\ y \in Seq(T) /\ t = (x \o r) \o y
    BY AroundStretch, ZenonT(30)
  <1> HIDE DEF x, y
  <1>4. s = r
    BY <1>2
  <1> HIDE DEF r
  <1> QED
    BY ONLY <1>3, <1>4 DEF Between

\* A stretch of a stretch is a stretch.
LEMMA StretchOfStretch ==
    ASSUME NEW T, NEW t \in Seq(T), NEW s, NEW r, IsStretch(s, t), IsStretch(r, s)
    PROVE  IsStretch(r, t)
  <1>8. Between(T, s, t)
    BY StretchFacts
  <1>6. s \in Seq(T) /\ \E x, y \in Seq(T) : t = (x \o s) \o y
    BY <1>8 DEF Between
  <1>1. PICK x \in Seq(T), y \in Seq(T) : t = (x \o s) \o y
    BY <1>6
  <1>7. r \in Seq(T) /\ \E v, w \in Seq(T) : s = (v \o r) \o w
    <2>1. s \in Seq(T)
      BY <1>6
    <2>2. Between(T, r, s)
      BY <2>1, StretchFacts
    <2> QED
      BY <2>2 DEF Between
  <1>2. PICK v \in Seq(T), w \in Seq(T) : s = (v \o r) \o w
    BY <1>7
  <1> DEFINE xv == x \o v
             wy == w \o y
  <1>3. xv \in Seq(T) /\ wy \in Seq(T) /\ (x \o ((v \o r) \o w)) \o y = (xv \o r) \o wy
    <2>1. /\ x \in Seq(T) /\ v \in Seq(T) /\ r \in Seq(T) /\ w \in Seq(T) /\ y \in Seq(T)
      BY <1>7
    <2> QED
      BY ONLY <2>1, SMTT(30)
  <1>4. t = (x \o ((v \o r) \o w)) \o y
    BY <1>1, <1>2, Zenon
  <1> HIDE DEF xv, wy
  <1>5. IsStretch(r, (xv \o r) \o wy)
    BY <1>3, <1>7, StretchBetween
  <1> QED
    BY <1>3, <1>4, <1>5, Zenon

\* Each sequence is a stretch of the flattened ones.
LEMMA FlattenStretch ==
    ASSUME NEW T, NEW s \in Seq(Seq(T)), NEW i \in DOMAIN s
    PROVE  IsStretch(s[i], FlattenSeq(s))
  <1> DEFINE n == Len(s)
             x == SubSeq(s, 1, i - 1)
             o == SubSeq(s, i, i)
             y == SubSeq(s, i + 1, n)
  <1>1. n \in Nat /\ i \in 1 .. n /\ s[i] \in Seq(T)
    OBVIOUS
  <1>2. /\ x \in Seq(Seq(T)) /\ o \in Seq(Seq(T)) /\ y \in Seq(Seq(T))
        /\ s = (x \o o) \o y
    <2>1. i \in 1 .. Len(s) + 1 /\ i \in i - 1 .. Len(s)
      BY <1>1
    <2> QED
      BY <2>1, AroundStretch, ZenonT(30)
  <1>3. o = <<s[i]>>
    <2>1. \A j \in i .. i : s[j] \in Seq(T)
      BY <1>1
    <2>2. o \in Seq(Seq(T)) /\ Len(o) = 1 /\ \A j \in 1 .. 1 : o[j] = s[i + j - 1]
      BY <1>1, <2>1, SubSeqProperties
    <2> HIDE DEF o
    <2> QED
      BY <1>1, <2>2
  <1> HIDE DEF n, x, o, y
  <1>4. FlattenSeq(o) = s[i]
    <2>1. <<>> \in Seq(Seq(T)) /\ Append(<<>>, s[i]) = <<s[i]>>
      BY <1>1
    <2>2. FlattenSeq(Append(<<>>, s[i])) = FlattenSeq(<<>>) \o s[i]
      BY <1>1, <2>1, FlattenAppend
    <2>3. <<>> \o s[i] = s[i]
      BY <1>1
    <2> QED
      BY <1>3, <2>1, <2>2, <2>3, FlattenEmpty
  <1>5. /\ x \o o \in Seq(Seq(T))
        /\ FlattenSeq(x \o o) = FlattenSeq(x) \o FlattenSeq(o)
        /\ FlattenSeq((x \o o) \o y) = FlattenSeq(x \o o) \o FlattenSeq(y)
        /\ FlattenSeq(x) \in Seq(T) /\ FlattenSeq(y) \in Seq(T)
    <2>1. x \o o \in Seq(Seq(T))
      BY <1>2
    <2>2. FlattenSeq(x \o o) = FlattenSeq(x) \o FlattenSeq(o)
      BY <1>2, FlattenConcat
    <2> DEFINE xo == x \o o
    <2> HIDE DEF xo
    <2>3. FlattenSeq(xo \o y) = FlattenSeq(xo) \o FlattenSeq(y)
      BY <1>2, <2>1, FlattenConcat DEF xo
    <2>4. FlattenSeq(x) \in Seq(T) /\ FlattenSeq(y) \in Seq(T)
      BY <1>2, FlattenConcat
    <2> QED
      BY <2>1, <2>2, <2>3, <2>4 DEF xo
  <1> DEFINE fx == FlattenSeq(x)
             fy == FlattenSeq(y)
             e == s[i]
  <1>6. fx \in Seq(T) /\ e \in Seq(T) /\ fy \in Seq(T) /\ FlattenSeq(s) = (fx \o e) \o fy
    BY <1>1, <1>2, <1>4, <1>5
  <1> HIDE DEF fx, fy, e
  <1>7. IsStretch(e, (fx \o e) \o fy)
    BY <1>6, StretchBetween
  <1> QED
    BY <1>6, <1>7 DEF e

-----------------------------------------------------------------------------
(* The words of consecutive lines. *)

Span(a, b) == [first |-> a, last |-> b]

\* The words of lines are those of all but the last, and then those of the last.
LEMMA WordsOfGrows ==
    ASSUME NEW f, IsFile(f), NEW a \in 1 .. Len(f) + 1
    PROVE  /\ \A b \in a - 1 .. Len(f) : WordsOf(f, Span(a, b)) \in Seq(Occurrence)
           /\ WordsOf(f, Span(a, a - 1)) = <<>>
           /\ \A b \in a .. Len(f) :
                 WordsOf(f, Span(a, b)) = WordsOf(f, Span(a, b - 1)) \o Occurrences(f, b)
  <1> DEFINE n == Len(f)
             L(b) == [i \in 1 .. b - a + 1 |-> Occurrences(f, a + i - 1)]
  <1>1. n \in Nat /\ DOMAIN f = 1 .. n
    BY DEF IsFile
  <1>2. \A b : WordsOf(f, Span(a, b)) = FlattenSeq(L(b))
    BY DEF WordsOf, Span
  <1>3. \A i \in 1 .. n : Occurrences(f, i) \in Seq(Occurrence)
    BY <1>1, OccurrencesFacts
  <1> HIDE DEF n
  <1>4. ASSUME NEW b \in a - 1 .. n
        PROVE  L(b) \in Seq(Seq(Occurrence)) /\ Len(L(b)) = b - a + 1
    <2> DEFINE m == b - a + 1
    <2>1. m \in Nat /\ \A i \in 1 .. m : a + i - 1 \in 1 .. n
      BY <1>1 DEF n
    <2>2. L(b) = [i \in 1 .. m |-> Occurrences(f, a + i - 1)]
      OBVIOUS
    <2> HIDE DEF m, L
    <2>3. L(b) \in [1 .. m -> Seq(Occurrence)]
      BY <1>3, <2>1, <2>2
    <2>4. L(b) \in Seq(Seq(Occurrence)) /\ Len(L(b)) = m
      BY <2>1, <2>3
    <2> QED
      BY <2>4 DEF m
  <1>5. L(a - 1) = <<>>
    <2>1. 1 .. a - 1 - a + 1 = {}
      OBVIOUS
    <2> QED
      BY <2>1
  <1>6. ASSUME NEW b \in a .. n
        PROVE  FlattenSeq(L(b)) = FlattenSeq(L(b - 1)) \o Occurrences(f, b)
    <2> DEFINE s == L(b - 1)
               t == L(b)
               m == b - a
               o == Occurrences(f, b)
    <2>1. b - 1 \in a - 1 .. n /\ b \in a - 1 .. n /\ b \in 1 .. n
          /\ m \in Nat /\ b - 1 - a + 1 = m /\ b - a + 1 = m + 1 /\ a + (m + 1) - 1 = b
      BY <1>1 DEF n
    <2>2. s \in Seq(Seq(Occurrence)) /\ Len(s) = m /\ o \in Seq(Occurrence)
      <3> HIDE DEF L
      <3> QED
        BY <1>3, <1>4, <2>1
    <2>3. s = [i \in 1 .. m |-> Occurrences(f, a + i - 1)]
      BY <2>1
    <2>4. t = [i \in 1 .. m + 1 |-> Occurrences(f, a + i - 1)]
      BY <2>1
    <2> HIDE DEF s, t, m, L
    <2>5. t = Append(s, o)
      <3>1. \A i \in 1 .. m + 1 : i = m + 1 \/ i \in 1 .. m
        BY <2>1
      <3> DEFINE T == Seq(Occurrence)
                 u == Append(s, o)
      <3>2. s \in Seq(T) /\ Len(s) = m /\ o \in T /\ t \in Seq(T) /\ Len(t) = m + 1
        BY <1>4, <2>1, <2>2 DEF t
      <3> HIDE DEF o, T
      <3>3. u \in Seq(T) /\ Len(u) = m + 1 /\ u[m + 1] = o /\ \A i \in 1 .. m : u[i] = s[i]
        BY <2>1, <3>2
      <3>4. t[m + 1] = o /\ \A i \in 1 .. m : t[i] = s[i]
        <4>1. m + 1 \in 1 .. m + 1 /\ \A i \in 1 .. m : i \in 1 .. m + 1
          BY <2>1
        <4> QED
          BY <2>1, <2>3, <2>4, <4>1 DEF o
      <3> HIDE DEF u
      <3>5. \A i \in 1 .. m + 1 : t[i] = u[i]
        BY <3>1, <3>3, <3>4
      <3>6. t = u
        BY <3>2, <3>3, <3>5, SeqEqual
      <3> QED
        BY <3>6 DEF u
    <2> HIDE DEF o
    <2>6. FlattenSeq(Append(s, o)) = FlattenSeq(s) \o o
      BY <2>2, FlattenAppend
    <2> QED
      BY <2>5, <2>6 DEF s, t, o
  <1> HIDE DEF L
  <1>7. \A b \in a - 1 .. n : FlattenSeq(L(b)) \in Seq(Occurrence)
    BY <1>4, FlattenElements
  <1> QED
    BY <1>2, <1>5, <1>6, <1>7, FlattenEmpty DEF n

\* The words of lines are those of the first of them and then those of the others.
LEMMA WordsOfSplit ==
    ASSUME NEW f, IsFile(f), NEW a \in 1 .. Len(f) + 1, NEW b \in a - 1 .. Len(f),
           NEW c \in b .. Len(f)
    PROVE  /\ WordsOf(f, Span(a, b)) \in Seq(Occurrence)
           /\ WordsOf(f, Span(b + 1, c)) \in Seq(Occurrence)
           /\ WordsOf(f, Span(a, c)) = WordsOf(f, Span(a, b)) \o WordsOf(f, Span(b + 1, c))
  <1> DEFINE n == Len(f)
             W(i, j) == WordsOf(f, Span(i, j))
             Good == {d \in 0 .. n - b : W(a, b + d) = W(a, b) \o W(b + 1, b + d)}
  <1>1. n \in Nat /\ b \in Nat /\ n - b \in Nat /\ b + 1 \in 1 .. n + 1
    BY DEF IsFile
  <1>2. /\ \A j \in a - 1 .. n : W(a, j) \in Seq(Occurrence)
        /\ \A j \in a .. n : W(a, j) = W(a, j - 1) \o Occurrences(f, j)
    BY WordsOfGrows
  <1>3. /\ \A j \in b .. n : W(b + 1, j) \in Seq(Occurrence)
        /\ W(b + 1, b) = <<>>
        /\ \A j \in b + 1 .. n : W(b + 1, j) = W(b + 1, j - 1) \o Occurrences(f, j)
    <2> DEFINE e == b + 1
    <2>1. e \in 1 .. Len(f) + 1 /\ e - 1 = b
      BY <1>1
    <2> HIDE DEF e
    <2>2. /\ \A j \in e - 1 .. Len(f) : WordsOf(f, Span(e, j)) \in Seq(Occurrence)
          /\ WordsOf(f, Span(e, e - 1)) = <<>>
          /\ \A j \in e .. Len(f) :
                WordsOf(f, Span(e, j)) = WordsOf(f, Span(e, j - 1)) \o Occurrences(f, j)
      BY <2>1, WordsOfGrows
    <2> QED
      BY <2>1, <2>2 DEF e
  <1>4. \A j \in 1 .. n : Occurrences(f, j) \in Seq(Occurrence)
    BY OccurrencesFacts DEF IsFile
  <1> HIDE DEF n, W
  <1>5. 0 \in Good
    <2>1. b + 0 = b /\ b \in a - 1 .. n /\ 0 \in 0 .. n - b
      BY <1>1 DEF n
    <2>2. W(a, b) \o <<>> = W(a, b)
      BY <1>2, <2>1
    <2> QED
      BY <1>3, <2>1, <2>2
  <1>6. ASSUME NEW d \in 1 .. n - b, d - 1 \in Good
        PROVE  d \in Good
    <2> DEFINE j == b + d
               k == b + (d - 1)
               s == W(a, b)
               t == W(b + 1, k)
               o == Occurrences(f, j)
    <2>1. j \in b + 1 .. n /\ j \in a .. n /\ j - 1 = k /\ k \in b .. n /\ j \in 1 .. n
          /\ b \in a - 1 .. n /\ d \in 0 .. n - b
      BY <1>1 DEF n
    <2>2. W(a, k) = s \o t
      BY <1>6
    <2> HIDE DEF j, k
    <2>3. W(a, j) = (s \o t) \o o
      BY <1>2, <2>1, <2>2
    <2>4. W(b + 1, j) = t \o o
      BY <1>3, <2>1
    <2>5. s \in Seq(Occurrence) /\ t \in Seq(Occurrence) /\ o \in Seq(Occurrence)
      BY <1>2, <1>3, <1>4, <2>1
    <2> HIDE DEF s, t, o
    <2>6. (s \o t) \o o = s \o (t \o o)
      BY ONLY <2>5, SMTT(30)
    <2>7. W(a, j) = s \o W(b + 1, j)
      BY <2>3, <2>4, <2>6, Zenon
    <2> QED
      BY <2>1, <2>7 DEF s, j
  <1>7. c - b \in Good
    <2>1. c - b \in 0 .. n - b
      BY <1>1 DEF n
    <2> HIDE DEF Good
    <2> QED
      BY <1>1, <1>5, <1>6, <2>1, IntervalInduction
  <1>8. W(a, c) = W(a, b) \o W(b + 1, c)
    <2>1. b + (c - b) = c
      BY <1>1
    <2> QED
      BY <1>7, <2>1
  <1>9. W(a, b) \in Seq(Occurrence) /\ W(b + 1, c) \in Seq(Occurrence)
    BY <1>2, <1>3 DEF n
  <1> QED
    BY <1>8, <1>9 DEF W

-----------------------------------------------------------------------------
(* Intervals one after the other. *)

\* Where nothing is added, nothing changes.
LEMMA NothingAdded ==
    ASSUME NEW A, NEW n \in Nat, NEW pre \in [0 .. n -> A], NEW a \in 0 .. n, NEW b \in a .. n,
           \A j \in a + 1 .. b : pre[j] = pre[j - 1]
    PROVE  pre[b] = pre[a]
  <1> DEFINE Good == {d \in 0 .. b - a : pre[a + d] = pre[a]}
  <1>1. b - a \in Nat /\ a + 0 = a /\ a + (b - a) = b
    OBVIOUS
  <1>2. 0 \in Good
    BY <1>1
  <1>3. ASSUME NEW d \in 1 .. b - a, d - 1 \in Good
        PROVE  d \in Good
    <2>1. a + d \in a + 1 .. b /\ a + d - 1 = a + (d - 1) /\ d \in 0 .. b - a
      OBVIOUS
    <2> QED
      BY <1>3, <2>1
  <1>4. b - a \in Good
    <2>1. b - a \in 0 .. b - a
      BY <1>1
    <2> HIDE DEF Good
    <2> QED
      BY <1>1, <1>2, <1>3, <2>1, IntervalInduction
  <1> QED
    BY <1>1, <1>4

\* Of n places, pre is what there is up to each and w what there is in each interval; all
\* there is, is in the intervals.
Tiles(A, n, P, pre, w) ==
    /\ pre \in [0 .. n -> A] /\ pre[0] = <<>>
    /\ P \in SUBSET Intervals(n)
    /\ \A p, q \in P : LinesOf(p) \cap LinesOf(q) # {} => p = q
    /\ w \in [P -> A]
    /\ \A p \in P : pre[p.last] = pre[p.first - 1] \o w[p]
    /\ \A i \in 1 .. n : pre[i] = pre[i - 1] \/ \E p \in P : i \in LinesOf(p)

\* What there is in the intervals, one after the other, comes to the whole.
LEMMA Tiling ==
    ASSUME NEW T, NEW n \in Nat, NEW P, NEW pre, NEW w, Tiles(Seq(T), n, P, pre, w)
    PROVE  /\ InOrder(P) \in Seq(P) /\ Range(InOrder(P)) = P
           /\ FlattenSeq([i \in DOMAIN InOrder(P) |-> w[InOrder(P)[i]]]) = pre[n]
  <1>0. /\ pre \in [0 .. n -> Seq(T)] /\ pre[0] = <<>>
        /\ P \in SUBSET Intervals(n)
        /\ \A p, q \in P : LinesOf(p) \cap LinesOf(q) # {} => p = q
        /\ w \in [P -> Seq(T)]
        /\ \A p \in P : pre[p.last] = pre[p.first - 1] \o w[p]
        /\ \A i \in 1 .. n : pre[i] = pre[i - 1] \/ \E p \in P : i \in LinesOf(p)
    BY DEF Tiles
  <1> DEFINE s == InOrder(P)
             m == Len(s)
  <1>1. ASSUME NEW p \in P
        PROVE  p.first \in 1 .. n /\ p.last \in p.first .. n /\ p.first \in LinesOf(p)
    BY <1>0 DEF Intervals, LinesOf
  <1>2. \A p, q \in P : p.first = q.first => p = q
    <2> SUFFICES ASSUME NEW p \in P, NEW q \in P, p.first = q.first PROVE p = q
      OBVIOUS
    <2>1. p.first \in LinesOf(p) /\ p.first \in LinesOf(q)
      BY <1>1
    <2> QED
      BY <1>0, <2>1
  <1>3. /\ s \in Seq(P) /\ Range(s) = P
        /\ \A i, j \in DOMAIN s : i < j => s[i].first < s[j].first
    BY <1>1, <1>2, InOrderFacts DEF Ascending
  <1> HIDE DEF s
  <1>4. m \in Nat /\ DOMAIN s = 1 .. m /\ \A i \in 1 .. m : s[i] \in P
    BY <1>3
  <1>5. ASSUME NEW p \in P
        PROVE  \E k \in 1 .. m : s[k] = p
    BY <1>3, <1>4 DEF Range
  <1> HIDE DEF m
  <1>6. ASSUME NEW i \in 1 .. m, NEW j \in 1 .. m, i < j
        PROVE  s[i].last < s[j].first
    <2> DEFINE p == s[i]
               q == s[j]
    <2>1. p \in P /\ q \in P /\ p.first < q.first
      BY <1>3, <1>4, <1>6
    <2> HIDE DEF p, q
    <2>2. p.first \in Int /\ p.last \in Int /\ q.first \in Int /\ q.first \in LinesOf(q)
      BY <1>1, <2>1
    <2>3. q.first \notin LinesOf(p)
      <3> SUFFICES ASSUME q.first \in LinesOf(p) PROVE FALSE
        OBVIOUS
      <3>1. p = q
        BY <1>0, <2>1, <2>2
      <3> QED
        BY <2>1, <2>2, <3>1
    <2>4. p.last < q.first
      BY <2>1, <2>2, <2>3 DEF LinesOf
    <2> QED
      BY <2>4 DEF p, q
  <1> DEFINE end == [i \in 0 .. m |-> IF i = 0 THEN 0 ELSE s[i].last]
             start == [i \in 0 .. m |-> IF i = m THEN n + 1 ELSE s[i + 1].first]
  <1>7. ASSUME NEW i \in 0 .. m
        PROVE  end[i] \in 0 .. n /\ start[i] \in end[i] + 1 .. n + 1
    <2>1. i = 0 \/ i \in 1 .. m
      BY <1>4
    <2>2. i = m \/ i + 1 \in 1 .. m
      BY <1>4
    <2>3. end[i] \in 0 .. n
      <3>1. CASE i = 0
        BY <3>1
      <3>2. CASE i # 0
        <4>1. end[i] = s[i].last /\ s[i] \in P
          BY <1>4, <2>1, <3>2
        <4> DEFINE p == s[i]
        <4>2. end[i] = p.last /\ p \in P
          BY <4>1
        <4> HIDE DEF end, p
        <4>3. p.first \in 1 .. n /\ p.last \in p.first .. n
          BY <1>1, <4>2
        <4>4. p.last \in 0 .. n
          BY <4>3
        <4> QED
          BY <4>2, <4>4
      <3> QED
        BY <3>1, <3>2
    <2>4. start[i] \in end[i] + 1 .. n + 1
      <3>1. CASE i = m
        <4>1. start[i] = n + 1
          BY <3>1
        <4> HIDE DEF start, end
        <4> QED
          BY <2>3, <4>1
      <3>2. CASE i # m
        <4>1. start[i] = s[i + 1].first /\ s[i + 1] \in P
          BY <1>4, <2>2, <3>2
        <4>2. s[i + 1].first \in 1 .. n
          BY <1>1, <4>1
        <4>3. end[i] < s[i + 1].first
          <5>1. CASE i = 0
            BY <4>2, <5>1
          <5>2. CASE i # 0
            <6>1. end[i] = s[i].last /\ i \in 1 .. m /\ i + 1 \in 1 .. m /\ i < i + 1
              BY <2>1, <2>2, <3>2, <5>2
            <6> HIDE DEF end
            <6> QED
              BY <1>6, <6>1
          <5> QED
            BY <5>1, <5>2
        <4> DEFINE a == end[i]
                   b == s[i + 1].first
        <4>4. a \in 0 .. n /\ b \in 1 .. n /\ a < b
          BY <2>3, <4>2, <4>3
        <4> HIDE DEF start, end, a, b
        <4>5. b \in a + 1 .. n + 1
          BY ONLY n \in Nat, <4>4
        <4> QED
          BY <4>1, <4>5 DEF a, b
      <3> QED
        BY <3>1, <3>2
    <2> HIDE DEF start, end
    <2> QED
      BY <2>3, <2>4
  <1>8. ASSUME NEW i \in 0 .. m, NEW j \in end[i] + 1 .. start[i] - 1
        PROVE  pre[j] = pre[j - 1]
    <2>1. j \in 1 .. n
      <3> HIDE DEF start, end
      <3> QED
        BY <1>7
    <2>2. ASSUME NEW k \in 1 .. m, j \in LinesOf(s[k])
          PROVE  FALSE
      <3>1. s[k] \in P /\ s[k].first <= j /\ j <= s[k].last
            /\ s[k].first \in Int /\ s[k].last \in Int
        BY <1>1, <1>4, <2>1, <2>2 DEF LinesOf
      <3>2. CASE k <= i
        <4>1. i \in 1 .. m /\ i # 0
          BY <1>4, <3>2
        <4>2. end[i] = s[i].last
          BY <4>1
        <4>3. s[k].last <= s[i].last
          <5>1. CASE k = i
            BY <3>1, <5>1
          <5>2. CASE k < i
            <6>1. s[k].last < s[i].first /\ s[i].last \in s[i].first .. n /\ s[i].first \in 1 .. n
              BY <1>1, <1>4, <1>6, <4>1, <5>2
            <6> QED
              BY <3>1, <6>1
          <5> QED
            BY <1>4, <3>2, <5>1, <5>2
        <4>4. end[i] \in 0 .. n /\ end[i] < j
          <5> HIDE DEF start, end
          <5> QED
            BY <1>7, <2>1
        <4> DEFINE a == end[i]
                   b == s[k].last
        <4>5. a \in 0 .. n /\ a < j /\ b \in Int /\ j <= b /\ b <= a
          BY <3>1, <4>2, <4>3, <4>4
        <4> HIDE DEF start, end, a, b
        <4> QED
          BY ONLY n \in Nat, j \in 1 .. n, <2>1, <4>5
      <3>3. CASE k > i
        <4>1. i # m /\ i + 1 \in 1 .. m
          BY <1>4, <3>3
        <4>2. start[i] = s[i + 1].first
          BY <4>1
        <4>3. s[i + 1].first <= s[k].first
          <5>1. CASE k = i + 1
            BY <3>1, <5>1
          <5>2. CASE k # i + 1
            <6>1. i + 1 < k
              BY <1>4, <3>3, <5>2
            <6>2. s[i + 1].first < s[k].first
              BY <1>3, <1>4, <4>1, <6>1
            <6>3. s[i + 1].first \in Int
              BY <1>1, <1>4, <4>1
            <6> QED
              BY <3>1, <6>2, <6>3
          <5> QED
            BY <5>1, <5>2
        <4>4. start[i] \in Int /\ j < start[i]
          <5> HIDE DEF start, end
          <5> QED
            BY <1>7, <2>1
        <4> DEFINE a == start[i]
                   b == s[k].first
        <4>5. a \in Int /\ j < a /\ b \in Int /\ b <= j /\ a <= b
          BY <3>1, <4>2, <4>3, <4>4
        <4> HIDE DEF start, end, a, b
        <4> QED
          BY ONLY n \in Nat, j \in 1 .. n, <2>1, <4>5
      <3> QED
        BY <1>4, <3>2, <3>3
    <2>3. ~ \E p \in P : j \in LinesOf(p)
      BY <1>5, <2>2
    <2> QED
      BY <1>0, <2>1, <2>3
  <1>9. ASSUME NEW i \in 0 .. m
        PROVE  pre[start[i] - 1] = pre[end[i]]
    <2> DEFINE a == end[i]
               b == start[i] - 1
               A == Seq(T)
    <2>1. \A j \in a + 1 .. b : pre[j] = pre[j - 1]
      <3> HIDE DEF start, end
      <3> QED
        BY <1>8
    <2>2. a \in 0 .. n /\ start[i] \in a + 1 .. n + 1 /\ b = start[i] - 1
      <3> HIDE DEF start, end
      <3> QED
        BY <1>7
    <2>3. pre \in [0 .. n -> A]
      BY <1>0
    <2> HIDE DEF a, b, start, end, A
    <2>4. b \in a .. n
      BY <2>2
    <2>5. pre[b] = pre[a]
      BY ONLY n \in Nat, <2>1, <2>2, <2>3, <2>4, NothingAdded, ZenonT(30)
    <2> QED
      BY <2>5 DEF a, b
  <1> DEFINE ws == [i \in 1 .. m |-> w[s[i]]]
  <1>10. ws \in Seq(Seq(T)) /\ Len(ws) = m
    <2>1. ws \in [1 .. m -> Seq(T)]
      BY <1>0, <1>4
    <2> DEFINE A == Seq(T)
    <2>2. ws \in [1 .. m -> A]
      BY <2>1
    <2> HIDE DEF ws, A
    <2>3. ws \in Seq(A) /\ Len(ws) = m
      BY <1>4, <2>2
    <2> QED
      BY <2>3 DEF A
  <1>11. \A i \in 1 .. m : ws[i] = w[s[i]]
    OBVIOUS
  <1> HIDE DEF ws
  <1>12. PICK g \in [0 .. m -> Seq(T)] :
            /\ g[0] = <<>> /\ \A i \in 1 .. m : g[i] = g[i - 1] \o ws[i]
            /\ FlattenSeq(ws) = g[m]
    BY <1>10, FlattenRun
  <1> DEFINE Good == {i \in 0 .. m : g[i] = pre[end[i]]}
  <1>13. 0 \in Good
    BY <1>0, <1>4, <1>12
  <1>14. ASSUME NEW i \in 1 .. m, i - 1 \in Good
         PROVE  i \in Good
    <2>1. i \in 0 .. m /\ i - 1 \in 0 .. m /\ i # 0 /\ i - 1 # m /\ i - 1 + 1 = i
      BY <1>4
    <2>2. end[i] = s[i].last /\ start[i - 1] = s[i].first /\ s[i] \in P
      BY <1>4, <2>1
    <2> HIDE DEF start, end
    <2>3. g[i] = g[i - 1] \o ws[i] /\ g[i - 1] = pre[end[i - 1]]
      BY <1>12, <1>14
    <2>4. pre[end[i - 1]] = pre[s[i].first - 1]
      BY <1>9, <2>1, <2>2
    <2>5. pre[s[i].last] = pre[s[i].first - 1] \o w[s[i]]
      BY <1>0, <2>2
    <2> QED
      BY <1>11, <2>1, <2>2, <2>3, <2>4, <2>5
  <1>15. m \in Good
    <2>1. m \in 0 .. m
      BY <1>4
    <2> HIDE DEF Good
    <2> QED
      BY <1>4, <1>13, <1>14, <2>1, IntervalInduction
  <1>16. pre[n] = pre[end[m]]
    <2>1. m \in 0 .. m /\ start[m] = n + 1
      BY <1>4
    <2>2. pre[start[m] - 1] = pre[end[m]]
      <3> HIDE DEF start, end
      <3> QED
        BY <1>9, <2>1
    <2> QED
      BY <2>1, <2>2
  <1>17. FlattenSeq(ws) = pre[n]
    BY <1>12, <1>15, <1>16
  <1>18. ws = [i \in DOMAIN s |-> w[s[i]]]
    BY <1>4 DEF ws
  <1> QED
    BY <1>3, <1>17, <1>18 DEF s

-----------------------------------------------------------------------------
(* The text of units. *)

\* The beginning of a sequence grows by what follows in it.
LEMMA PrefixGrows ==
    ASSUME NEW T, NEW t \in Seq(T), NEW a \in 1 .. Len(t) + 1, NEW b \in a - 1 .. Len(t)
    PROVE  /\ SubSeq(t, 1, b) \in Seq(T)
           /\ SubSeq(t, 1, b) = SubSeq(t, 1, a - 1) \o SubSeq(t, a, b)
  <1> DEFINE n == Len(t)
             c == a - 1
             x == SubSeq(t, 1, c)
             s == SubSeq(t, a, b)
             u == SubSeq(t, 1, b)
             v == x \o s
  <1>1. n \in Nat /\ a \in 1 .. n + 1 /\ b \in a - 1 .. n /\ c \in Nat /\ b \in Nat
        /\ c = a - 1 /\ c \in 0 .. n /\ b \in 0 .. n /\ Len(t) = n
    OBVIOUS
  <1>2. s \in Seq(T) /\ Len(s) = b - a + 1 /\ \A i \in 1 .. b - a + 1 : s[i] = t[a + i - 1]
    BY SubSeqFacts
  <1>3. ASSUME NEW d \in 0 .. n
        PROVE  /\ SubSeq(t, 1, d) \in Seq(T) /\ Len(SubSeq(t, 1, d)) = d
               /\ \A i \in 1 .. d : SubSeq(t, 1, d)[i] = t[i]
    <2> DEFINE y == SubSeq(t, 1, d)
    <2>1. 1 \in 1 .. Len(t) + 1 /\ d \in 1 - 1 .. Len(t) /\ d - 1 + 1 = d
      BY <1>1
    <2>2. y \in Seq(T) /\ Len(y) = d - 1 + 1 /\ \A i \in 1 .. d - 1 + 1 : y[i] = t[1 + i - 1]
      BY <2>1, SubSeqFacts
    <2>3. \A i \in 1 .. d : 1 + i - 1 = i
      OBVIOUS
    <2> HIDE DEF y
    <2>4. y \in Seq(T) /\ Len(y) = d /\ \A i \in 1 .. d : y[i] = t[i]
      BY <2>1, <2>2, <2>3
    <2> QED
      BY <2>4 DEF y
  <1>4. x \in Seq(T) /\ Len(x) = c /\ \A i \in 1 .. c : x[i] = t[i]
    BY <1>1, <1>3
  <1>5. u \in Seq(T) /\ Len(u) = b /\ \A i \in 1 .. b : u[i] = t[i]
    BY <1>1, <1>3
  <1> HIDE DEF c, x, s, u, n
  <1>6. /\ v \in Seq(T) /\ Len(v) = Len(x) + Len(s)
        /\ \A i \in 1 .. Len(x) : v[i] = x[i]
        /\ \A i \in 1 .. Len(s) : v[Len(x) + i] = s[i]
    <2>1. x \in Seq(T) /\ s \in Seq(T)
      BY <1>2, <1>4
    <2> QED
      BY <2>1
  <1> HIDE DEF v
  <1>7. ASSUME NEW i \in 1 .. b
        PROVE  v[i] = u[i]
    <2>1. CASE i \in 1 .. c
      BY <1>4, <1>5, <1>6, <2>1
    <2>2. CASE i \notin 1 .. c
      <3> DEFINE k == i - c
      <3>1. k \in 1 .. b - a + 1 /\ c + k = i /\ a + k - 1 = i
        BY <1>1, <2>2
      <3> HIDE DEF k
      <3>2. v[c + k] = s[k] /\ s[k] = t[a + k - 1]
        BY <1>2, <1>4, <1>6, <3>1
      <3> QED
        BY <1>5, <3>1, <3>2
    <2> QED
      BY <2>1, <2>2
  <1>8. v = u
    <2>1. Len(v) = Len(u) /\ \A i \in 1 .. Len(v) : v[i] = u[i]
      BY <1>1, <1>2, <1>4, <1>5, <1>6, <1>7
    <2> QED
      BY <1>5, <1>6, <2>1, SeqEqual
  <1> QED
    BY <1>5, <1>8 DEF v, u, x, s, c

\* The beginning that reaches the end is the whole.
LEMMA WholePrefix ==
    ASSUME NEW T, NEW t \in Seq(T)
    PROVE  SubSeq(t, 1, Len(t)) = t /\ SubSeq(t, 1, 0) = <<>>
  OBVIOUS

\* The sentences of a text, one after the other, are the text.
LEMMA SentencesText ==
    ASSUME NEW words \in Texts
    PROVE  FlattenSeq(Sentences(words)) = words
  <1> DEFINE n == Len(words)
             P == SentenceSpans(words)
             A == Seq(Occurrence)
             pre == [j \in 0 .. n |-> SubSeq(words, 1, j)]
             w == [p \in P |-> SubSeq(words, p.first, p.last)]
             s == InOrder(P)
  <1>1. n \in Nat /\ words \in Seq(Occurrence) /\ n = Len(words)
    BY DEF Texts
  <1>2. /\ P \in SUBSET Intervals(n)
        /\ \A p, q \in P : LinesOf(p) \cap LinesOf(q) # {} => p = q
        /\ \A i \in 1 .. n : \E p \in P : i \in LinesOf(p)
        /\ Sentences(words) = [i \in DOMAIN s |-> SubSeq(words, s[i].first, s[i].last)]
    BY SentenceSpansFacts
  <1> HIDE DEF n, P
  <1>3. pre \in [0 .. n -> A] /\ pre[0] = <<>> /\ pre[n] = words
    <2>1. \A j \in 0 .. n : 1 \in 1 .. Len(words) + 1 /\ j \in 1 - 1 .. Len(words)
      BY <1>1
    <2>2. \A j \in 0 .. n : SubSeq(words, 1, j) \in A
      BY <1>1, <2>1, PrefixGrows
    <2>3. 0 \in 0 .. n /\ n \in 0 .. n
      BY <1>1
    <2>4. SubSeq(words, 1, 0) = <<>> /\ SubSeq(words, 1, n) = words
      BY <1>1, WholePrefix
    <2> HIDE DEF A
    <2> QED
      BY <2>2, <2>3, <2>4
  <1>4. ASSUME NEW p \in P
        PROVE  w[p] \in A /\ pre[p.last] = pre[p.first - 1] \o w[p]
    <2> DEFINE a == p.first
               b == p.last
    <2>1. a \in 1 .. n /\ b \in a .. n
      BY <1>2 DEF Intervals
    <2>2. w[p] = SubSeq(words, a, b)
      OBVIOUS
    <2> HIDE DEF a, b, w
    <2>3. a \in 1 .. Len(words) + 1 /\ b \in a - 1 .. Len(words) /\ b \in 0 .. n /\ a - 1 \in 0 .. n
      BY <1>1, <2>1
    <2>4. SubSeq(words, 1, b) = SubSeq(words, 1, a - 1) \o SubSeq(words, a, b)
          /\ SubSeq(words, a, b) \in A
      <3> HIDE DEF A
      <3> QED
        BY <1>1, <2>3, PrefixGrows, SubSeqFacts DEF A
    <2>5. pre[b] = SubSeq(words, 1, b) /\ pre[a - 1] = SubSeq(words, 1, a - 1)
      BY <2>3
    <2> HIDE DEF pre, A
    <2>6. pre[b] = pre[a - 1] \o w[p] /\ w[p] \in A
      BY <2>2, <2>4, <2>5, Zenon
    <2> QED
      BY <2>6 DEF a, b
  <1>5. w \in [P -> A]
    <2>1. w = [p \in P |-> w[p]]
      OBVIOUS
    <2> HIDE DEF w, A
    <2> QED
      BY <1>4, <2>1
  <1> HIDE DEF pre
  <1>6. /\ s \in Seq(P) /\ Range(s) = P
        /\ FlattenSeq([i \in DOMAIN s |-> w[s[i]]]) = pre[n]
    <2>1. Tiles(A, n, P, pre, w)
      <3> HIDE DEF w, A
      <3> QED
        BY <1>2, <1>3, <1>4, <1>5 DEF Tiles
    <2> HIDE DEF w
    <2> QED
      BY <1>1, <2>1, Tiling
  <1>7. [i \in DOMAIN s |-> w[s[i]]] = Sentences(words)
    <2>1. \A i \in DOMAIN s : s[i] \in P
      BY <1>6 DEF Range
    <2> HIDE DEF s
    <2>2. \A i \in DOMAIN s : w[s[i]] = SubSeq(words, s[i].first, s[i].last)
      BY <2>1
    <2> HIDE DEF w
    <2> QED
      BY <1>2, <2>2 DEF s
  <1> QED
    BY <1>3, <1>6, <1>7

\* The paragraphs of a part, one after the other, have the words of the part.
LEMMA ParagraphsText ==
    ASSUME NEW f, IsFile(f), NEW p \in Intervals(Len(f))
    PROVE  /\ Paragraphs(f, p) \in Seq(Parts(f))
           /\ FlattenSeq([i \in DOMAIN Paragraphs(f, p) |-> WordsOf(f, Paragraphs(f, p)[i])])
                 = WordsOf(f, p)
  <1> DEFINE a == p.first
             n == p.last
             S == {i \in LinesOf(p) : ~ Blank(f, i)}
             P == Runs(S)
             A == Seq(Occurrence)
             pre == [j \in 0 .. n |-> IF j < a - 1 THEN <<>> ELSE WordsOf(f, Span(a, j))]
             w == [q \in P |-> WordsOf(f, q)]
             s == InOrder(P)
  <1>1. /\ n \in Nat /\ n \in 1 .. Len(f) /\ a \in 1 .. n /\ a \in 1 .. Len(f) + 1
        /\ Len(f) \in Nat /\ p = Span(a, n) /\ LinesOf(p) = a .. n
        /\ DOMAIN f = 1 .. Len(f)
    BY DEF Intervals, LinesOf, Span, IsFile
  <1> HIDE DEF a, n
  <1>2. S \in SUBSET (1 .. n) /\ S \in SUBSET (a .. n)
    <2>1. S \in SUBSET (a .. n)
      BY <1>1
    <2> HIDE DEF S
    <2> QED
      BY <1>1, <2>1
  <1>3. /\ P \in SUBSET Intervals(n)
        /\ \A q \in P : LinesOf(q) \subseteq S
        /\ \A q, r \in P : LinesOf(q) \cap LinesOf(r) # {} => q = r
        /\ \A i \in S : \E q \in P : i \in LinesOf(q)
    <2> HIDE DEF S
    <2> QED
      BY <1>1, <1>2, RunsFacts
  <1>10. \A i \in a .. n : Blank(f, i) \/ i \in S
    BY <1>1
  <1> HIDE DEF S
  <1> HIDE DEF P
  <1>4. ASSUME NEW q \in P
        PROVE  /\ q.first \in a .. n /\ q.last \in q.first .. n /\ q = Span(q.first, q.last)
               /\ q \in Parts(f) /\ WordsOf(f, q) \in A
    <2> DEFINE c == q.first
               d == q.last
    <2>1. c \in 1 .. n /\ d \in 1 .. n /\ c <= d /\ q = Span(c, d) /\ LinesOf(q) = c .. d
      BY <1>3 DEF Intervals, Span, LinesOf
    <2>2. c \in S /\ LinesOf(q) \subseteq S
      BY <1>3, <2>1
    <2>3. q \in Intervals(Len(f))
      <3>1. q \in [first : 1 .. n, last : 1 .. n]
        BY <1>3 DEF Intervals
      <3>2. q \in [first : 1 .. Len(f), last : 1 .. Len(f)]
        BY <1>1, <3>1
      <3> QED
        BY <2>1, <3>2 DEF Intervals
    <2>4. HasText(f, q)
      <3>1. ~ Blank(f, c)
        BY <2>2 DEF S
      <3> QED
        BY <2>1, <3>1 DEF HasText
    <2>5. WordsOf(f, q) \in A
      BY <2>3, WordsOfFacts
    <2>6. c \in a .. n /\ d \in c .. n
      BY <1>2, <2>1, <2>2
    <2> QED
      BY <2>1, <2>3, <2>4, <2>5, <2>6 DEF Parts
  <1>5. /\ \A b \in a - 1 .. n : WordsOf(f, Span(a, b)) \in A
        /\ WordsOf(f, Span(a, a - 1)) = <<>>
        /\ \A b \in a .. n : WordsOf(f, Span(a, b)) = WordsOf(f, Span(a, b - 1)) \o Occurrences(f, b)
    <2>1. \A b : (b \in a - 1 .. n => b \in a - 1 .. Len(f)) /\ (b \in a .. n => b \in a .. Len(f))
      BY <1>1
    <2> QED
      BY <1>1, <2>1, WordsOfGrows
  <1>6. pre \in [0 .. n -> A] /\ pre[0] = <<>> /\ pre[n] = WordsOf(f, p)
    <2>1. \A j \in 0 .. n : j < a - 1 \/ j \in a - 1 .. n
      BY <1>1
    <2>2. <<>> \in A
      OBVIOUS
    <2> HIDE DEF A
    <2>3. pre \in [0 .. n -> A]
      BY <1>5, <2>1, <2>2
    <2>4. 0 \in 0 .. n /\ n \in 0 .. n /\ ~ (n < a - 1)
      BY <1>1
    <2>5. 0 < a - 1 \/ 0 = a - 1
      BY <1>1
    <2> QED
      BY <1>1, <1>5, <2>3, <2>4, <2>5
  <1>7. ASSUME NEW q \in P
        PROVE  pre[q.last] = pre[q.first - 1] \o w[q]
    <2> DEFINE c == q.first
               d == q.last
               b == c - 1
    <2>1. c \in a .. n /\ d \in c .. n /\ q = Span(c, d)
      BY <1>4
    <2>2. w[q] = WordsOf(f, q)
      OBVIOUS
    <2> HIDE DEF c, d, w
    <2>3. b \in a - 1 .. Len(f) /\ d \in b .. Len(f) /\ b + 1 = c
          /\ b \in 0 .. n /\ d \in 0 .. n /\ ~ (b < a - 1) /\ ~ (d < a - 1)
      BY <1>1, <2>1
    <2>4. pre[d] = WordsOf(f, Span(a, d)) /\ pre[b] = WordsOf(f, Span(a, b))
      BY <2>3
    <2> HIDE DEF pre, b
    <2>5. WordsOf(f, Span(a, d)) = WordsOf(f, Span(a, b)) \o WordsOf(f, Span(b + 1, d))
      BY <1>1, <2>3, WordsOfSplit
    <2>6. Span(b + 1, d) = q
      BY <2>1, <2>3
    <2>7. pre[d] = pre[b] \o w[q]
      BY <2>2, <2>4, <2>5, <2>6, Zenon
    <2> QED
      BY <2>7 DEF b, c, d
  <1>8. ASSUME NEW i \in 1 .. n
        PROVE  pre[i] = pre[i - 1] \/ \E q \in P : i \in LinesOf(q)
    <2>1. i \in 0 .. n /\ i - 1 \in 0 .. n
      BY <1>1
    <2>2. CASE i < a - 1
      <3>1. i - 1 < a - 1
        BY <1>1, <2>2
      <3> QED
        BY <2>1, <2>2, <3>1
    <2>3. CASE i = a - 1
      <3>1. i - 1 < a - 1 /\ ~ (i < a - 1)
        BY <1>1, <2>3
      <3>2. pre[i] = WordsOf(f, Span(a, a - 1)) /\ pre[i - 1] = <<>>
        BY <2>1, <2>3, <3>1
      <3> QED
        BY <1>5, <3>2
    <2>4. CASE i \in a .. n /\ Blank(f, i)
      <3>1. ~ (i < a - 1) /\ ~ (i - 1 < a - 1) /\ i - 1 \in a - 1 .. n
        BY <1>1, <2>4
      <3>2. pre[i] = WordsOf(f, Span(a, i)) /\ pre[i - 1] = WordsOf(f, Span(a, i - 1))
        BY <2>1, <3>1
      <3>3. Occurrences(f, i) = <<>>
        <4>1. i \in DOMAIN f
          BY <1>1
        <4> QED
          BY <2>4, <4>1, OccurrencesFacts
      <3> HIDE DEF pre
      <3> DEFINE v == WordsOf(f, Span(a, i - 1))
      <3>4. v \in Seq(Occurrence) /\ pre[i] = v \o <<>> /\ pre[i - 1] = v
        BY <1>5, <2>4, <3>1, <3>2, <3>3
      <3> HIDE DEF v
      <3>5. v \o <<>> = v
        BY <3>4
      <3> QED
        BY <3>4, <3>5
    <2>5. CASE i \in a .. n /\ i \in S
      BY <1>3, <2>5
    <2> QED
      BY <1>1, <1>10, <2>2, <2>3, <2>4, <2>5
  <1>9. Tiles(A, n, P, pre, w)
    <2>1. w \in [P -> A]
      BY <1>4
    <2> HIDE DEF w, pre, A
    <2> QED
      BY <1>3, <1>6, <1>7, <1>8, <2>1 DEF Tiles
  <1> HIDE DEF pre
  <1>11. /\ s \in Seq(P) /\ Range(s) = P
         /\ FlattenSeq([i \in DOMAIN s |-> w[s[i]]]) = pre[n]
    <2> HIDE DEF w
    <2> QED
      BY <1>1, <1>9, Tiling
  <1>12. Paragraphs(f, p) = s
    BY DEF Paragraphs, P, S
  <1>13. s \in Seq(Parts(f))
    <2>1. P \subseteq Parts(f)
      BY <1>4
    <2> HIDE DEF s
    <2> QED
      BY <1>11, <2>1
  <1>14. [i \in DOMAIN s |-> w[s[i]]] = [i \in DOMAIN s |-> WordsOf(f, s[i])]
    <2>1. \A i \in DOMAIN s : s[i] \in P
      BY <1>11 DEF Range
    <2> HIDE DEF s
    <2> QED
      BY <2>1
  <1> QED
    BY <1>6, <1>11, <1>12, <1>13, <1>14

\* An element more at the end of two sequences.
LEMMA ConcatAppend ==
    ASSUME NEW T, NEW x \in Seq(T), NEW v \in Seq(T), NEW e \in T
    PROVE  x \o Append(v, e) = (x \o v) \o <<e>>
  OBVIOUS

\* The groups of words of a text, one after the other, are the text.
LEMMA GroupsText ==
    ASSUME NEW words \in Texts
    PROVE  FlattenSeq(WordGroups(words)) = words
  <1> DEFINE n == Len(words)
             A == Seq(Occurrence)
  <1>1. PICK g \in [0 .. n -> Packing] :
              /\ g[0] = [done |-> << >>, words |-> << >>, len |-> 0]
              /\ \A i \in 0 .. n : Open(g[i])
              /\ \A i \in 1 .. n : g[i] = PackWord(g[i - 1], words[i])
              /\ PackedWords(words) = g[n]
    BY PackedRun
  <1>2. n \in Nat /\ n = Len(words) /\ words \in A /\ \A i \in 1 .. n : words[i] \in Occurrence
    BY DEF Texts
  <1> HIDE DEF n
  <1>3. ASSUME NEW i \in 0 .. n
        PROVE  g[i].done \in Seq(A) /\ g[i].words \in A /\ FlattenSeq(g[i].done) \in A
    <2>1. g[i] \in Packing
      OBVIOUS
    <2>2. g[i].done \in Seq(Groups) /\ g[i].words \in A
      BY <2>1 DEF Packing
    <2>3. Groups \subseteq A
      BY DEF Groups, Texts
    <2>4. g[i].done \in Seq(A)
      <3> HIDE DEF A
      <3> QED
        BY <2>2, <2>3
    <2> QED
      BY <2>2, <2>4, FlattenElements
  <1> DEFINE pre(i) == SubSeq(words, 1, i)
             Same == {i \in 0 .. n : FlattenSeq(g[i].done) \o g[i].words = pre(i)}
  <1>4. pre(0) = <<>> /\ pre(n) = words
    BY <1>2, WholePrefix
  <1>5. ASSUME NEW i \in 1 .. n
        PROVE  pre(i) = pre(i - 1) \o <<words[i]>> /\ pre(i - 1) \in A
    <2>1. i \in 1 .. Len(words) + 1 /\ i \in i - 1 .. Len(words)
          /\ 1 \in 1 .. Len(words) + 1 /\ i - 1 \in 1 - 1 .. Len(words)
      BY <1>2
    <2>2. pre(i) = pre(i - 1) \o SubSeq(words, i, i)
      BY <1>2, <2>1, PrefixGrows
    <2>3. SubSeq(words, i, i) = <<words[i]>>
      <3> DEFINE s == SubSeq(words, i, i)
      <3>1. s \in Seq(Occurrence) /\ Len(s) = i - i + 1 /\ \A j \in 1 .. i - i + 1 : s[j] = words[i + j - 1]
        BY <1>2, <2>1, SubSeqFacts
      <3>2. i - i + 1 = 1 /\ i + 1 - 1 = i /\ 1 \in 1 .. 1
        OBVIOUS
      <3> HIDE DEF s
      <3>3. Len(s) = 1 /\ s[1] = words[i]
        BY <3>1, <3>2
      <3>4. s = <<words[i]>>
        BY <3>1, <3>3
      <3> QED
        BY <3>4 DEF s
    <2>4. pre(i - 1) \in A
      BY <1>2, <2>1, PrefixGrows
    <2> QED
      BY <2>2, <2>3, <2>4
  <1> HIDE DEF pre
  <1>6. 0 \in Same
    <2>1. 0 \in 0 .. n /\ g[0].done = <<>> /\ g[0].words = <<>>
      BY <1>1, <1>2
    <2>2. <<>> \o <<>> = <<>>
      OBVIOUS
    <2> QED
      BY <1>4, <2>1, <2>2, FlattenEmpty
  <1>7. ASSUME NEW i \in 1 .. n, i - 1 \in Same
        PROVE  i \in Same
    <2> DEFINE acc == g[i - 1]
               w == words[i]
               d == FlattenSeq(acc.done)
               v == acc.words
               p == pre(i - 1)
    <2>1. i \in 0 .. n /\ i - 1 \in 0 .. n
      BY <1>2
    <2>2. acc \in Packing /\ acc.done \in Seq(A) /\ v \in A /\ d \in A /\ d \o v = p
          /\ w \in Occurrence /\ g[i] = PackWord(acc, w)
      BY <1>1, <1>2, <1>3, <1>7, <2>1
    <2>5. d \in Seq(Occurrence) /\ v \in Seq(Occurrence) /\ w \in Occurrence
      BY <2>2
    <2> HIDE DEF Same
    <2>3. FlattenSeq(g[i].done) \o g[i].words = p \o <<w>>
      <3> HIDE DEF p, w, acc
      <3>1. CASE acc.len + w.len + 1 > TargetSize /\ acc.words # << >>
        <4>1. g[i].done = Append(acc.done, v) /\ g[i].words = <<w>>
          BY <2>2, <3>1 DEF PackWord
        <4>2. FlattenSeq(Append(acc.done, v)) = d \o v
          BY <2>2, FlattenAppend
        <4> QED
          BY <2>2, <4>1, <4>2
      <3>2. CASE ~ (acc.len + w.len + 1 > TargetSize /\ acc.words # << >>)
        <4>1. g[i].done = acc.done /\ g[i].words = Append(v, w)
          BY <2>2, <3>2 DEF PackWord, Packing
        <4> HIDE DEF d, v
        <4>2. d \o Append(v, w) = (d \o v) \o <<w>>
          BY <2>5, ConcatAppend
        <4> QED
          BY <2>2, <4>1, <4>2 DEF d
      <3> QED
        BY <3>1, <3>2
    <2>4. pre(i) = p \o <<w>>
      BY <1>5
    <2> HIDE DEF p, w
    <2> QED
      BY <2>1, <2>3, <2>4 DEF Same
  <1>8. n \in Same
    <2>1. n \in 0 .. n
      BY <1>2
    <2> HIDE DEF Same
    <2> QED
      BY <1>2, <1>6, <1>7, <2>1, IntervalInduction
  <1>9. n \in 0 .. n
    BY <1>2
  <1>10. FlattenSeq(Append(g[n].done, g[n].words)) = FlattenSeq(g[n].done) \o g[n].words
    <2>1. g[n].done \in Seq(Seq(Occurrence)) /\ g[n].words \in Seq(Occurrence)
      BY <1>3, <1>9
    <2> HIDE DEF n
    <2> QED
      BY ONLY <2>1, FlattenAppend
  <1>11. WordGroups(words) = Append(g[n].done, g[n].words)
    BY <1>1 DEF WordGroups
  <1> QED
    BY <1>4, <1>8, <1>10, <1>11

\* The units of a sentence, one after the other, have its words.
LEMMA SentenceUnitsText ==
    ASSUME NEW words \in Texts
    PROVE  TextOf(SentenceUnits(words)) = words
  <1>1. words \in Seq(Occurrence)
    BY DEF Texts
  <1>2. CASE TextLen(words) <= TargetSize
    <2> DEFINE u == Unit(words, TRUE)
    <2>1. SentenceUnits(words) = <<u>>
      BY <1>2 DEF SentenceUnits
    <2>2. u \in Pieces /\ u.words = words
      BY DEF Unit, Pieces
    <2> HIDE DEF u
    <2>5. <<u>> = Append(<<>>, u)
      OBVIOUS
    <2>3. <<>> \in Seq(Pieces) /\ <<>> \o words = words
      BY <1>1
    <2>4. TextOf(Append(<<>>, u)) = TextOf(<<>>) \o u.words /\ TextOf(<<>>) = <<>>
      BY <2>2, <2>3, TextOfFacts
    <2> QED
      BY <2>1, <2>2, <2>3, <2>4, <2>5
  <1>3. CASE ~ (TextLen(words) <= TargetSize)
    <2> DEFINE groups == WordGroups(words)
               us == SentenceUnits(words)
    <2>1. us = [i \in DOMAIN groups |-> Unit(groups[i], FALSE)]
      BY <1>3 DEF SentenceUnits
    <2>2. groups \in Seq(Groups) /\ FlattenSeq(groups) = words
      BY GroupsFacts, GroupsText
    <2> HIDE DEF groups, us
    <2>3. [i \in DOMAIN us |-> us[i].words] = [i \in DOMAIN groups |-> groups[i]]
      BY <2>1 DEF Unit
    <2>4. [i \in DOMAIN groups |-> groups[i]] = groups
      BY <2>2
    <2>5. TextOf(us) = words
      BY <2>2, <2>3, <2>4 DEF TextOf
    <2> QED
      BY <2>5 DEF us
  <1> QED
    BY <1>2, <1>3

\* The units of a paragraph, one after the other, have its words.
LEMMA ParagraphUnitsText ==
    ASSUME NEW words \in Texts
    PROVE  TextOf(ParagraphUnits(words)) = words
  <1>1. CASE TextLen(words) <= TargetSize
    <2>1. ParagraphUnits(words) = SentenceUnits(words)
      BY <1>1 DEF ParagraphUnits, SentenceUnits
    <2> QED
      BY <2>1, SentenceUnitsText
  <1>2. CASE ~ (TextLen(words) <= TargetSize)
    <2> DEFINE ss == Sentences(words)
               us == [i \in DOMAIN ss |-> SentenceUnits(ss[i])]
               m == Len(ss)
    <2>1. ParagraphUnits(words) = FlattenSeq(us)
      BY <1>2 DEF ParagraphUnits
    <2>2. ss \in Seq(Texts) /\ FlattenSeq(ss) = words
      BY SentencesFacts, SentencesText
    <2> HIDE DEF ss
    <2>3. m \in Nat /\ DOMAIN ss = 1 .. m /\ \A i \in 1 .. m : ss[i] \in Texts
      BY <2>2
    <2>4. \A i \in 1 .. m : SentenceUnits(ss[i]) \in Seq(Pieces) /\ TextOf(SentenceUnits(ss[i])) = ss[i]
      <3>1. Seq(Units) \subseteq Seq(Pieces)
        BY UnitsArePieces
      <3> QED
        BY <2>3, <3>1, SentenceUnitsFacts, SentenceUnitsText
    <2> HIDE DEF m
    <2>5. us \in Seq(Seq(Pieces)) /\ DOMAIN us = 1 .. m
      <3> DEFINE A == Seq(Pieces)
      <3>1. us \in [1 .. m -> A]
        BY <2>3, <2>4
      <3> HIDE DEF us, A
      <3>2. us \in Seq(A) /\ DOMAIN us = 1 .. m
        BY <2>3, <3>1
      <3> QED
        BY <3>2 DEF A
    <2>6. [i \in DOMAIN us |-> TextOf(us[i])] = ss
      <3>1. [i \in DOMAIN us |-> TextOf(us[i])] = [i \in 1 .. m |-> ss[i]]
        BY <2>3, <2>4, <2>5
      <3> QED
        BY <2>2, <2>3, <3>1
    <2> HIDE DEF us
    <2>7. TextOf(FlattenSeq(us)) = words
      BY <2>2, <2>5, <2>6, FlattenedText
    <2> QED
      BY <2>1, <2>7
  <1> QED
    BY <1>1, <1>2

\* The units of a section, one after the other, are its words in their order, each once:
\* paragraphs, sentences and groups of words are cut without loss, repetition or overlap.
THEOREM UnitsText ==
    ASSUME NEW f, IsFile(f), NEW p \in Parts(f)
    PROVE  TextOf(UnitsOf(f, p)) = WordsOf(f, p)
  <1> DEFINE s == Paragraphs(f, p)
             us == [i \in DOMAIN s |-> ParagraphUnits(WordsOf(f, s[i]))]
             ws == [i \in DOMAIN s |-> WordsOf(f, s[i])]
             m == Len(s)
  <1>1. s \in Seq(Parts(f)) /\ FlattenSeq(ws) = WordsOf(f, p)
    BY ParagraphsText DEF Parts
  <1>2. UnitsOf(f, p) = FlattenSeq(us)
    BY DEF UnitsOf
  <1> HIDE DEF s
  <1>3. m \in Nat /\ DOMAIN s = 1 .. m /\ \A i \in 1 .. m : s[i] \in Parts(f)
    BY <1>1
  <1>4. \A q \in Parts(f) : WordsOf(f, q) \in Texts
    BY WordsOfFacts DEF Parts
  <1>5. \A i \in 1 .. m :
           /\ ParagraphUnits(WordsOf(f, s[i])) \in Seq(Pieces)
           /\ TextOf(ParagraphUnits(WordsOf(f, s[i]))) = WordsOf(f, s[i])
    <2>1. Seq(Units) \subseteq Seq(Pieces)
      BY UnitsArePieces
    <2> QED
      BY <1>3, <1>4, <2>1, ParagraphUnitsFacts, ParagraphUnitsText
  <1> HIDE DEF m
  <1>6. us \in Seq(Seq(Pieces)) /\ DOMAIN us = 1 .. m
    <2> DEFINE A == Seq(Pieces)
    <2>1. us \in [1 .. m -> A]
      BY <1>3, <1>5
    <2> HIDE DEF us, A
    <2>2. us \in Seq(A) /\ DOMAIN us = 1 .. m
      BY <1>3, <2>1
    <2> QED
      BY <2>2 DEF A
  <1>7. [i \in DOMAIN us |-> TextOf(us[i])] = ws
    BY <1>3, <1>5, <1>6
  <1> HIDE DEF us, ws
  <1> QED
    BY <1>1, <1>2, <1>6, <1>7, FlattenedText

-----------------------------------------------------------------------------
(* Packing goes on with the next word. *)

\* w is the element after v.
IsNext(t, v, w) == \E i \in 2 .. Len(t) : t[i - 1] = v /\ t[i] = w

\* What follows in a sequence follows in a longer one, and where two sequences meet the
\* first of one follows the last of the other.
LEMMA NextInConcat ==
    ASSUME NEW T, NEW s \in Seq(T), NEW t \in Seq(T)
    PROVE  /\ \A v, w : IsNext(s, v, w) => IsNext(s \o t, v, w)
           /\ s # <<>> /\ t # <<>> => IsNext(s \o t, Last(s), Head(t))
           /\ t # <<>> => s \o t # <<>> /\ Last(s \o t) = Last(t)
  <1> DEFINE u == s \o t
             m == Len(s)
             n == Len(t)
  <1>1. m \in Nat /\ n \in Nat /\ (s # <<>> => m > 0) /\ (t # <<>> => n > 0)
        /\ Head(t) = t[1] /\ Last(s) = s[m] /\ Last(t) = t[n]
    BY DEF Last
  <1>2. /\ u \in Seq(T) /\ Len(u) = m + n
        /\ \A i \in 1 .. m : u[i] = s[i]
        /\ \A i \in 1 .. n : u[m + i] = t[i]
    BY ConcatFacts
  <1>3. Last(u) = u[m + n]
    BY <1>2 DEF Last
  <1> HIDE DEF m, n, u
  <1>4. ASSUME NEW v, NEW w, IsNext(s, v, w)
        PROVE  IsNext(u, v, w)
    <2>1. PICK i \in 2 .. m : s[i - 1] = v /\ s[i] = w
      BY <1>4 DEF IsNext, m
    <2>2. i \in 2 .. m + n /\ i \in 1 .. m /\ i - 1 \in 1 .. m
      BY <1>1
    <2>3. u[i - 1] = v /\ u[i] = w
      BY <1>2, <2>1, <2>2
    <2> QED
      BY <1>2, <2>2, <2>3 DEF IsNext
  <1>5. ASSUME s # <<>>, t # <<>>
        PROVE  IsNext(u, Last(s), Head(t))
    <2> DEFINE i == m + 1
    <2>1. i \in 2 .. m + n /\ i - 1 = m /\ m \in 1 .. m /\ 1 \in 1 .. n
      BY <1>1, <1>5
    <2>2. u[m] = s[m] /\ u[i] = t[1]
      BY <1>2, <2>1
    <2> HIDE DEF i
    <2>3. u[i - 1] = Last(s) /\ u[i] = Head(t)
      BY <1>1, <2>1, <2>2
    <2> QED
      BY <1>2, <2>1, <2>3 DEF IsNext
  <1>6. ASSUME t # <<>>
        PROVE  u # <<>> /\ Last(u) = Last(t)
    <2>1. n \in 1 .. n /\ m + n > 0
      BY <1>1, <1>6
    <2>2. u[m + n] = t[n]
      BY <1>2, <2>1
    <2>3. u # <<>>
      BY <1>2, <2>1
    <2> QED
      BY <1>1, <1>3, <2>2, <2>3
  <1> QED
    BY <1>4, <1>5, <1>6 DEF u

\* In the text of pieces the first word of a piece is the next after the last word of the
\* piece before.
LEMMA NextPiece ==
    ASSUME NEW ps \in Seq(Pieces)
    PROVE  \A i \in 1 .. Len(ps) - 1 :
              IsNext(TextOf(ps), Last(ps[i].words), Head(ps[i + 1].words))
  <1> DEFINE Linked(qs) ==
                 \A i \in 1 .. Len(qs) - 1 :
                    IsNext(TextOf(qs), Last(qs[i].words), Head(qs[i + 1].words))
             Ends(qs) ==
                 Len(qs) > 0 => TextOf(qs) # <<>> /\ Last(TextOf(qs)) = Last(qs[Len(qs)].words)
             Good == {qs \in Seq(Pieces) : Linked(qs) /\ Ends(qs)}
  <1>1. <<>> \in Good
    <2>1. <<>> \in Seq(Pieces) /\ Len(<<>>) = 0 /\ 1 .. 0 - 1 = {}
      OBVIOUS
    <2> QED
      BY <2>1
  <1>2. ASSUME NEW qs \in Seq(Pieces), NEW p \in Pieces, qs \in Good
        PROVE  Append(qs, p) \in Good
    <2> DEFINE rs == Append(qs, p)
               n == Len(qs)
               t == TextOf(qs)
               w == p.words
    <2>1. n \in Nat /\ rs \in Seq(Pieces) /\ Len(rs) = n + 1 /\ rs[n + 1] = p
          /\ \A i \in 1 .. n : rs[i] = qs[i]
      OBVIOUS
    <2>2. TextOf(rs) = t \o w /\ t \in Seq(Occurrence)
      BY TextOfFacts
    <2>3. w \in Seq(Occurrence) /\ w # <<>>
      BY DEF Pieces, Texts
    <2>4. Linked(qs) /\ Ends(qs)
      BY <1>2
    <2>5. Len(qs) = n
      OBVIOUS
    <2> HIDE DEF rs, n, t
    <2>6. Ends(rs)
      BY <2>1, <2>2, <2>3, NextInConcat
    <2>7. ASSUME NEW i \in 1 .. n
          PROVE  IsNext(t \o w, Last(rs[i].words), Head(rs[i + 1].words))
      <3>1. rs[i] = qs[i]
        BY <2>1
      <3>2. CASE i = n
        <4>1. rs[i + 1] = p /\ n > 0
          BY <2>1, <3>2
        <4>2. t # <<>> /\ Last(t) = Last(qs[n].words)
          BY <2>4, <2>5, <4>1 DEF t
        <4>3. IsNext(t \o w, Last(t), Head(w))
          BY <2>2, <2>3, <4>2, NextInConcat
        <4> QED
          BY <3>1, <3>2, <4>1, <4>2, <4>3
      <3>3. CASE i # n
        <4>1. i \in 1 .. n - 1 /\ i + 1 \in 1 .. n
          BY <2>1, <3>3
        <4>2. IsNext(t, Last(qs[i].words), Head(qs[i + 1].words)) /\ rs[i + 1] = qs[i + 1]
          BY <2>1, <2>4, <2>5, <4>1 DEF t
        <4> DEFINE v == Last(qs[i].words)
                   x == Head(qs[i + 1].words)
        <4>3. IsNext(t, v, x)
          BY <4>2
        <4> HIDE DEF v, x
        <4>4. IsNext(t \o w, v, x)
          BY <2>2, <2>3, <4>3, NextInConcat
        <4> QED
          BY <3>1, <4>2, <4>4 DEF v, x
      <3> QED
        BY <3>2, <3>3
    <2>8. Linked(rs)
      <3>1. Len(rs) - 1 = n
        BY <2>1
      <3> QED
        BY <2>2, <2>7, <3>1
    <2> HIDE DEF Linked, Ends
    <2> QED
      BY <2>1, <2>6, <2>8 DEF rs
  <1>3. \A qs \in Seq(Pieces) : qs \in Good
    <2> HIDE DEF Good
    <2> QED
      BY <1>1, <1>2, AppendInduction
  <1> QED
    BY <1>3

\* In the text of a part w is the word after v.
FollowsIn(f, part, v, w) == IsNext(WordsOf(f, part), v, w)

\* Pieces repeat the end of other pieces and go on with the next word.
ContinuesIn(f, part, before, after) ==
    \E k \in 0 .. Len(after) - 1 :
       /\ k <= Len(before)
       /\ SubSeq(after, 1, k) = SubSeq(before, Len(before) - k + 1, Len(before))
       /\ SumLen(SubSeq(after, 1, k)) <= Overlap
       /\ FollowsIn(f, part, LastWord(before), Head(after[k + 1].words))

\* Each chunk of a section continues the one before it.
Advances(f, cs) ==
    \A i \in DOMAIN cs \ {1} :
       cs[i].kind = "section" /\ cs[i - 1].part = cs[i].part =>
           ContinuesIn(f, cs[i].part, cs[i - 1].pieces, cs[i].pieces)

\* Each piece goes on with the word after the piece before it.
Chained(f, part, ps) ==
    \A i \in 1 .. Len(ps) - 1 :
       FollowsIn(f, part, Last(ps[i].words), Head(ps[i + 1].words))

\* While sections are chunked, each chunk of a section continues the one before it, the
\* pieces at hand continue the last chunk if it is of their section, and they and the units
\* to come follow each other in the section, of which no other part is still to come.
AdvanceInv ==
    /\ Advances(file, chunks)
    /\ Ascending(sections)
    /\ pc \in {"sections", "pack"} =>
          /\ \A c \in Range(chunks) : c.kind = "section"
          /\ chunks # <<>> => Last(chunks).part \notin Range(SectionsToCome)
    /\ pc = "pack" =>
          /\ Chained(file, Head(sections), pieces \o units)
          /\ InThisPart(Head(sections)) =>
                ContinuesIn(file, Head(sections), Last(chunks).pieces, pieces)

\* More pieces at the end change nothing about how pieces continue others.
LEMMA ContinuesMore ==
    ASSUME NEW f, NEW part, NEW before \in Seq(Pieces), NEW after \in Seq(Pieces),
           NEW more \in Seq(Pieces), ContinuesIn(f, part, before, after)
    PROVE  ContinuesIn(f, part, before, after \o more)
  <1> DEFINE n == Len(after)
             all == after \o more
  <1>1. PICK k \in 0 .. n - 1 :
           /\ k <= Len(before)
           /\ SubSeq(after, 1, k) = SubSeq(before, Len(before) - k + 1, Len(before))
           /\ SumLen(SubSeq(after, 1, k)) <= Overlap
           /\ FollowsIn(f, part, LastWord(before), Head(after[k + 1].words))
    BY DEF ContinuesIn
  <1>2. n \in Nat /\ Len(more) \in Nat /\ k \in Nat /\ k + 1 \in 1 .. n
    OBVIOUS
  <1>3. /\ all \in Seq(Pieces) /\ Len(all) = n + Len(more)
        /\ \A i \in 1 .. n : all[i] = after[i]
    BY ConcatFacts
  <1> HIDE DEF all
  <1>4. all[k + 1] = after[k + 1] /\ k \in 0 .. Len(all) - 1
    BY <1>2, <1>3
  <1>5. SubSeq(all, 1, k) = SubSeq(after, 1, k)
    <2> DEFINE x == SubSeq(all, 1, k)
               y == SubSeq(after, 1, k)
    <2>1. 1 \in 1 .. Len(all) + 1 /\ 1 \in 1 .. Len(after) + 1 /\ k - 1 + 1 = k
          /\ k \in 1 - 1 .. Len(all) /\ k \in 1 - 1 .. Len(after)
      BY <1>2, <1>3
    <2>2. x \in Seq(Pieces) /\ Len(x) = k - 1 + 1 /\ \A i \in 1 .. k - 1 + 1 : x[i] = all[1 + i - 1]
      BY <1>3, <2>1, SubSeqFacts
    <2>3. y \in Seq(Pieces) /\ Len(y) = k - 1 + 1 /\ \A i \in 1 .. k - 1 + 1 : y[i] = after[1 + i - 1]
      BY <2>1, SubSeqFacts
    <2>4. \A i \in 1 .. k : i \in 1 .. n /\ 1 + i - 1 = i
      BY <1>2
    <2> HIDE DEF x, y
    <2>5. Len(x) = Len(y) /\ \A i \in 1 .. Len(x) : x[i] = y[i]
      BY <1>3, <2>1, <2>2, <2>3, <2>4
    <2>6. x = y
      BY <2>2, <2>3, <2>5, SeqEqual
    <2> QED
      BY <2>6 DEF x, y
  <1> QED
    BY <1>1, <1>4, <1>5 DEF ContinuesIn, all

\* The pieces after a full chunk continue it.
LEMMA ContinuesFull ==
    ASSUME NEW f, NEW part, NEW ps \in Seq(Pieces), NEW u \in Pieces,
           FollowsIn(f, part, LastWord(ps), Head(u.words))
    PROVE  ContinuesIn(f, part, ps, Append(OverlapPieces(ps), u))
  <1> DEFINE o == OverlapPieces(ps)
             n == Len(ps)
             k == Len(o)
             after == Append(o, u)
  <1>0. Pieces \in SUBSET Pieces /\ Overlap \in Nat
    BY ChunkerAssumption
  <1>1. PICK a \in 1 .. n + 1 : o = SubSeq(ps, a, n) /\ o \in Seq(Pieces) /\ SumLen(o) <= Overlap
    BY <1>0, OverlapFacts
  <1>2. n \in Nat /\ k \in Nat /\ Len(after) = k + 1 /\ after[k + 1] = u
        /\ after \in Seq(Pieces) /\ \A i \in 1 .. k : after[i] = o[i]
    <2>1. o \in Seq(Pieces)
      BY <1>1
    <2> HIDE DEF o
    <2> QED
      BY <2>1
  <1>3. k = n - a + 1
    <2>1. a \in 1 .. Len(ps) + 1 /\ n \in a - 1 .. Len(ps)
      BY <1>2
    <2>2. Len(SubSeq(ps, a, n)) = n - a + 1
      BY <2>1, SubSeqFacts
    <2> QED
      BY <1>1, <2>2
  <1> HIDE DEF o, after
  <1>4. SubSeq(after, 1, k) = o
    <2> DEFINE x == SubSeq(after, 1, k)
    <2>1. 1 \in 1 .. Len(after) + 1 /\ k - 1 + 1 = k /\ k \in 1 - 1 .. Len(after)
      BY <1>2
    <2>2. x \in Seq(Pieces) /\ Len(x) = k - 1 + 1 /\ \A i \in 1 .. k - 1 + 1 : x[i] = after[1 + i - 1]
      BY <1>2, <2>1, SubSeqFacts
    <2>3. \A i \in 1 .. k : 1 + i - 1 = i
      BY <1>2
    <2> HIDE DEF x
    <2>4. Len(x) = Len(o) /\ \A i \in 1 .. Len(x) : x[i] = o[i]
      BY <1>2, <2>1, <2>2, <2>3
    <2>5. x = o
      BY <1>1, <2>2, <2>4, SeqEqual
    <2> QED
      BY <2>5 DEF x
  <1> HIDE DEF n, k
  <1>5. n - k + 1 = a /\ k <= n /\ k \in 0 .. Len(after) - 1
    BY <1>1, <1>2, <1>3
  <1>6. /\ k <= Len(ps)
        /\ SubSeq(after, 1, k) = SubSeq(ps, Len(ps) - k + 1, Len(ps))
        /\ SumLen(SubSeq(after, 1, k)) <= Overlap
        /\ FollowsIn(f, part, LastWord(ps), Head(after[k + 1].words))
    <2>1. SubSeq(ps, Len(ps) - k + 1, Len(ps)) = o
      BY <1>1, <1>5 DEF n
    <2>2. k <= Len(ps)
      BY <1>5 DEF n
    <2> QED
      BY <1>1, <1>2, <1>4, <2>1, <2>2
  <1> QED
    BY <1>5, <1>6 DEF ContinuesIn, after, o

\* Pieces at the end of chained pieces are chained.
LEMMA ChainedEnd ==
    ASSUME NEW f, NEW part, NEW ps \in Seq(Pieces), NEW qs \in Seq(Pieces), NEW d \in Nat,
           Len(qs) + d = Len(ps), \A i \in 1 .. Len(qs) : qs[i] = ps[i + d],
           Chained(f, part, ps)
    PROVE  Chained(f, part, qs)
  <1> SUFFICES ASSUME NEW i \in 1 .. Len(qs) - 1
               PROVE  FollowsIn(f, part, Last(qs[i].words), Head(qs[i + 1].words))
    BY DEF Chained
  <1> DEFINE m == Len(qs)
             n == Len(ps)
  <1>1. m \in Nat /\ n \in Nat /\ m + d = n /\ i \in 1 .. m - 1
    OBVIOUS
  <1>2. \A j \in 1 .. m : qs[j] = ps[j + d]
    OBVIOUS
  <1>3. \A j \in 1 .. n - 1 : FollowsIn(f, part, Last(ps[j].words), Head(ps[j + 1].words))
    BY DEF Chained
  <1> HIDE DEF m, n
  <1>4. i \in 1 .. m /\ i + 1 \in 1 .. m /\ i + d \in 1 .. n - 1 /\ i + 1 + d = i + d + 1
    BY <1>1
  <1>5. qs[i] = ps[i + d] /\ qs[i + 1] = ps[i + d + 1]
    BY <1>2, <1>4, SMTT(30)
  <1> QED
    BY <1>3, <1>4, <1>5

\* The first of some elements moves to the end of those before them.
LEMMA HeadMoved ==
    ASSUME NEW T, NEW s \in Seq(T), NEW t \in Seq(T), t # <<>>
    PROVE  Append(s, Head(t)) \o Tail(t) = s \o t
  OBVIOUS

\* A new chunk goes on from the last one if they are of the same section.
LEMMA AdvancesAppend ==
    ASSUME NEW f, NEW T, NEW cs \in Seq(T), NEW c, Advances(f, cs),
           cs # <<>> /\ c.kind = "section" /\ Last(cs).part = c.part =>
               ContinuesIn(f, c.part, Last(cs).pieces, c.pieces)
    PROVE  Advances(f, Append(cs, c))
  <1> DEFINE n == Len(cs)
             ds == Append(cs, c)
  <1>1. n \in Nat /\ DOMAIN cs = 1 .. n /\ DOMAIN ds = 1 .. n + 1 /\ ds[n + 1] = c
        /\ (\A i \in 1 .. n : ds[i] = cs[i]) /\ Last(cs) = cs[n] /\ (n > 0 => cs # <<>>)
    BY DEF Last
  <1>2. \A i \in 1 .. n \ {1} :
           cs[i].kind = "section" /\ cs[i - 1].part = cs[i].part =>
               ContinuesIn(f, cs[i].part, cs[i - 1].pieces, cs[i].pieces)
    BY <1>1 DEF Advances
  <1> SUFFICES ASSUME NEW i \in DOMAIN ds \ {1}, ds[i].kind = "section",
                      ds[i - 1].part = ds[i].part
               PROVE  ContinuesIn(f, ds[i].part, ds[i - 1].pieces, ds[i].pieces)
    BY DEF Advances
  <1> HIDE DEF n, ds
  <1>3. i \in 1 .. n + 1 /\ i # 1 /\ i - 1 \in 1 .. n /\ ds[i - 1] = cs[i - 1]
    BY <1>1
  <1>4. CASE i = n + 1
    <2>1. ds[i] = c /\ ds[i - 1] = Last(cs) /\ cs # <<>>
      BY <1>1, <1>3, <1>4
    <2> QED
      BY <2>1
  <1>5. CASE i # n + 1
    <2>1. i \in 1 .. n \ {1} /\ ds[i] = cs[i]
      BY <1>1, <1>3, <1>5
    <2> QED
      BY <1>2, <1>3, <2>1
  <1> QED
    BY <1>4, <1>5

\* Merging the last pieces into the last chunk changes nothing about how it goes on.
LEMMA AdvancesMerge ==
    ASSUME NEW f, NEW cs \in Seq(ChunksOf(f)), cs # <<>>, NEW ps \in Seq(Pieces), NEW c,
           Last(cs).kind = "section", c.part = Last(cs).part,
           c.pieces = Last(cs).pieces \o ps, Advances(f, cs)
    PROVE  Advances(f, Append(Front(cs), c))
  <1> DEFINE n == Len(cs)
             ds == Front(cs)
  <1>1. /\ n \in Nat /\ n > 0 /\ DOMAIN cs = 1 .. n /\ Last(cs) = cs[n]
        /\ ds \in Seq(ChunksOf(f)) /\ Len(ds) = n - 1 /\ DOMAIN ds = 1 .. n - 1
        /\ \A i \in 1 .. n - 1 : ds[i] = cs[i]
    <2>1. n \in Nat /\ n > 0 /\ DOMAIN cs = 1 .. n /\ Last(cs) = cs[n]
      BY DEF Last
    <2>2. ds \in Seq(ChunksOf(f)) /\ Len(ds) = n - 1 /\ \A i \in 1 .. n - 1 : ds[i] = cs[i]
      <3>1. 1 \in 1 .. Len(cs) + 1 /\ n - 1 \in 1 - 1 .. Len(cs) /\ n - 1 - 1 + 1 = n - 1
        BY <2>1
      <3>2. ds = SubSeq(cs, 1, n - 1)
        BY DEF Front
      <3> HIDE DEF ds
      <3> DEFINE e == n - 1
      <3>3. e \in 1 - 1 .. Len(cs) /\ e - 1 + 1 = e
        BY <3>1
      <3> HIDE DEF e
      <3>4. SubSeq(cs, 1, e) \in Seq(ChunksOf(f)) /\ Len(SubSeq(cs, 1, e)) = e - 1 + 1
            /\ \A i \in 1 .. e - 1 + 1 : SubSeq(cs, 1, e)[i] = cs[1 + i - 1]
        BY <3>1, <3>3, SubSeqFacts
      <3>5. \A i \in 1 .. e : 1 + i - 1 = i
        OBVIOUS
      <3>6. ds \in Seq(ChunksOf(f)) /\ Len(ds) = e /\ \A i \in 1 .. e : ds[i] = cs[i]
        BY <3>2, <3>3, <3>4, <3>5 DEF e
      <3> QED
        BY <3>6 DEF e
    <2> HIDE DEF ds, n
    <2> QED
      BY <2>1, <2>2
  <1>2. \A i \in 1 .. n \ {1} :
           cs[i].kind = "section" /\ cs[i - 1].part = cs[i].part =>
               ContinuesIn(f, cs[i].part, cs[i - 1].pieces, cs[i].pieces)
    BY <1>1 DEF Advances
  <1> HIDE DEF n, ds
  <1>3. Advances(f, ds)
    <2> SUFFICES ASSUME NEW i \in DOMAIN ds \ {1}, ds[i].kind = "section",
                        ds[i - 1].part = ds[i].part
                 PROVE  ContinuesIn(f, ds[i].part, ds[i - 1].pieces, ds[i].pieces)
      BY DEF Advances
    <2>1. i \in 1 .. n \ {1} /\ i \in 1 .. n - 1 /\ i - 1 \in 1 .. n - 1
      BY <1>1
    <2> QED
      BY <1>1, <1>2, <2>1
  <1>4. ASSUME ds # <<>>, Last(ds).part = c.part
        PROVE  ContinuesIn(f, c.part, Last(ds).pieces, c.pieces)
    <2>1. Last(ds) = ds[n - 1] /\ n - 1 \in 1 .. n - 1 /\ n \in 1 .. n \ {1}
      BY <1>1, <1>4 DEF Last
    <2>2. Last(ds) = cs[n - 1]
      BY <1>1, <2>1
    <2> DEFINE b == cs[n - 1].pieces
               a == cs[n].pieces
               p == cs[n].part
    <2>3. ContinuesIn(f, p, b, a)
      BY <1>1, <1>2, <1>4, <2>1, <2>2
    <2>4. b \in Seq(Pieces) /\ a \in Seq(Pieces)
      <3>1. cs[n] \in ChunksOf(f) /\ cs[n - 1] \in ChunksOf(f)
        <4>1. n \in 1 .. n /\ n - 1 \in 1 .. n
          BY <1>1, <2>1
        <4> QED
          BY <1>1, <4>1
      <3> QED
        BY <3>1 DEF ChunksOf
    <2> HIDE DEF a, b, p
    <2>5. ContinuesIn(f, p, b, a \o ps)
      BY <2>3, <2>4, ContinuesMore
    <2> QED
      BY <1>1, <2>2, <2>5 DEF a, b, p
  <1> QED
    BY <1>1, <1>3, <1>4, AdvancesAppend DEF ds

\* Intervals in order stay in order without the first, which is not among the others.
LEMMA AscendingTail ==
    ASSUME NEW n \in Nat, NEW P \in SUBSET Intervals(n), NEW s \in Seq(P), s # <<>>, Ascending(s)
    PROVE  Ascending(Tail(s)) /\ Head(s) \notin Range(Tail(s))
  <1> DEFINE m == Len(s)
             t == Tail(s)
  <1>1. /\ m \in Nat /\ m > 0 /\ DOMAIN s = 1 .. m /\ Head(s) = s[1]
        /\ DOMAIN t = 1 .. m - 1 /\ \A i \in 1 .. m - 1 : t[i] = s[i + 1]
    OBVIOUS
  <1>2. \A i \in 1 .. m : s[i].first \in Int
    <2>1. \A i \in 1 .. m : s[i] \in Intervals(n)
      OBVIOUS
    <2>2. \A p \in Intervals(n) : p.first \in Int
      BY DEF Intervals
    <2> QED
      BY <2>1, <2>2
  <1>3. \A i, j \in 1 .. m : i < j => s[i].first < s[j].first
    BY <1>1 DEF Ascending
  <1> HIDE DEF m, t
  <1>4. ASSUME NEW i \in 1 .. m - 1, NEW j \in 1 .. m - 1, i < j
        PROVE  t[i].first < t[j].first
    <2>1. i + 1 \in 1 .. m /\ j + 1 \in 1 .. m /\ i + 1 < j + 1
      BY <1>1, <1>4
    <2> QED
      BY <1>1, <1>3, <2>1
  <1>5. ASSUME NEW i \in 1 .. m - 1
        PROVE  t[i] # s[1]
    <2>1. i + 1 \in 1 .. m /\ 1 \in 1 .. m /\ 1 < i + 1
      BY <1>1
    <2>2. s[1].first < s[i + 1].first /\ s[1].first \in Int
      BY <1>2, <1>3, <2>1
    <2>3. s[1] # s[i + 1]
      BY <2>2
    <2> QED
      BY <1>1, <2>3
  <1> QED
    BY <1>1, <1>4, <1>5 DEF Ascending, Range, t

\* The first chunk continues nothing.
LEMMA AdvanceInit == Init => AdvanceInv
  <1> SUFFICES ASSUME Init PROVE AdvanceInv
    OBVIOUS
  <1>1. IsFile(file)
    BY FileFacts DEF Init
  <1>2. Ascending(sections)
    BY <1>1, SectionsFacts DEF Init
  <1>3. chunks = <<>> /\ pc = "sections" /\ DOMAIN chunks = {} /\ Range(chunks) = {}
    BY DEF Init, Range
  <1>4. Advances(file, chunks)
    BY <1>3 DEF Advances
  <1> QED
    BY <1>2, <1>3, <1>4 DEF AdvanceInv

\* Every step goes on from the last chunk.
LEMMA AdvanceNext == TypeInv /\ AdvanceInv /\ [Next]_vars => AdvanceInv'
  <1> SUFFICES ASSUME TypeInv, AdvanceInv, [Next]_vars
               PROVE  AdvanceInv'
    OBVIOUS
  <1> USE DEF input
  <1>1. /\ IsFile(file) /\ sections \in Seq(Parts(file)) /\ chunks \in Seq(ChunksOf(file))
        /\ units \in Seq(Pieces) /\ pieces \in Seq(Pieces)
        /\ (pc = "pack" => sections # <<>> /\ (units # <<>> \/ pieces # <<>>))
    BY FileFacts DEF TypeInv
  <1>2. /\ Advances(file, chunks) /\ Ascending(sections)
        /\ pc \in {"sections", "pack"} =>
              /\ \A c \in Range(chunks) : c.kind = "section"
              /\ chunks # <<>> => Last(chunks).part \notin Range(SectionsToCome)
    BY DEF AdvanceInv
  <1>3. pc = "pack" =>
           /\ Chained(file, Head(sections), pieces \o units)
           /\ InThisPart(Head(sections)) =>
                 ContinuesIn(file, Head(sections), Last(chunks).pieces, pieces)
    BY DEF AdvanceInv
  <1>4. sections # <<>> =>
           /\ Ascending(Tail(sections)) /\ Head(sections) \notin Range(Tail(sections))
           /\ Head(sections) \in Parts(file) /\ Head(sections) \in Range(sections)
           /\ Range(Tail(sections)) \subseteq Range(sections)
    <2>1. Len(file) \in Nat /\ Parts(file) \in SUBSET Intervals(Len(file))
      BY <1>1 DEF IsFile, Parts
    <2>2. sections # <<>> => Head(sections) \in Parts(file)
            /\ Range(sections) = {Head(sections)} \cup Range(Tail(sections))
      BY <1>1, HeadAndTail
    <2> QED
      BY <1>1, <1>2, <2>1, <2>2, AscendingTail
  <1>5. chunks # <<>> => Last(chunks) \in Range(chunks) /\ Last(chunks) \in ChunksOf(file)
            /\ Front(chunks) \in Seq(ChunksOf(file))
            /\ Range(chunks) = Range(Front(chunks)) \cup {Last(chunks)}
    BY <1>1, HeadAndTail
  <1>6. ASSUME NEW cs \in Seq(ChunksOf(file)), NEW c
        PROVE  Range(Append(cs, c)) = Range(cs) \cup {c} /\ Append(cs, c) # <<>>
               /\ Last(Append(cs, c)) = c
    <2>1. Range(Append(cs, c)) = Range(cs) \cup {c}
      BY AppendRange
    <2> QED
      BY <2>1 DEF Last
  <1>7. CASE KeepSection
    <2> DEFINE c == [kind |-> "section", part |-> Head(sections),
                     pieces |-> <<Unit(WordsOf(file, Head(sections)), TRUE)>>,
                     size |-> PartLen(file, Head(sections))]
    <2>1. /\ pc = "sections" /\ sections # <<>> /\ chunks' = Append(chunks, c)
          /\ sections' = Tail(sections) /\ pc' = pc /\ file' = file
      BY <1>7 DEF KeepSection
    <2>2. c.kind = "section" /\ c.part = Head(sections)
      OBVIOUS
    <2> HIDE DEF c
    <2>3. ~ (chunks # <<>> /\ Last(chunks).part = c.part)
      BY <1>2, <1>4, <2>1, <2>2 DEF SectionsToCome
    <2>4. Advances(file, chunks')
      BY <1>1, <1>2, <2>1, <2>3, AdvancesAppend
    <2>5. \A d \in Range(chunks') : d.kind = "section"
      BY <1>1, <1>2, <1>6, <2>1, <2>2
    <2>6. Last(chunks').part \notin Range(SectionsToCome')
      BY <1>1, <1>4, <1>6, <2>1, <2>2 DEF SectionsToCome
    <2> QED
      BY <1>4, <2>1, <2>4, <2>5, <2>6 DEF AdvanceInv
  <1>8. CASE SplitSection
    <2>1. /\ pc = "sections" /\ sections # <<>> /\ pc' = "pack" /\ pieces' = <<>>
          /\ units' = UnitsOf(file, Head(sections))
          /\ UNCHANGED <<file, sections, chunks>>
      BY <1>8 DEF SplitSection
    <2>2. ~ InThisPart(Head(sections))'
      BY <1>2, <1>4, <2>1 DEF SectionsToCome, InThisPart
    <2>3. pieces' \o units' = UnitsOf(file, Head(sections))
      <3> DEFINE us == UnitsOf(file, Head(sections))
      <3>1. us \in Seq(Units)
        BY <1>1, <1>4, <2>1, UnitsFacts
      <3> HIDE DEF us
      <3>2. <<>> \o us = us
        BY <3>1
      <3> QED
        BY <2>1, <3>2 DEF us
    <2>4. Chained(file, Head(sections), UnitsOf(file, Head(sections)))
      <3> DEFINE us == UnitsOf(file, Head(sections))
      <3>1. us \in Seq(Pieces)
        <4>1. us \in Seq(Units)
          BY <1>1, <1>4, <2>1, UnitsFacts
        <4>2. Seq(Units) \subseteq Seq(Pieces)
          BY UnitsArePieces
        <4> QED
          BY <4>1, <4>2
      <3>2. TextOf(us) = WordsOf(file, Head(sections))
        BY <1>1, <1>4, <2>1, UnitsText
      <3> HIDE DEF us
      <3>3. \A i \in 1 .. Len(us) - 1 :
               IsNext(TextOf(us), Last(us[i].words), Head(us[i + 1].words))
        BY <3>1, NextPiece
      <3>4. Chained(file, Head(sections), us)
        BY <3>2, <3>3 DEF Chained, FollowsIn
      <3> QED
        BY <3>4 DEF us
    <2>5. SectionsToCome' = Tail(sections) /\ SectionsToCome = sections
      BY <2>1 DEF SectionsToCome
    <2> QED
      BY <1>2, <1>4, <2>1, <2>2, <2>3, <2>4, <2>5 DEF AdvanceInv
  <1>9. CASE AddUnit
    <2>1. /\ pc = "pack" /\ units # <<>> /\ pieces' = Append(pieces, Head(units))
          /\ units' = Tail(units) /\ UNCHANGED <<file, pc, sections, chunks>>
      BY <1>9 DEF AddUnit
    <2>2. pieces' \o units' = pieces \o units
      BY <1>1, <2>1, HeadMoved
    <2>3. ASSUME InThisPart(Head(sections))
          PROVE  ContinuesIn(file, Head(sections), Last(chunks).pieces, pieces')
      <3> DEFINE b == Last(chunks).pieces
                 h == Head(units)
                 p == Head(sections)
      <3>1. b \in Seq(Pieces) /\ h \in Pieces
        <4>1. Last(chunks) \in ChunksOf(file)
          BY <1>5, <2>3 DEF InThisPart
        <4>2. b \in Seq(Pieces)
          BY <4>1 DEF ChunksOf
        <4> QED
          BY <1>1, <2>1, <4>2, HeadAndTail
      <3>2. ContinuesIn(file, p, b, pieces)
        BY <1>3, <2>1, <2>3
      <3> HIDE DEF b, h, p
      <3>3. <<h>> \in Seq(Pieces) /\ pieces \o <<h>> = Append(pieces, h)
        BY <1>1, <3>1
      <3>4. ContinuesIn(file, p, b, pieces \o <<h>>)
        BY <1>1, <3>1, <3>2, <3>3, ContinuesMore
      <3> QED
        BY <2>1, <3>3, <3>4 DEF b, h, p
    <2>4. SectionsToCome' = SectionsToCome /\ InThisPart(Head(sections))' = InThisPart(Head(sections))
      BY <2>1 DEF SectionsToCome, InThisPart
    <2> QED
      BY <1>2, <1>3, <2>1, <2>2, <2>3, <2>4 DEF AdvanceInv
  <1>10. CASE CloseChunk
    <2> DEFINE p == Head(sections)
               h == Head(units)
               c == ChunkOf("section", p, pieces, 2)
               o == OverlapPieces(pieces)
    <2>1. /\ pc = "pack" /\ units # <<>> /\ pieces # <<>> /\ chunks' = Append(chunks, c)
          /\ pieces' = Append(o, h) /\ units' = Tail(units) /\ UNCHANGED <<file, pc, sections>>
      BY <1>10 DEF CloseChunk
    <2>2. c.kind = "section" /\ c.part = p /\ c.pieces = pieces
      BY DEF ChunkOf
    <2>3. h \in Pieces /\ Tail(units) \in Seq(Pieces)
      BY <1>1, <2>1, HeadAndTail
    <2>4. Pieces \in SUBSET Pieces /\ Overlap \in Nat
      BY ChunkerAssumption
    <2>5. PICK k \in 1 .. Len(pieces) + 1 : o = SubSeq(pieces, k, Len(pieces)) /\ o \in Seq(Pieces)
      BY <1>1, <2>4, OverlapFacts
    <2> HIDE DEF c, o
    <2>6. Advances(file, chunks')
      BY <1>1, <1>2, <1>3, <2>1, <2>2, AdvancesAppend DEF InThisPart
    <2>7. \A d \in Range(chunks') : d.kind = "section"
      BY <1>1, <1>2, <1>6, <2>1, <2>2
    <2>8. Last(chunks') = c
      BY <1>1, <1>6, <2>1
    <2>9. Last(chunks').part \notin Range(SectionsToCome')
      BY <1>1, <1>4, <2>1, <2>2, <2>8 DEF SectionsToCome
    <2>10. FollowsIn(file, p, LastWord(pieces), Head(h.words))
      <3> DEFINE n == Len(pieces)
                 all == pieces \o units
      <3>1. n \in Nat /\ n > 0 /\ Len(units) \in Nat /\ Len(units) > 0
            /\ Last(pieces) = pieces[n] /\ h = units[1]
        BY <1>1, <2>1 DEF Last
      <3>2. Len(all) = n + Len(units) /\ all[n] = pieces[n] /\ all[n + 1] = units[1]
        <4>1. n \in 1 .. n /\ 1 \in 1 .. Len(units)
          BY <3>1
        <4> QED
          BY <1>1, <4>1, ConcatFacts
      <3>3. Chained(file, p, all)
        BY <1>3, <2>1
      <3> HIDE DEF n, all, p, h
      <3>4. n \in 1 .. Len(all) - 1
        BY <3>1, <3>2
      <3>5. FollowsIn(file, p, Last(all[n].words), Head(all[n + 1].words))
        BY <3>3, <3>4 DEF Chained
      <3> QED
        BY <3>1, <3>2, <3>5 DEF LastWord
    <2>11. ContinuesIn(file, p, pieces, pieces')
      <3> HIDE DEF p, h
      <3> QED
        BY <1>1, <2>1, <2>3, <2>10, ContinuesFull DEF o
    <2>12. Chained(file, p, pieces' \o units')
      <3> DEFINE n == Len(pieces)
                 d == k - 1
                 all == pieces \o units
                 end == o \o units
      <3>1. pieces' \o units' = end
        BY <1>1, <2>1, <2>5, HeadMoved
      <3>2. n \in Nat /\ d \in Nat /\ d \in 0 .. n /\ k = d + 1
        BY <1>1
      <3>3. Len(o) = n - d /\ \A i \in 1 .. n - d : o[i] = pieces[i + d]
        <4>1. k \in 1 .. Len(pieces) + 1 /\ n \in k - 1 .. Len(pieces)
          BY <3>2
        <4> DEFINE x == SubSeq(pieces, k, n)
        <4>2. Len(x) = n - k + 1 /\ \A i \in 1 .. n - k + 1 : x[i] = pieces[k + i - 1]
          BY <1>1, <4>1, SubSeqFacts
        <4>3. x = o
          BY <2>5
        <4> HIDE DEF x, n, d
        <4>4. n - k + 1 = n - d /\ \A i \in 1 .. n - d : k + i - 1 = i + d
          BY <3>2
        <4> QED
          BY <4>2, <4>3, <4>4
      <3>4. /\ all \in Seq(Pieces) /\ Len(all) = n + Len(units)
            /\ \A i \in 1 .. n : all[i] = pieces[i]
            /\ \A i \in 1 .. Len(units) : all[n + i] = units[i]
        BY <1>1, ConcatFacts
      <3>5. /\ end \in Seq(Pieces) /\ Len(end) = Len(o) + Len(units)
            /\ \A i \in 1 .. Len(o) : end[i] = o[i]
            /\ \A i \in 1 .. Len(units) : end[Len(o) + i] = units[i]
        BY <1>1, <2>5, ConcatFacts
      <3>6. Len(units) \in Nat
        BY <1>1
      <3> DEFINE m == Len(units)
      <3> HIDE DEF n, d, all, end, m
      <3>7. Len(end) + d = Len(all)
        BY <3>2, <3>3, <3>4, <3>5, <3>6 DEF m
      <3>8. ASSUME NEW i \in 1 .. Len(end)
            PROVE  end[i] = all[i + d]
        <4>0. i \in 1 .. n - d + m /\ m \in Nat
          BY <3>3, <3>5, <3>6 DEF m
        <4>1. CASE i \in 1 .. n - d
          <5>1. i + d \in 1 .. n
            BY <3>2, <4>1
          <5> QED
            BY <3>3, <3>4, <3>5, <4>1, <5>1
        <4>2. CASE i \notin 1 .. n - d
          <5> DEFINE j == i - (n - d)
          <5>1. j \in 1 .. m /\ n - d + j = i /\ n + j = i + d
            BY <3>2, <4>0, <4>2
          <5> HIDE DEF j
          <5>2. end[n - d + j] = units[j] /\ all[n + j] = units[j]
            BY <3>3, <3>4, <3>5, <5>1 DEF m
          <5> QED
            BY <5>1, <5>2
        <4> QED
          BY <4>1, <4>2
      <3>9. Chained(file, p, all)
        BY <1>3, <2>1 DEF all
      <3> HIDE DEF p
      <3>10. Chained(file, p, end)
        BY <3>2, <3>4, <3>5, <3>7, <3>8, <3>9, ChainedEnd
      <3> QED
        BY <3>1, <3>10
    <2> HIDE DEF h
    <2> QED
      BY <1>2, <2>1, <2>2, <2>6, <2>7, <2>8, <2>9, <2>11, <2>12 DEF AdvanceInv
  <1>11. CASE EndSection
    <2> DEFINE p == Head(sections)
               last == ChunkOf("section", p, pieces, 2)
               merged == ChunkOf("section", p, Last(chunks).pieces \o pieces, 2)
    <2>1. /\ pc = "pack" /\ units = <<>> /\ sections' = Tail(sections) /\ pc' = "sections"
          /\ file' = file
          /\ \/ chunks' = Append(chunks, last)
             \/ InThisPart(p) /\ chunks' = Append(Front(chunks), merged)
      BY <1>11 DEF EndSection
    <2>2. /\ last.kind = "section" /\ last.part = p /\ last.pieces = pieces
          /\ merged.kind = "section" /\ merged.part = p
          /\ merged.pieces = Last(chunks).pieces \o pieces
      BY DEF ChunkOf
    <2> HIDE DEF last, merged
    <2>3. SectionsToCome = Tail(sections) /\ SectionsToCome' = Tail(sections)
      BY <2>1 DEF SectionsToCome
    <2>4. CASE chunks' = Append(chunks, last)
      <3>1. Advances(file, chunks')
        BY <1>1, <1>2, <1>3, <2>1, <2>2, <2>4, AdvancesAppend DEF InThisPart
      <3>2. (\A d \in Range(chunks') : d.kind = "section") /\ Last(chunks') = last
        BY <1>1, <1>2, <1>6, <2>1, <2>2, <2>4
      <3> QED
        BY <1>1, <1>4, <2>1, <2>2, <2>3, <3>1, <3>2 DEF AdvanceInv
    <2>5. CASE InThisPart(p) /\ chunks' = Append(Front(chunks), merged)
      <3>1. chunks # <<>> /\ Last(chunks).part = p /\ Last(chunks).kind = "section"
        BY <1>2, <1>5, <2>1, <2>5 DEF InThisPart
      <3>2. Advances(file, chunks')
        BY <1>1, <1>2, <2>2, <2>5, <3>1, AdvancesMerge
      <3>3. (\A d \in Range(chunks') : d.kind = "section") /\ Last(chunks') = merged
        BY <1>2, <1>5, <1>6, <2>1, <2>2, <2>5, <3>1
      <3> QED
        BY <1>1, <1>4, <2>1, <2>2, <2>3, <3>2, <3>3 DEF AdvanceInv
    <2> QED
      BY <2>1, <2>4, <2>5
  <1>12. CASE SectionsEnd
    <2>1. /\ pc' \in {"done", "tables"} /\ UNCHANGED <<file, sections, chunks>>
      BY <1>12 DEF SectionsEnd
    <2> QED
      BY <1>2, <2>1 DEF AdvanceInv
  <1>13. ASSUME NEW c, c.kind = "table", chunks' = chunks \/ chunks' = Append(chunks, c),
                pc' \in {"tables", "rows", "done"}, UNCHANGED <<file, sections>>
         PROVE  AdvanceInv'
    <2>1. Advances(file, chunks')
      BY <1>1, <1>2, <1>13, AdvancesAppend
    <2> QED
      BY <1>2, <1>13, <2>1 DEF AdvanceInv
  <1>14. CASE SkipTable \/ SplitTable \/ AddRow \/ TablesEnd
    <2>1. chunks' = chunks /\ pc' \in {"tables", "rows", "done"} /\ UNCHANGED <<file, sections>>
      BY <1>14 DEF SkipTable, SplitTable, AddRow, TablesEnd
    <2> QED
      BY <1>2, <2>1 DEF AdvanceInv
  <1>15. CASE KeepTable
    <2> DEFINE c == ChunkOf("table", Head(tables),
                            <<Unit(WordsOf(file, Head(tables)), TRUE)>>, 1)
    <2>1. /\ pc = "tables" /\ pc' = pc /\ UNCHANGED <<file, sections>>
          /\ chunks' = Append(chunks, c)
      BY <1>15 DEF KeepTable
    <2>2. c.kind = "table"
      BY DEF ChunkOf
    <2> HIDE DEF c
    <2> QED
      BY <1>13, <2>1, <2>2
  <1>16. CASE CloseTableChunk \/ EndTable
    <2>1. /\ pc' \in {"rows", "tables"} /\ UNCHANGED <<file, sections>>
          /\ chunks' = chunks \/ chunks' = Append(chunks, TableChunk)
      BY <1>16 DEF CloseTableChunk, EndTable
    <2>2. TableChunk.kind = "table"
      BY DEF TableChunk, ChunkOf
    <2> QED
      BY <1>13, <2>1, <2>2
  <1>17. CASE FallBack
    <2>1. /\ chunks = <<>> /\ chunks' = <<>> /\ sections' = WholeFile(file) /\ pc' = "sections"
          /\ file' = file
      BY <1>17 DEF FallBack
    <2>2. Ascending(WholeFile(file))
      BY <1>1, WholeFileFacts
    <2>3. Range(chunks') = {}
      BY <2>1 DEF Range
    <2> QED
      BY <1>2, <2>1, <2>2, <2>3 DEF AdvanceInv
  <1>18. CASE UNCHANGED vars
    BY <1>2, <1>3, <1>18 DEF vars, AdvanceInv, SectionsToCome, InThisPart
  <1> QED
    BY <1>7, <1>8, <1>9, <1>10, <1>11, <1>12, <1>14, <1>15, <1>16, <1>17, <1>18 DEF Next

\* A chunk of a section repeats some last pieces of the one before it, of no more than
\* Overlap characters, and goes on with the very next word.
THEOREM PackingAdvances == Spec => []ChunksAdvance
  <1>1. AdvanceInv => ChunksAdvance
    <2> SUFFICES ASSUME AdvanceInv PROVE ChunksAdvance
      OBVIOUS
    <2>1. Advances(file, chunks)
      BY DEF AdvanceInv
    <2> QED
      BY <2>1 DEF Advances, ContinuesIn, FollowsIn, IsNext, ChunksAdvance, Follows
  <1> QED
    BY <1>1, TypeInit, TypeNext, AdvanceInit, AdvanceNext, PTL DEF Spec

-----------------------------------------------------------------------------
(* The text of a file. *)

\* The length of a text that goes on with another: there is one space between them.
LEMMA TextLenConcat ==
    ASSUME NEW s \in Seq(Occurrence), NEW t \in Seq(Occurrence)
    PROVE  TextLen(s \o t) = TextLen(s) + TextLen(t) + 1
  <1> DEFINE Good == {u \in Seq(Occurrence) : TextLen(s \o u) = TextLen(s) + TextLen(u) + 1}
  <1>1. <<>> \in Good
    <2>1. [i \in DOMAIN <<>> |-> (<<>>)[i].len] = <<>> /\ Len(<<>>) = 0
      OBVIOUS
    <2>2. TextLen(<<>>) = 0 + 0 - 1
      BY <2>1, TotalEmpty DEF TextLen
    <2>3. <<>> \in Seq(Occurrence) /\ s \o <<>> = s /\ TextLen(s) \in Int
      BY TextLenFacts
    <2> QED
      BY <2>2, <2>3
  <1>2. ASSUME NEW u \in Seq(Occurrence), NEW w \in Occurrence, u \in Good
        PROVE  Append(u, w) \in Good
    <2> DEFINE a == TextLen(s)
               b == TextLen(u)
               c == TextLen(s \o u)
    <2>1. s \o Append(u, w) = Append(s \o u, w) /\ s \o u \in Seq(Occurrence)
          /\ Append(u, w) \in Seq(Occurrence)
      OBVIOUS
    <2>2. a \in Int /\ b \in Int /\ c = a + b + 1 /\ w.len \in Int
      <3>1. w.len \in Int
        BY DEF Occurrence
      <3> QED
        BY <1>2, <3>1, TextLenFacts
    <2>3. TextLen(Append(s \o u, w)) = c + w.len + 1 /\ TextLen(Append(u, w)) = b + w.len + 1
      BY <2>1, TextLenFacts
    <2> HIDE DEF a, b, c
    <2>4. c + w.len + 1 = a + (b + w.len + 1) + 1
      BY <2>2
    <2> QED
      BY <2>1, <2>3, <2>4 DEF a
  <1>3. \A u \in Seq(Occurrence) : u \in Good
    <2> HIDE DEF Good
    <2> QED
      BY <1>1, <1>2, AppendInduction
  <1> QED
    BY <1>3

\* A stretch of a text is no longer than the text.
LEMMA StretchLen ==
    ASSUME NEW t \in Seq(Occurrence), NEW s, IsStretch(s, t)
    PROVE  s \in Seq(Occurrence) /\ TextLen(s) <= TextLen(t)
  <1>1. s \in Seq(Occurrence) /\ \E x, y \in Seq(Occurrence) : t = (x \o s) \o y
    <2>1. Between(Occurrence, s, t)
      BY StretchFacts
    <2> QED
      BY <2>1 DEF Between
  <1>2. PICK x \in Seq(Occurrence), y \in Seq(Occurrence) : t = (x \o s) \o y
    BY <1>1
  <1>3. \A u \in Seq(Occurrence) : TextLen(u) \in Int /\ TextLen(u) >= -1
    <2> SUFFICES ASSUME NEW u \in Seq(Occurrence) PROVE TextLen(u) \in Int /\ TextLen(u) >= -1
      OBVIOUS
    <2>1. CASE u = <<>>
      <3>1. [i \in DOMAIN <<>> |-> (<<>>)[i].len] = <<>> /\ Len(<<>>) = 0
        OBVIOUS
      <3>2. TextLen(<<>>) = 0 + 0 - 1
        BY <3>1, TotalEmpty DEF TextLen
      <3> QED
        BY <2>1, <3>2
    <2>2. CASE u # <<>>
      <3>1. TextLen(u) \in Nat \ {0}
        BY <2>2, TextLenFacts
      <3> QED
        BY <3>1
    <2> QED
      BY <2>1, <2>2
  <1> DEFINE xs == x \o s
             a == TextLen(x)
             b == TextLen(s)
             c == TextLen(y)
  <1>4. xs \in Seq(Occurrence) /\ TextLen(xs) = a + b + 1
    BY <1>1, TextLenConcat
  <1>5. TextLen(xs \o y) = TextLen(xs) + c + 1
    <2> HIDE DEF xs
    <2> QED
      BY <1>4, TextLenConcat
  <1>6. a \in Int /\ b \in Int /\ c \in Int /\ a >= -1 /\ c >= -1
    BY <1>1, <1>3
  <1>7. TextLen(t) = a + b + 1 + c + 1
    BY <1>2, <1>4, <1>5
  <1> HIDE DEF a, b, c
  <1>8. b <= TextLen(t)
    BY <1>6, <1>7
  <1> QED
    BY <1>1, <1>8 DEF b

\* Nothing stands twice in a sequence.
Unrepeated(s) == \A i, j \in DOMAIN s : s[i] = s[j] => i = j

\* Sequences with nothing in common.
LEMMA UnrepeatedConcat ==
    ASSUME NEW T, NEW s \in Seq(T), NEW t \in Seq(T), Unrepeated(s), Unrepeated(t),
           Range(s) \cap Range(t) = {}
    PROVE  Unrepeated(s \o t)
  <1> DEFINE u == s \o t
             m == Len(s)
             n == Len(t)
  <1>1. m \in Nat /\ n \in Nat /\ DOMAIN s = 1 .. m /\ DOMAIN t = 1 .. n
    OBVIOUS
  <1>2. /\ u \in Seq(T) /\ Len(u) = m + n
        /\ \A i \in 1 .. m : u[i] = s[i]
        /\ \A i \in 1 .. n : u[m + i] = t[i]
    BY ConcatFacts
  <1>3. DOMAIN u = 1 .. m + n
    BY <1>2
  <1> HIDE DEF m, n, u
  <1>4. \A i \in 1 .. m, j \in 1 .. n : s[i] # t[j]
    BY <1>1 DEF Range
  <1>5. ASSUME NEW i \in 1 .. m + n
        PROVE  \/ i \in 1 .. m /\ u[i] = s[i]
               \/ i - m \in 1 .. n /\ u[i] = t[i - m]
    <2>1. CASE i \in 1 .. m
      BY <1>2, <2>1
    <2>2. CASE i \notin 1 .. m
      <3>1. i - m \in 1 .. n /\ m + (i - m) = i
        BY <1>1, <2>2
      <3> QED
        BY <1>2, <3>1
    <2> QED
      BY <2>1, <2>2
  <1>6. ASSUME NEW i \in 1 .. m + n, NEW j \in 1 .. m + n, u[i] = u[j]
        PROVE  i = j
    <2>1. CASE i \in 1 .. m /\ u[i] = s[i] /\ j \in 1 .. m /\ u[j] = s[j]
      BY <1>1, <1>6, <2>1 DEF Unrepeated
    <2>2. CASE i \in 1 .. m /\ u[i] = s[i] /\ j - m \in 1 .. n /\ u[j] = t[j - m]
      BY <1>4, <1>6, <2>2
    <2>3. CASE j \in 1 .. m /\ u[j] = s[j] /\ i - m \in 1 .. n /\ u[i] = t[i - m]
      BY <1>4, <1>6, <2>3
    <2>4. CASE j - m \in 1 .. n /\ u[j] = t[j - m] /\ i - m \in 1 .. n /\ u[i] = t[i - m]
      <3>1. i - m = j - m
        BY <1>1, <1>6, <2>4 DEF Unrepeated
      <3> QED
        BY <1>1, <3>1
    <2> QED
      BY <1>5, <2>1, <2>2, <2>3, <2>4
  <1> QED
    BY <1>3, <1>6 DEF Unrepeated, u

\* The words of a line are of that line, and none stands in it twice.
LEMMA LinePlaces ==
    ASSUME NEW f, IsFile(f), NEW i \in DOMAIN f
    PROVE  Unrepeated(Occurrences(f, i)) /\ \A w \in LineWords(f, i) : w.line = i
  <1> DEFINE o == Occurrences(f, i)
  <1>1. \A j \in DOMAIN o : o[j].line = i /\ o[j].pos = j
    BY DEF Occurrences
  <1> HIDE DEF o
  <1> QED
    BY <1>1 DEF Unrepeated, LineWords, Range, o

Text(f) == WordsOf(f, Span(1, Len(f)))

\* The words of a part are of its lines.
LEMMA WordsOfLines ==
    ASSUME NEW f, IsFile(f), NEW p \in Intervals(Len(f))
    PROVE  \A w \in Range(WordsOf(f, p)) : w.line \in LinesOf(p)
  <1> SUFFICES ASSUME NEW w \in Range(WordsOf(f, p)) PROVE w.line \in LinesOf(p)
    OBVIOUS
  <1>1. PICK i \in LinesOf(p) : w \in LineWords(f, i)
    BY WordsOfFacts
  <1>2. i \in DOMAIN f
    BY LinesOfPart
  <1> QED
    BY <1>1, <1>2, LinePlaces

\* No word stands in the text of a file twice.
LEMMA TextUnrepeated ==
    ASSUME NEW f, IsFile(f)
    PROVE  Text(f) \in Seq(Occurrence) /\ Unrepeated(Text(f))
  <1> DEFINE n == Len(f)
             W(b) == WordsOf(f, Span(1, b))
             Good == {b \in 0 .. n : Unrepeated(W(b)) /\ \A w \in Range(W(b)) : w.line <= b}
  <1>1. n \in Nat /\ DOMAIN f = 1 .. n /\ 1 \in 1 .. n + 1 /\ 1 - 1 = 0
    BY DEF IsFile
  <1>2. /\ \A b \in 0 .. n : W(b) \in Seq(Occurrence)
        /\ W(0) = <<>>
        /\ \A b \in 1 .. n : W(b) = W(b - 1) \o Occurrences(f, b)
    BY <1>1, WordsOfGrows
  <1>3. 0 \in Good
    <2>1. 0 \in 0 .. n /\ DOMAIN (<<>>) = {}
      BY <1>1
    <2> HIDE DEF W
    <2> QED
      BY <1>2, <2>1 DEF Unrepeated, Range
  <1>4. ASSUME NEW b \in 1 .. n, b - 1 \in Good
        PROVE  b \in Good
    <2> DEFINE s == W(b - 1)
               o == Occurrences(f, b)
               c == b - 1
    <2>1. b \in 0 .. n /\ c \in 0 .. n /\ b \in DOMAIN f /\ c < b /\ c \in Int
      BY <1>1
    <2>2. s \in Seq(Occurrence) /\ o \in Seq(Occurrence) /\ W(b) = s \o o
      <3> HIDE DEF W
      <3> QED
        BY <1>2, <2>1, OccurrencesFacts
    <2>3. Unrepeated(s) /\ \A w \in Range(s) : w.line <= c
      BY <1>4
    <2>4. Unrepeated(o) /\ \A w \in Range(o) : w.line = b
      BY <2>1, LinePlaces DEF LineWords
    <2> HIDE DEF W, c, s, o
    <2>5. \A w \in Range(s) : w \in Occurrence
      BY <2>2 DEF Range
    <2>6. \A w \in Occurrence : w.line \in Int
      BY DEF Occurrence
    <2>7. Range(s) \cap Range(o) = {}
      <3> SUFFICES ASSUME NEW w \in Range(s) \cap Range(o) PROVE FALSE
        OBVIOUS
      <3>1. w.line <= c /\ w.line = b
        BY <2>3, <2>4
      <3> QED
        BY <2>1, <3>1
    <2>8. Unrepeated(W(b))
      BY <2>2, <2>3, <2>4, <2>7, UnrepeatedConcat
    <2>9. ASSUME NEW w \in Range(W(b))
          PROVE  w.line <= b
      <3>1. w \in Range(s) \/ w \in Range(o)
        BY <2>2, <2>9, RangeConcat
      <3>2. CASE w \in Range(s)
        <4>1. w.line <= c /\ w.line \in Int
          BY <2>3, <2>5, <2>6, <3>2
        <4> QED
          BY <2>1, <4>1
      <3>3. CASE w \in Range(o)
        BY <2>1, <2>4, <3>3
      <3> QED
        BY <3>1, <3>2, <3>3
    <2> QED
      BY <2>1, <2>8, <2>9
  <1>5. n \in Good
    <2>1. n \in 0 .. n
      BY <1>1
    <2> HIDE DEF Good
    <2> QED
      BY <1>1, <1>3, <1>4, <2>1, IntervalInduction
  <1>6. n \in 0 .. n
    BY <1>1
  <1> QED
    BY <1>2, <1>5, <1>6 DEF Text

\* The words of a part stand in the text of the file.
LEMMA PartInText ==
    ASSUME NEW f, IsFile(f), NEW p \in Intervals(Len(f))
    PROVE  IsStretch(WordsOf(f, p), Text(f))
  <1> DEFINE n == Len(f)
             a == p.first
             b == p.last
             x == WordsOf(f, Span(1, a - 1))
             s == WordsOf(f, Span(a, b))
             y == WordsOf(f, Span(b + 1, n))
             xs == WordsOf(f, Span(1, b))
  <1>1. n \in Nat /\ a \in 1 .. n /\ b \in a .. n /\ p = Span(a, b)
    BY DEF IsFile, Intervals, Span
  <1> DEFINE c == a - 1
  <1>2. 1 \in 1 .. n + 1 /\ c \in 1 - 1 .. n /\ b \in c .. n /\ b \in 1 - 1 .. n /\ n \in b .. n
        /\ c + 1 = a
    BY <1>1
  <1> HIDE DEF a, b, c
  <1>3. /\ WordsOf(f, Span(1, c)) \in Seq(Occurrence)
        /\ WordsOf(f, Span(c + 1, b)) \in Seq(Occurrence)
        /\ WordsOf(f, Span(1, b)) = WordsOf(f, Span(1, c)) \o WordsOf(f, Span(c + 1, b))
    BY <1>2, WordsOfSplit
  <1>4. /\ WordsOf(f, Span(1, b)) \in Seq(Occurrence)
        /\ WordsOf(f, Span(b + 1, n)) \in Seq(Occurrence)
        /\ WordsOf(f, Span(1, n)) = WordsOf(f, Span(1, b)) \o WordsOf(f, Span(b + 1, n))
    BY <1>2, WordsOfSplit
  <1>5. /\ x \in Seq(Occurrence) /\ s \in Seq(Occurrence) /\ y \in Seq(Occurrence)
        /\ Text(f) = (x \o s) \o y
    BY <1>2, <1>3, <1>4 DEF Text, c
  <1> HIDE DEF x, s, y
  <1>6. IsStretch(s, (x \o s) \o y)
    BY <1>5, StretchBetween
  <1> QED
    BY <1>1, <1>5, <1>6 DEF s

\* If nothing stands twice in a text, a stretch that has all the words of another has it as
\* it is.
LEMMA StretchWithin ==
    ASSUME NEW t \in Seq(Occurrence), Unrepeated(t), NEW s, IsStretch(s, t),
           NEW q, IsStretch(q, t), q # <<>>, Range(q) \subseteq Range(s)
    PROVE  \E a, b \in DOMAIN s : SubSeq(s, a, b) = q /\ a \in 1 .. Len(s) + 1 /\ b \in a - 1 .. Len(s)
  <1>1. PICK a \in 1 .. Len(t) + 1 : \E b \in a - 1 .. Len(t) : s = SubSeq(t, a, b)
    BY DEF IsStretch
  <1>2. PICK b \in a - 1 .. Len(t) : s = SubSeq(t, a, b)
    BY <1>1
  <1>3. PICK c \in 1 .. Len(t) + 1 : \E d \in c - 1 .. Len(t) : q = SubSeq(t, c, d)
    BY DEF IsStretch
  <1>4. PICK d \in c - 1 .. Len(t) : q = SubSeq(t, c, d)
    BY <1>3
  <1> DEFINE n == Len(t)
  <1>5. n \in Nat /\ DOMAIN t = 1 .. n /\ a \in 1 .. n + 1 /\ b \in a - 1 .. n
        /\ c \in 1 .. n + 1 /\ d \in c - 1 .. n
    OBVIOUS
  <1>6. s \in Seq(Occurrence) /\ Len(s) = b - a + 1 /\ \A i \in 1 .. b - a + 1 : s[i] = t[a + i - 1]
    BY <1>2, SubSeqFacts
  <1>7. q \in Seq(Occurrence) /\ Len(q) = d - c + 1 /\ \A i \in 1 .. d - c + 1 : q[i] = t[c + i - 1]
    BY <1>4, SubSeqFacts
  <1> HIDE DEF n
  <1>8. c <= d /\ DOMAIN q = 1 .. d - c + 1 /\ DOMAIN s = 1 .. b - a + 1
    <2>1. Len(q) # 0 /\ DOMAIN q = 1 .. Len(q) /\ DOMAIN s = 1 .. Len(s)
      BY <1>6, <1>7
    <2> QED
      BY <1>5, <1>6, <1>7, <2>1
  <1>9. ASSUME NEW i \in c .. d
        PROVE  i \in a .. b
    <2> DEFINE k == i - c + 1
    <2>1. k \in 1 .. d - c + 1 /\ c + k - 1 = i /\ i \in 1 .. n
      BY <1>5
    <2> HIDE DEF k
    <2>2. q[k] = t[i] /\ q[k] \in Range(q)
      BY <1>7, <1>8, <2>1 DEF Range
    <2>3. PICK j \in 1 .. b - a + 1 : s[j] = t[i]
      BY <1>8, <2>2 DEF Range
    <2>4. a + j - 1 \in 1 .. n /\ a + j - 1 \in a .. b /\ t[a + j - 1] = t[i]
      BY <1>5, <1>6, <2>3
    <2>5. a + j - 1 = i
      BY <1>5, <2>1, <2>4 DEF Unrepeated
    <2> QED
      BY <2>4, <2>5
  <1>10. a <= c /\ d <= b
    <2>1. c \in c .. d /\ d \in c .. d
      BY <1>5, <1>8
    <2>2. c \in a .. b /\ d \in a .. b
      BY <1>9, <2>1
    <2> QED
      BY <1>5, <2>2
  <1> DEFINE x == c - a + 1
             y == d - a + 1
             r == SubSeq(s, x, y)
  <1>11. x \in 1 .. b - a + 1 /\ y \in 1 .. b - a + 1 /\ x <= y /\ y - x + 1 = d - c + 1
         /\ x \in 1 .. Len(s) + 1 /\ y \in x - 1 .. Len(s)
    BY <1>5, <1>6, <1>8, <1>10
  <1>12. \A i \in 1 .. d - c + 1 : x + i - 1 \in 1 .. b - a + 1 /\ a + (x + i - 1) - 1 = c + i - 1
    BY <1>5, <1>8, <1>10
  <1> HIDE DEF x, y
  <1>13. r \in Seq(Occurrence) /\ Len(r) = y - x + 1 /\ \A i \in 1 .. y - x + 1 : r[i] = s[x + i - 1]
    BY <1>6, <1>11, SubSeqFacts, SMTT(30)
  <1> HIDE DEF r
  <1>14. ASSUME NEW i \in 1 .. d - c + 1
         PROVE  r[i] = q[i]
    <2> DEFINE j == x + i - 1
    <2>1. j \in 1 .. b - a + 1 /\ a + j - 1 = c + i - 1 /\ r[i] = s[j]
      BY <1>11, <1>12, <1>13
    <2> HIDE DEF j
    <2> QED
      BY <1>6, <1>7, <2>1
  <1>15. r = q
    <2>1. Len(r) = Len(q) /\ \A i \in 1 .. Len(r) : r[i] = q[i]
      BY <1>7, <1>11, <1>13, <1>14
    <2> QED
      BY <1>7, <1>13, <2>1, SeqEqual
  <1> QED
    BY <1>8, <1>11, <1>15 DEF r

\* The length of a table is that of its words: it has no empty line.
LEMMA TableLen ==
    ASSUME NEW f, IsFile(f), NEW t \in TableParts(f)
    PROVE  /\ PartLen(f, t) = TextLen(WordsOf(f, t)) /\ PartLen(f, t) \in Nat
           /\ WordsOf(f, t) \in Texts
  <1>1. t \in Parts(f) /\ t \in Intervals(Len(f)) /\ HasText(f, t)
    <2>1. t \in Parts(f)
      BY TablesFacts
    <2> QED
      BY <2>1 DEF Parts
  <1>2. {i \in LinesOf(t) : Blank(f, i)} = {}
    BY DEF TableParts, Blank
  <1>3. Cardinality({}) = 0
    BY FS_EmptySet
  <1>4. TextLen(WordsOf(f, t)) \in Nat /\ WordsOf(f, t) \in Texts
    <2>1. WordsOf(f, t) \in Texts
      BY <1>1, WordsOfFacts
    <2>2. WordsOf(f, t) \in Seq(Occurrence) /\ WordsOf(f, t) # <<>>
      BY <2>1 DEF Texts
    <2> QED
      BY <2>1, <2>2, TextLenFacts
  <1>5. PartLen(f, t) = TextLen(WordsOf(f, t)) + 0
    BY <1>2, <1>3 DEF PartLen
  <1> QED
    BY <1>4, <1>5

-----------------------------------------------------------------------------
(* Tables in the chunks. *)

\* Pieces that are verbatim only if they are short.
ShortPieces == {u \in Pieces : u.verbatim => TextLen(u.words) <= TargetSize}

\* Pieces of the text of a file, verbatim only if they are short.
WholePieces(f) == {u \in ShortPieces : IsStretch(u.words, Text(f))}

\* A unit is verbatim only if it is short.
LEMMA UnitsAreShort ==
    /\ \A words \in Texts : SentenceUnits(words) \in Seq(ShortPieces)
    /\ \A words \in Texts : ParagraphUnits(words) \in Seq(ShortPieces)
    /\ \A f : IsFile(f) => \A p \in Parts(f) : UnitsOf(f, p) \in Seq(ShortPieces)
  <1>1. ASSUME NEW words \in Texts, TextLen(words) <= TargetSize
        PROVE  <<Unit(words, TRUE)>> \in Seq(ShortPieces)
    <2>1. Unit(words, TRUE) \in ShortPieces
      BY <1>1 DEF Unit, ShortPieces, Pieces
    <2> QED
      BY <2>1, OneElement
  <1>2. ASSUME NEW words \in Texts
        PROVE  SentenceUnits(words) \in Seq(ShortPieces)
    <2> DEFINE groups == WordGroups(words)
               m == Len(groups)
    <2>1. groups \in Seq(Groups)
      BY GroupsFacts
    <2>2. SentenceUnits(words) = IF TextLen(words) <= TargetSize THEN <<Unit(words, TRUE)>>
                                 ELSE [i \in DOMAIN groups |-> Unit(groups[i], FALSE)]
      BY DEF SentenceUnits
    <2> HIDE DEF groups
    <2>3. m \in Nat /\ DOMAIN groups = 1 .. m /\ \A i \in 1 .. m : groups[i] \in Groups
      BY <2>1
    <2>4. \A g \in Groups : Unit(g, FALSE) \in ShortPieces
      BY DEF Unit, ShortPieces, Pieces, Groups
    <2> HIDE DEF m
    <2> DEFINE us == [i \in 1 .. m |-> Unit(groups[i], FALSE)]
    <2>5. us \in Seq(ShortPieces)
      <3>1. us \in [1 .. m -> ShortPieces]
        BY <2>3, <2>4
      <3> HIDE DEF us
      <3> QED
        BY <2>3, <3>1
    <2> QED
      BY <1>1, <2>2, <2>3, <2>5
  <1>3. ASSUME NEW words \in Texts
        PROVE  ParagraphUnits(words) \in Seq(ShortPieces)
    <2> DEFINE ss == Sentences(words)
               us == [i \in DOMAIN ss |-> SentenceUnits(ss[i])]
               m == Len(ss)
    <2>1. ParagraphUnits(words) = IF TextLen(words) <= TargetSize THEN <<Unit(words, TRUE)>>
                                  ELSE FlattenSeq(us)
      BY DEF ParagraphUnits
    <2>2. ss \in Seq(Texts)
      BY SentencesFacts
    <2> HIDE DEF ss
    <2>3. m \in Nat /\ DOMAIN ss = 1 .. m /\ \A i \in 1 .. m : ss[i] \in Texts
      BY <2>2
    <2> HIDE DEF m
    <2> DEFINE A == Seq(ShortPieces)
    <2>4. us \in [1 .. m -> A]
      BY <1>2, <2>3
    <2> HIDE DEF us, A
    <2>5. us \in Seq(A)
      BY <2>3, <2>4
    <2>6. FlattenSeq(us) \in Seq(ShortPieces)
      BY <2>5, FlattenElements DEF A
    <2> QED
      BY <1>1, <2>1, <2>6
  <1>4. ASSUME NEW f, IsFile(f), NEW p \in Parts(f)
        PROVE  UnitsOf(f, p) \in Seq(ShortPieces)
    <2> DEFINE s == Paragraphs(f, p)
               us == [i \in DOMAIN s |-> ParagraphUnits(WordsOf(f, s[i]))]
               m == Len(s)
    <2>1. UnitsOf(f, p) = FlattenSeq(us)
      BY DEF UnitsOf
    <2>2. s \in Seq(Parts(f))
      BY <1>4, ParagraphsText DEF Parts
    <2> HIDE DEF s
    <2>3. m \in Nat /\ DOMAIN s = 1 .. m /\ \A i \in 1 .. m : s[i] \in Parts(f)
      BY <2>2
    <2>4. \A q \in Parts(f) : WordsOf(f, q) \in Texts
      BY <1>4, WordsOfFacts DEF Parts
    <2> HIDE DEF m
    <2> DEFINE A == Seq(ShortPieces)
    <2>5. us \in [1 .. m -> A]
      BY <1>3, <2>3, <2>4
    <2> HIDE DEF us, A
    <2>6. us \in Seq(A)
      BY <2>3, <2>5
    <2>7. FlattenSeq(us) \in Seq(ShortPieces)
      BY <2>6, FlattenElements DEF A
    <2> QED
      BY <2>1, <2>7
  <1> QED
    BY <1>2, <1>3, <1>4

\* The units of a section stand in the text of the file, verbatim only if they are short.
LEMMA UnitsAreWhole ==
    ASSUME NEW f, IsFile(f), NEW p \in Parts(f)
    PROVE  UnitsOf(f, p) \in Seq(WholePieces(f))
  <1> DEFINE us == UnitsOf(f, p)
             ws == [i \in DOMAIN us |-> us[i].words]
             m == Len(us)
  <1>1. us \in Seq(ShortPieces)
    BY UnitsAreShort
  <1>2. us \in Seq(Pieces)
    <2>1. ShortPieces \subseteq Pieces
      BY DEF ShortPieces
    <2> HIDE DEF us
    <2> QED
      BY <1>1, <2>1
  <1>3. FlattenSeq(ws) = WordsOf(f, p)
    BY UnitsText DEF TextOf
  <1>4. Text(f) \in Seq(Occurrence) /\ IsStretch(WordsOf(f, p), Text(f))
    BY TextUnrepeated, PartInText DEF Parts
  <1> HIDE DEF us
  <1>5. ws \in Seq(Seq(Occurrence))
    BY <1>2, TextOfFacts
  <1>6. m \in Nat /\ DOMAIN us = 1 .. m /\ \A i \in 1 .. m : us[i] \in ShortPieces
    BY <1>1
  <1> HIDE DEF m
  <1>7. ASSUME NEW i \in 1 .. m
        PROVE  us[i] \in WholePieces(f)
    <2>1. i \in DOMAIN ws /\ ws[i] = us[i].words
      BY <1>6
    <2> HIDE DEF ws
    <2>2. IsStretch(ws[i], WordsOf(f, p))
      BY <1>3, <1>5, <2>1, FlattenStretch
    <2>3. IsStretch(ws[i], Text(f))
      BY <1>4, <2>2, StretchOfStretch
    <2> QED
      BY <1>6, <2>1, <2>3 DEF WholePieces
  <1>8. us \in Seq(WholePieces(f))
    BY <1>6, <1>7, <1>1
  <1> QED
    BY <1>8 DEF us

\* Pieces of the lines of a part.
PiecesInside(part) == {u \in Pieces : \A w \in Range(u.words) : w.line \in LinesOf(part)}

Row(f, r) == Unit(Occurrences(f, r), TRUE)

\* The rows of a table are pieces of its lines, and each row below the header is one of them.
LEMMA RowsInside ==
    ASSUME NEW f, IsFile(f), NEW t \in TableParts(f)
    PROVE  /\ RowsOf(f, t.first + 2, t.last) \in Seq(PiecesInside(t))
           /\ \A r \in t.first + 2 .. t.last : Row(f, r) \in Range(RowsOf(f, t.first + 2, t.last))
           /\ HeaderRows(f, t) \in Seq(PiecesInside(t)) /\ Len(HeaderRows(f, t)) = 2
  <1>1. /\ t \in Intervals(Len(f)) /\ t.first \in Nat /\ t.last \in Nat /\ t.first < t.last
        /\ LinesOf(t) = t.first .. t.last
        /\ \A i \in LinesOf(t) : f[i].kind = "row"
    BY DEF TableParts, Intervals, LinesOf
  <1>2. LinesOf(t) \subseteq DOMAIN f
    BY <1>1, LinesOfPart
  <1>3. \A i \in LinesOf(t) : Row(f, i) \in PiecesInside(t)
    <2> SUFFICES ASSUME NEW i \in LinesOf(t) PROVE Row(f, i) \in PiecesInside(t)
      OBVIOUS
    <2>1. Occurrences(f, i) \in Seq(Occurrence) /\ Occurrences(f, i) # <<>>
      BY <1>1, <1>2, OccurrencesFacts DEF Blank
    <2>2. Row(f, i) \in Pieces /\ Row(f, i).words = Occurrences(f, i)
      BY <2>1 DEF Row, Unit, Pieces, Texts
    <2>3. \A w \in Range(Occurrences(f, i)) : w.line = i
      BY <1>2, LinePlaces DEF LineWords
    <2> QED
      BY <2>2, <2>3 DEF PiecesInside
  <1>4. ASSUME NEW a \in Nat, NEW b \in Nat, a <= b + 1, (a .. b) \subseteq LinesOf(t)
        PROVE  /\ RowsOf(f, a, b) \in Seq(PiecesInside(t)) /\ Len(RowsOf(f, a, b)) = b - a + 1
               /\ \A r \in a .. b : Row(f, r) \in Range(RowsOf(f, a, b))
    <2> DEFINE m == b - a + 1
    <2>1. m \in Nat /\ (\A i \in 1 .. m : a + i - 1 \in a .. b)
          /\ \A r \in a .. b : r - a + 1 \in 1 .. m /\ a + (r - a + 1) - 1 = r
      BY <1>4
    <2>2. RowsOf(f, a, b) = [i \in 1 .. m |-> Row(f, a + i - 1)]
      BY DEF RowsOf, Row
    <2> HIDE DEF m
    <2>3. \A i \in 1 .. m : Row(f, a + i - 1) \in PiecesInside(t)
      BY <1>3, <1>4, <2>1
    <2>4. RowsOf(f, a, b) \in [1 .. m -> PiecesInside(t)]
      BY <2>2, <2>3
    <2>5. RowsOf(f, a, b) \in Seq(PiecesInside(t)) /\ Len(RowsOf(f, a, b)) = m
      BY <2>1, <2>4
    <2>6. ASSUME NEW r \in a .. b
          PROVE  Row(f, r) \in Range(RowsOf(f, a, b))
      <3> DEFINE i == r - a + 1
      <3>1. i \in 1 .. m /\ a + i - 1 = r
        BY <2>1
      <3> HIDE DEF i
      <3>2. RowsOf(f, a, b)[i] = Row(f, r) /\ i \in DOMAIN RowsOf(f, a, b)
        BY <2>2, <3>1
      <3> QED
        BY <3>2 DEF Range
    <2> QED
      BY <2>5, <2>6 DEF m
  <1>5. /\ RowsOf(f, t.first + 2, t.last) \in Seq(PiecesInside(t))
        /\ \A r \in t.first + 2 .. t.last : Row(f, r) \in Range(RowsOf(f, t.first + 2, t.last))
    <2>1. t.first + 2 \in Nat /\ t.first + 2 <= t.last + 1
          /\ (t.first + 2 .. t.last) \subseteq LinesOf(t)
      BY <1>1
    <2> QED
      BY <1>1, <1>4, <2>1
  <1>6. HeaderRows(f, t) \in Seq(PiecesInside(t)) /\ Len(HeaderRows(f, t)) = 2
    <2> DEFINE a == t.first
               b == t.first + 1
    <2>1. /\ a \in Nat /\ b \in Nat /\ a <= b + 1 /\ b - a + 1 = 2
          /\ (a .. b) \subseteq LinesOf(t)
      BY <1>1
    <2>2. HeaderRows(f, t) = RowsOf(f, a, b)
      BY DEF HeaderRows
    <2> HIDE DEF a, b
    <2>3. RowsOf(f, a, b) \in Seq(PiecesInside(t)) /\ Len(RowsOf(f, a, b)) = b - a + 1
      BY <1>4, <2>1
    <2> QED
      BY <2>1, <2>2, <2>3
  <1> QED
    BY <1>5, <1>6

\* What stands after two header rows.
LEMMA AfterHeader ==
    ASSUME NEW T, NEW h \in Seq(T), Len(h) = 2, NEW s \in Seq(T)
    PROVE  IsPrefix(h, h \o s) /\ Tail(Tail(h \o s)) = s
  <1> DEFINE u == h \o s
             n == Len(s)
             v == Tail(u)
             w == Tail(v)
  <1>1. n \in Nat /\ Len(s) = n
    OBVIOUS
  <1>2. /\ u \in Seq(T) /\ Len(u) = 2 + n
        /\ \A i \in 1 .. 2 : u[i] = h[i]
        /\ \A i \in 1 .. n : u[2 + i] = s[i]
    <2> DEFINE m == Len(h)
    <2>1. /\ u \in Seq(T) /\ Len(u) = m + n
          /\ \A i \in 1 .. m : u[i] = h[i]
          /\ \A i \in 1 .. n : u[m + i] = s[i]
      BY ONLY h \in Seq(T), s \in Seq(T), ConcatFacts
    <2>2. m = 2
      OBVIOUS
    <2> HIDE DEF u, n, m
    <2> QED
      BY <2>1, <2>2
  <1> HIDE DEF u, n
  <1>3. v \in Seq(T) /\ Len(v) = 1 + n /\ \A i \in 1 .. 1 + n : v[i] = u[i + 1]
    <2>1. u # <<>>
      BY <1>1, <1>2
    <2> QED
      BY <1>1, <1>2, <2>1
  <1> HIDE DEF v
  <1>4. w \in Seq(T) /\ Len(w) = n /\ \A i \in 1 .. n : w[i] = v[i + 1]
    <2>1. v # <<>>
      BY <1>1, <1>3
    <2> QED
      BY <1>1, <1>3, <2>1
  <1> HIDE DEF w
  <1>5. w = s
    <2>1. \A i \in 1 .. n : i + 1 \in 1 .. 1 + n /\ i + 1 + 1 = 2 + i
      BY <1>1
    <2>2. Len(w) = Len(s) /\ \A i \in 1 .. Len(w) : w[i] = s[i]
      BY <1>1, <1>2, <1>3, <1>4, <2>1
    <2> QED
      BY <1>4, <2>2, SeqEqual
  <1>6. IsPrefix(h, u)
    <2>1. SubSeq(h, 1, 2) = SubSeq(u, 1, 2)
      BY <1>1, <1>2
    <2> QED
      BY <1>1, <1>2, <2>1 DEF IsPrefix
  <1> QED
    BY <1>5, <1>6 DEF u, v, w

\* The table stands as it is in a chunk.
StandsWhole(f, t, cs) ==
    \E c \in Range(cs) : \E p \in Range(c.pieces) :
       p.verbatim /\ \E a, b \in DOMAIN p.words : SubSeq(p.words, a, b) = WordsOf(f, t)

\* A row stands in a chunk of its table, under the header.
RowStands(f, t, r, cs) ==
    \E c \in Range(cs) :
       /\ c.kind = "table" /\ c.part = t
       /\ IsPrefix(HeaderRows(f, t), c.pieces)
       /\ Row(f, r) \in Range(Tail(Tail(c.pieces)))

\* All of a table is in the chunks.
TableDone(f, t, cs) ==
    IF PartLen(f, t) <= MaxSize
    THEN StandsWhole(f, t, cs)
    ELSE \A r \in t.first + 2 .. t.last : RowStands(f, t, r, cs)

\* What a chunk may consist of: text of the file, verbatim only if short, or lines of its
\* table.
Proper(f, fmt, c) ==
    IF c.kind = "section"
    THEN c.pieces \in Seq(WholePieces(f))
    ELSE c.part \in Range(TablesOf(f, fmt)) /\ c.pieces \in Seq(PiecesInside(c.part))

\* Further chunks leave a table where it is.
LEMMA TableStays ==
    ASSUME NEW f, NEW t, NEW cs, NEW ds, Range(cs) \subseteq Range(ds)
    PROVE  /\ TableDone(f, t, cs) => TableDone(f, t, ds)
           /\ \A r : RowStands(f, t, r, cs) => RowStands(f, t, r, ds)
  BY DEF TableDone, StandsWhole, RowStands

\* What "already in the chunks" finds is the whole table as it is, and only if the table is
\* small: large pieces are not verbatim, and other tables have other lines.
LEMMA FoundTable ==
    ASSUME NEW f, IsFile(f), NEW fmt, NEW t \in Range(TablesOf(f, fmt)), NEW cs,
           NEW c \in Range(cs), Proper(f, fmt, c), c.kind = "table" => c.part # t,
           c.kind \in {"section", "table"},
           NEW p \in Range(c.pieces), p.verbatim, Range(WordsOf(f, t)) \subseteq Range(p.words)
    PROVE  TableDone(f, t, cs)
  <1> DEFINE q == WordsOf(f, t)
  <1>1. t \in TableParts(f) /\ t \in Intervals(Len(f))
    <2>1. TablesOf(f, fmt) \in Seq(TableParts(f))
      BY TablesFacts
    <2>2. t \in TableParts(f)
      BY <2>1 DEF Range
    <2> QED
      BY <2>2 DEF TableParts
  <1>2. q \in Seq(Occurrence) /\ q # <<>> /\ PartLen(f, t) = TextLen(q) /\ PartLen(f, t) \in Nat
    BY <1>1, TableLen DEF Texts
  <1>3. \A w \in Range(q) : w.line \in LinesOf(t)
    BY <1>1, WordsOfLines
  <1>4. q[1] \in Range(q)
    <2> HIDE DEF q
    <2> QED
      BY <1>2 DEF Range
  <1>5. CASE c.kind = "table"
    <2>1. c.part \in Range(TablesOf(f, fmt)) /\ c.pieces \in Seq(PiecesInside(c.part))
      BY <1>5 DEF Proper
    <2>2. p \in PiecesInside(c.part)
      BY <2>1 DEF Range
    <2>3. q[1].line \in LinesOf(t) /\ q[1].line \in LinesOf(c.part)
      BY <1>3, <1>4, <2>2 DEF PiecesInside
    <2>4. c.part = t
      BY <2>1, <2>3, TablesFacts
    <2> QED
      BY <1>5, <2>4
  <1>6. CASE c.kind = "section"
    <2>1. p \in WholePieces(f)
      <3>1. c.pieces \in Seq(WholePieces(f))
        BY <1>6 DEF Proper
      <3> QED
        BY <3>1 DEF Range
    <2> DEFINE s == p.words
    <2>2. s \in Seq(Occurrence) /\ IsStretch(s, Text(f)) /\ TextLen(s) <= TargetSize
      BY <2>1 DEF WholePieces, ShortPieces, Pieces, Texts
    <2>3. Text(f) \in Seq(Occurrence) /\ Unrepeated(Text(f)) /\ IsStretch(q, Text(f))
      BY <1>1, TextUnrepeated, PartInText
    <2>4. Range(q) \subseteq Range(s)
      OBVIOUS
    <2> HIDE DEF q, s
    <2>5. PICK a \in DOMAIN s, b \in DOMAIN s :
             SubSeq(s, a, b) = q /\ a \in 1 .. Len(s) + 1 /\ b \in a - 1 .. Len(s)
      BY <1>2, <2>2, <2>3, <2>4, StretchWithin
    <2>6. TextLen(q) <= TextLen(s)
      <3>1. IsStretch(q, s)
        BY <2>5 DEF IsStretch
      <3> QED
        BY <2>2, <3>1, StretchLen
    <2>7. TargetSize <= MaxSize
      BY ChunkerAssumption
    <2>8. TextLen(s) \in Int /\ TextLen(q) \in Int
      BY <1>2, <2>2, TextLenFacts
    <2> DEFINE l == TextLen(q)
               m == TextLen(s)
    <2>9. l \in Int /\ m \in Int /\ l <= m /\ m <= TargetSize /\ PartLen(f, t) = l
      BY <1>2, <2>2, <2>6, <2>8
    <2> HIDE DEF l, m
    <2>10. TargetSize \in Int /\ MaxSize \in Int
      BY ChunkerAssumption
    <2>11. PartLen(f, t) <= MaxSize
      BY ONLY <2>7, <2>9, <2>10
    <2>12. StandsWhole(f, t, cs)
      BY <2>5 DEF StandsWhole, q, s
    <2> QED
      BY <2>11, <2>12 DEF TableDone
  <1> QED
    BY <1>5, <1>6

-----------------------------------------------------------------------------
(* Tables stand whole.                                                     *)

\* What is in the chunks and at hand is text of the file or of the table.
ContentInv ==
    /\ \A c \in Range(chunks) : Proper(file, format, c)
    /\ pc = "pack" => pieces \in Seq(WholePieces(file)) /\ units \in Seq(WholePieces(file))
    /\ pc = "rows" => /\ pieces \in Seq(PiecesInside(Head(tables)))
                      /\ units \in Seq(PiecesInside(Head(tables)))

\* The tables no chunk may have been made of yet.
TablesToCome == IF pc = "rows" THEN Tail(tables) ELSE tables

\* The tables to come are tables of the file in order, and no chunk is made of them.
OrderInv ==
    /\ Ascending(tables)
    /\ Range(tables) \subseteq Range(TablesOf(file, format))
    /\ \A c \in Range(chunks) : c.kind = "table" => c.part \notin Range(TablesToCome)

\* A row of the table that is being split is at hand or in a chunk.
RowIsKept(r) ==
    \/ Row(file, r) \in Range(pieces) \cup Range(units)
    \/ RowStands(file, Head(tables), r, chunks)

RowInv ==
    pc = "rows" =>
        /\ PartLen(file, Head(tables)) > MaxSize
        /\ \A r \in Head(tables).first + 2 .. Head(tables).last : RowIsKept(r)

\* A table is still to come or is in the chunks.  The raw text stands in for the sections
\* only if no table needs a chunk.
AccountInv ==
    IF fallback
    THEN \A t \in Range(TablesOf(file, format)) : TableDone(file, t, <<>>)
    ELSE IF pc \in {"sections", "pack"}
    THEN Range(tables) = Range(TablesOf(file, format))
    ELSE /\ pc = "done" => tables = <<>>
         /\ \A t \in Range(TablesOf(file, format)) :
               t \in Range(tables) \/ TableDone(file, t, chunks)

TableInv == ContentInv /\ OrderInv /\ RowInv /\ AccountInv

\* At first all tables are to come and nothing is at hand.
LEMMA TableInit == Init => TableInv
  <1> SUFFICES ASSUME Init PROVE TableInv
    OBVIOUS
  <1>1. IsFile(file) /\ pc = "sections" /\ ~ fallback /\ tables = TablesOf(file, format)
        /\ chunks = <<>>
    BY FileFacts DEF Init
  <1>2. Range(chunks) = {}
    BY <1>1 DEF Range
  <1>3. Ascending(tables)
    BY <1>1, TablesFacts
  <1> QED
    BY <1>1, <1>2, <1>3 DEF TableInv, ContentInv, OrderInv, RowInv, AccountInv

\* The words of a part that fits, or of a table, as one verbatim piece.
LEMMA WholeParts ==
    ASSUME NEW f, IsFile(f), NEW p \in Parts(f)
    PROVE  /\ PartLen(f, p) <= TargetSize => Unit(WordsOf(f, p), TRUE) \in WholePieces(f)
           /\ Unit(WordsOf(f, p), TRUE) \in PiecesInside(p)
  <1> DEFINE ws == WordsOf(f, p)
             l == PartLen(f, p)
             m == TextLen(ws)
  <1>1. p \in Intervals(Len(f)) /\ HasText(f, p)
    BY DEF Parts
  <1>2. ws \in Texts /\ \A w \in Range(ws) : w.line \in LinesOf(p)
    BY <1>1, WordsOfFacts, WordsOfLines
  <1>3. IsStretch(ws, Text(f))
    BY <1>1, PartInText
  <1>4. l \in Nat /\ m \in Nat /\ m <= l /\ TargetSize \in Nat
    BY <1>2, PartLenFacts, TextLenFacts, ChunkerAssumption DEF Texts
  <1> DEFINE u == Unit(ws, TRUE)
  <1>5. u = [words |-> ws, verbatim |-> TRUE]
    BY DEF Unit
  <1> HIDE DEF ws, u
  <1>6. u \in Pieces /\ u.words = ws
    BY <1>2, <1>5 DEF Pieces
  <1>7. l <= TargetSize => m <= TargetSize
    BY ONLY <1>4
  <1> QED
    BY <1>2, <1>3, <1>6, <1>7 DEF WholePieces, ShortPieces, PiecesInside, u, ws

\* Every step packs what the section or the table has.
LEMMA ContentNext == TypeInv /\ AdvanceInv /\ TableInv /\ [Next]_vars => ContentInv'
  <1> SUFFICES ASSUME TypeInv, AdvanceInv, TableInv, [Next]_vars
               PROVE  ContentInv'
    OBVIOUS
  <1> USE DEF input
  <1>1. /\ IsFile(file) /\ sections \in Seq(Parts(file)) /\ chunks \in Seq(ChunksOf(file))
        /\ tables \in Seq(TableParts(file))
        /\ units \in Seq(Pieces) /\ pieces \in Seq(Pieces)
        /\ (pc = "pack" => sections # <<>>) /\ (pc = "rows" => tables # <<>>)
    BY FileFacts DEF TypeInv
  <1>2. /\ \A c \in Range(chunks) : Proper(file, format, c)
        /\ pc = "pack" => pieces \in Seq(WholePieces(file)) /\ units \in Seq(WholePieces(file))
        /\ pc = "rows" => /\ pieces \in Seq(PiecesInside(Head(tables)))
                          /\ units \in Seq(PiecesInside(Head(tables)))
    BY DEF TableInv, ContentInv
  <1>3. tables # <<>> => /\ Head(tables) \in TableParts(file) /\ Head(tables) \in Parts(file)
                         /\ Head(tables) \in Range(TablesOf(file, format))
    <2>1. TableParts(file) \subseteq Parts(file)
      BY <1>1, TablesFacts
    <2>2. tables # <<>> => Head(tables) \in TableParts(file) /\ Head(tables) \in Range(tables)
      BY <1>1, HeadAndTail
    <2> QED
      BY <2>1, <2>2 DEF TableInv, OrderInv
  <1>4. ASSUME NEW cs \in Seq(ChunksOf(file)), NEW c, Proper(file, format, c),
               \A d \in Range(cs) : Proper(file, format, d)
        PROVE  \A d \in Range(Append(cs, c)) : Proper(file, format, d)
    <2>1. Range(Append(cs, c)) = Range(cs) \cup {c}
      BY AppendRange
    <2> QED
      BY <1>4, <2>1
  <1>5. CASE KeepSection
    <2> DEFINE u == Unit(WordsOf(file, Head(sections)), TRUE)
               c == [kind |-> "section", part |-> Head(sections), pieces |-> <<u>>,
                     size |-> PartLen(file, Head(sections))]
    <2>1. /\ pc = "sections" /\ sections # <<>> /\ chunks' = Append(chunks, c)
          /\ PartLen(file, Head(sections)) <= TargetSize
          /\ UNCHANGED <<file, format, pc>>
      BY <1>5 DEF KeepSection
    <2>2. Head(sections) \in Parts(file)
      BY <1>1, <2>1, HeadAndTail
    <2>3. u \in WholePieces(file)
      BY <1>1, <2>1, <2>2, WholeParts
    <2>4. c.kind = "section" /\ c.pieces = <<u>>
      OBVIOUS
    <2> HIDE DEF u, c
    <2>5. Proper(file, format, c)
      BY <2>3, <2>4, OneElement DEF Proper
    <2> QED
      BY <1>1, <1>2, <1>4, <2>1, <2>5 DEF ContentInv
  <1>6. CASE SplitSection
    <2>1. /\ sections # <<>> /\ pc' = "pack" /\ pieces' = <<>>
          /\ units' = UnitsOf(file, Head(sections)) /\ UNCHANGED <<file, format, chunks>>
      BY <1>6 DEF SplitSection
    <2>2. Head(sections) \in Parts(file)
      BY <1>1, <2>1, HeadAndTail
    <2>3. units' \in Seq(WholePieces(file))
      BY <1>1, <2>1, <2>2, UnitsAreWhole
    <2> QED
      BY <1>2, <2>1, <2>3, EmptySequence DEF ContentInv
  <1>7. CASE AddUnit
    <2>1. /\ pc = "pack" /\ units # <<>> /\ pieces' = Append(pieces, Head(units))
          /\ units' = Tail(units) /\ UNCHANGED <<file, format, pc, chunks>>
      BY <1>7 DEF AddUnit
    <2> DEFINE U == WholePieces(file)
    <2>2. pieces \in Seq(U) /\ Head(units) \in U /\ Tail(units) \in Seq(U)
      BY <1>2, <2>1, HeadAndTail
    <2> HIDE DEF U
    <2>3. Append(pieces, Head(units)) \in Seq(U)
      BY <2>2, AppendElements
    <2> QED
      BY <1>2, <2>1, <2>2, <2>3 DEF ContentInv, U
  <1>8. CASE CloseChunk
    <2> DEFINE c == ChunkOf("section", Head(sections), pieces, 2)
               o == OverlapPieces(pieces)
               U == WholePieces(file)
    <2>1. /\ pc = "pack" /\ units # <<>> /\ chunks' = Append(chunks, c)
          /\ pieces' = Append(o, Head(units)) /\ units' = Tail(units)
          /\ UNCHANGED <<file, format, pc>>
      BY <1>8 DEF CloseChunk
    <2>2. c.kind = "section" /\ c.pieces = pieces
      BY DEF ChunkOf
    <2>3. pieces \in Seq(U) /\ Head(units) \in U /\ Tail(units) \in Seq(U)
      BY <1>2, <2>1, HeadAndTail
    <2>4. U \in SUBSET Pieces /\ Overlap \in Nat
      BY ChunkerAssumption DEF WholePieces, ShortPieces
    <2> HIDE DEF U, c
    <2>5. o \in Seq(U)
      BY <2>3, <2>4, OverlapFacts
    <2> HIDE DEF o
    <2>6. pieces' \in Seq(U)
      BY <2>1, <2>3, <2>5, AppendElements
    <2>7. Proper(file, format, c)
      BY <2>2, <2>3 DEF Proper, U
    <2> QED
      BY <1>1, <1>2, <1>4, <2>1, <2>3, <2>6, <2>7 DEF ContentInv, U
  <1>9. CASE EndSection
    <2> DEFINE p == Head(sections)
               last == ChunkOf("section", p, pieces, 2)
               merged == ChunkOf("section", p, Last(chunks).pieces \o pieces, 2)
               U == WholePieces(file)
    <2>1. /\ pc = "pack" /\ pc' = "sections" /\ UNCHANGED <<file, format>>
          /\ \/ chunks' = Append(chunks, last)
             \/ chunks # <<>> /\ chunks' = Append(Front(chunks), merged)
      BY <1>9 DEF EndSection, InThisPart
    <2>2. /\ last.kind = "section" /\ last.pieces = pieces
          /\ merged.kind = "section" /\ merged.pieces = Last(chunks).pieces \o pieces
      BY DEF ChunkOf
    <2>3. pieces \in Seq(U)
      BY <1>2, <2>1
    <2> HIDE DEF last, merged
    <2>4. Proper(file, format, last)
      BY <2>2, <2>3 DEF Proper
    <2>5. ASSUME chunks # <<>>
          PROVE  /\ Proper(file, format, merged) /\ Front(chunks) \in Seq(ChunksOf(file))
                 /\ \A d \in Range(Front(chunks)) : Proper(file, format, d)
      <3>1. Last(chunks) \in Range(chunks) /\ Front(chunks) \in Seq(ChunksOf(file))
            /\ Range(Front(chunks)) \subseteq Range(chunks)
        BY <1>1, <2>5, HeadAndTail
      <3>2. Last(chunks).kind = "section"
        BY <2>1, <3>1 DEF AdvanceInv
      <3>3. Last(chunks).pieces \in Seq(U)
        BY <1>2, <3>1, <3>2 DEF Proper
      <3> DEFINE b == Last(chunks).pieces
      <3> HIDE DEF b, U
      <3>4. b \o pieces \in Seq(U)
        BY <2>3, <3>3, ConcatFacts DEF b
      <3>5. Proper(file, format, merged)
        BY <2>2, <3>4 DEF Proper, b, U
      <3> QED
        BY <1>2, <3>1, <3>5
    <2> QED
      BY <1>1, <1>2, <1>4, <2>1, <2>4, <2>5 DEF ContentInv
  <1>10. CASE SectionsEnd \/ SkipTable \/ FallBack \/ TablesEnd
    <2>1. chunks' = chunks /\ UNCHANGED <<file, format>> /\ pc' \notin {"pack", "rows"}
      BY <1>10 DEF SectionsEnd, SkipTable, FallBack, TablesEnd
    <2> QED
      BY <1>2, <2>1 DEF ContentInv
  <1>11. CASE KeepTable
    <2> DEFINE t == Head(tables)
               u == Unit(WordsOf(file, t), TRUE)
               c == ChunkOf("table", t, <<u>>, 1)
    <2>1. /\ pc = "tables" /\ tables # <<>> /\ chunks' = Append(chunks, c)
          /\ UNCHANGED <<file, format, pc>>
      BY <1>11 DEF KeepTable
    <2>2. c.kind = "table" /\ c.part = t /\ c.pieces = <<u>>
      BY DEF ChunkOf
    <2>3. u \in PiecesInside(t)
      BY <1>1, <1>3, <2>1, WholeParts
    <2> HIDE DEF u, c
    <2>4. Proper(file, format, c)
      BY <1>3, <2>1, <2>2, <2>3, OneElement DEF Proper
    <2> QED
      BY <1>1, <1>2, <1>4, <2>1, <2>4 DEF ContentInv
  <1>12. CASE SplitTable
    <2> DEFINE t == Head(tables)
               rows == RowsOf(file, t.first + 2, t.last)
    <2>1. /\ tables # <<>> /\ pc' = "rows" /\ pieces' = <<>> /\ units' = rows
          /\ UNCHANGED <<file, format, tables, chunks>>
      BY <1>12 DEF SplitTable
    <2>2. rows \in Seq(PiecesInside(t))
      BY <1>1, <1>3, <2>1, RowsInside
    <2> QED
      BY <1>2, <2>1, <2>2, EmptySequence DEF ContentInv
  <1>13. CASE AddRow
    <2>1. /\ pc = "rows" /\ units # <<>> /\ pieces' = Append(pieces, Head(units))
          /\ units' = Tail(units) /\ UNCHANGED <<file, format, pc, tables, chunks>>
      BY <1>13 DEF AddRow
    <2> DEFINE U == PiecesInside(Head(tables))
    <2>2. pieces \in Seq(U) /\ Head(units) \in U /\ Tail(units) \in Seq(U)
      BY <1>2, <2>1, HeadAndTail
    <2> HIDE DEF U
    <2>3. Append(pieces, Head(units)) \in Seq(U)
      BY <2>2, AppendElements
    <2> QED
      BY <1>2, <2>1, <2>2, <2>3 DEF ContentInv, U
  <1>14. ASSUME pc = "rows"
         PROVE  Proper(file, format, TableChunk)
    <2> DEFINE t == Head(tables)
               h == HeaderRows(file, t)
               U == PiecesInside(t)
    <2>1. TableChunk.kind = "table" /\ TableChunk.part = t /\ TableChunk.pieces = h \o pieces
      BY DEF TableChunk, ChunkOf
    <2>2. h \in Seq(U) /\ pieces \in Seq(U) /\ t \in Range(TablesOf(file, format))
      BY <1>1, <1>2, <1>3, <1>14, RowsInside
    <2> HIDE DEF t, h, U
    <2>3. h \o pieces \in Seq(U)
      BY <2>2, ConcatFacts
    <2> QED
      BY <2>1, <2>2, <2>3 DEF Proper, U
  <1>15. CASE CloseTableChunk
    <2>1. /\ pc = "rows" /\ units # <<>> /\ chunks' = Append(chunks, TableChunk)
          /\ pieces' = <<Head(units)>> /\ units' = Tail(units)
          /\ UNCHANGED <<file, format, pc, tables>>
      BY <1>15 DEF CloseTableChunk
    <2> DEFINE U == PiecesInside(Head(tables))
    <2>2. Head(units) \in U /\ Tail(units) \in Seq(U)
      BY <1>2, <2>1, HeadAndTail
    <2> HIDE DEF U
    <2>3. pieces' \in Seq(U)
      BY <2>1, <2>2, OneElement
    <2> QED
      BY <1>1, <1>2, <1>4, <1>14, <2>1, <2>2, <2>3 DEF ContentInv, U
  <1>16. CASE EndTable
    <2>1. /\ pc = "rows" /\ pc' = "tables" /\ UNCHANGED <<file, format>>
          /\ chunks' = chunks \/ chunks' = Append(chunks, TableChunk)
      BY <1>16 DEF EndTable
    <2> QED
      BY <1>1, <1>2, <1>4, <1>14, <2>1 DEF ContentInv
  <1>17. CASE UNCHANGED vars
    BY <1>2, <1>17 DEF vars, ContentInv
  <1> QED
    BY <1>5, <1>6, <1>7, <1>8, <1>9, <1>10, <1>11, <1>12, <1>13, <1>15, <1>16, <1>17 DEF Next

\* Every chunk of a table is of the table whose turn it is.
LEMMA OrderNext == TypeInv /\ TableInv /\ [Next]_vars => OrderInv'
  <1> SUFFICES ASSUME TypeInv, TableInv, [Next]_vars
               PROVE  OrderInv'
    OBVIOUS
  <1> USE DEF input
  <1>1. /\ IsFile(file) /\ tables \in Seq(TableParts(file)) /\ chunks \in Seq(ChunksOf(file))
        /\ (pc = "rows" => tables # <<>>)
    BY FileFacts DEF TypeInv
  <1>2. /\ Ascending(tables)
        /\ Range(tables) \subseteq Range(TablesOf(file, format))
        /\ \A c \in Range(chunks) : c.kind = "table" => c.part \notin Range(TablesToCome)
    BY DEF TableInv, OrderInv
  <1>3. tables # <<>> => /\ Ascending(Tail(tables)) /\ Head(tables) \notin Range(Tail(tables))
                         /\ Range(Tail(tables)) \subseteq Range(tables)
    <2>1. Len(file) \in Nat /\ TableParts(file) \in SUBSET Intervals(Len(file))
      BY <1>1 DEF IsFile, TableParts
    <2>2. tables # <<>> => Range(Tail(tables)) \subseteq Range(tables)
      BY <1>1, HeadAndTail
    <2> QED
      BY <1>1, <1>2, <2>1, <2>2, AscendingTail
  <1>4. ASSUME NEW cs \in Seq(ChunksOf(file)), Range(cs) \subseteq Range(chunks), NEW c,
               chunks' = cs \/ chunks' = Append(cs, c),
               c.kind = "table" => c.part \notin Range(TablesToCome'),
               Range(TablesToCome') \subseteq Range(TablesToCome),
               tables' = tables \/ (tables # <<>> /\ tables' = Tail(tables)),
               UNCHANGED <<file, format>>
        PROVE  OrderInv'
    <2>1. Range(Append(cs, c)) = Range(cs) \cup {c}
      BY AppendRange
    <2>2. Ascending(tables') /\ Range(tables') \subseteq Range(TablesOf(file, format)')
      BY <1>2, <1>3, <1>4
    <2>3. ASSUME NEW d \in Range(chunks'), d.kind = "table"
          PROVE  d.part \notin Range(TablesToCome')
      BY <1>2, <1>4, <2>1, <2>3
    <2> QED
      BY <2>2, <2>3 DEF OrderInv
  <1>5. ASSUME NEW cs \in Seq(ChunksOf(file)), Range(cs) \subseteq Range(chunks), NEW c,
               chunks' = Append(cs, c), c.kind = "section",
               pc \in {"sections", "pack"}, pc' \in {"sections", "pack"},
               UNCHANGED <<file, format, tables>>
        PROVE  OrderInv'
    <2>1. TablesToCome = tables /\ TablesToCome' = tables
      BY <1>5 DEF TablesToCome
    <2>2. c.kind # "table"
      BY <1>5
    <2> QED
      BY <1>4, <1>5, <2>1, <2>2
  <1>6. CASE KeepSection
    <2> DEFINE c == [kind |-> "section", part |-> Head(sections),
                     pieces |-> <<Unit(WordsOf(file, Head(sections)), TRUE)>>,
                     size |-> PartLen(file, Head(sections))]
    <2>1. /\ pc = "sections" /\ chunks' = Append(chunks, c)
          /\ UNCHANGED <<file, format, pc, tables>>
      BY <1>6 DEF KeepSection
    <2>2. c.kind = "section"
      OBVIOUS
    <2> HIDE DEF c
    <2> QED
      BY <1>1, <1>5, <2>1, <2>2
  <1>7. CASE CloseChunk
    <2> DEFINE c == ChunkOf("section", Head(sections), pieces, 2)
    <2>1. pc = "pack" /\ chunks' = Append(chunks, c) /\ UNCHANGED <<file, format, pc, tables>>
      BY <1>7 DEF CloseChunk
    <2>2. c.kind = "section"
      BY DEF ChunkOf
    <2> HIDE DEF c
    <2> QED
      BY <1>1, <1>5, <2>1, <2>2
  <1>8. CASE EndSection
    <2> DEFINE p == Head(sections)
               last == ChunkOf("section", p, pieces, 2)
               merged == ChunkOf("section", p, Last(chunks).pieces \o pieces, 2)
    <2>1. /\ pc = "pack" /\ pc' = "sections" /\ UNCHANGED <<file, format, tables>>
          /\ \/ chunks' = Append(chunks, last)
             \/ chunks # <<>> /\ chunks' = Append(Front(chunks), merged)
      BY <1>8 DEF EndSection, InThisPart
    <2>2. last.kind = "section" /\ merged.kind = "section"
      BY DEF ChunkOf
    <2> HIDE DEF last, merged
    <2>3. chunks # <<>> => Front(chunks) \in Seq(ChunksOf(file))
                           /\ Range(Front(chunks)) \subseteq Range(chunks)
      BY <1>1, HeadAndTail
    <2> QED
      BY <1>1, <1>5, <2>1, <2>2, <2>3
  <1>9. CASE SplitSection \/ AddUnit \/ SectionsEnd \/ AddRow \/ FallBack \/ TablesEnd
    <2>1. UNCHANGED <<file, format, chunks, tables>>
      BY <1>9 DEF SplitSection, AddUnit, SectionsEnd, AddRow, FallBack, TablesEnd
    <2>2. TablesToCome' = TablesToCome
      BY <1>9 DEF SplitSection, AddUnit, SectionsEnd, AddRow, FallBack, TablesEnd, TablesToCome
    <2> QED
      BY <1>2, <2>1, <2>2 DEF OrderInv
  <1>10. CASE SkipTable
    <2>1. /\ pc = "tables" /\ tables # <<>> /\ tables' = Tail(tables)
          /\ UNCHANGED <<file, format, pc, chunks>>
      BY <1>10 DEF SkipTable
    <2>2. TablesToCome = tables /\ TablesToCome' = Tail(tables)
      BY <2>1 DEF TablesToCome
    <2> QED
      BY <1>2, <1>3, <2>1, <2>2 DEF OrderInv
  <1>11. CASE KeepTable
    <2> DEFINE c == ChunkOf("table", Head(tables),
                            <<Unit(WordsOf(file, Head(tables)), TRUE)>>, 1)
    <2>1. /\ pc = "tables" /\ tables # <<>> /\ tables' = Tail(tables)
          /\ chunks' = Append(chunks, c) /\ UNCHANGED <<file, format, pc>>
      BY <1>11 DEF KeepTable
    <2>2. TablesToCome = tables /\ TablesToCome' = Tail(tables)
      BY <2>1 DEF TablesToCome
    <2>3. c.part = Head(tables)
      BY DEF ChunkOf
    <2> HIDE DEF c
    <2> QED
      BY <1>1, <1>3, <1>4, <2>1, <2>2, <2>3
  <1>12. CASE SplitTable
    <2>1. pc = "tables" /\ tables # <<>> /\ pc' = "rows" /\ UNCHANGED <<file, format, tables, chunks>>
      BY <1>12 DEF SplitTable
    <2>2. TablesToCome = tables /\ TablesToCome' = Tail(tables)
      BY <2>1 DEF TablesToCome
    <2> QED
      BY <1>2, <1>3, <2>1, <2>2 DEF OrderInv
  <1>13. CASE CloseTableChunk \/ EndTable
    <2>1. /\ pc = "rows" /\ UNCHANGED <<file, format>>
          /\ chunks' = chunks \/ chunks' = Append(chunks, TableChunk)
          /\ \/ pc' = "rows" /\ tables' = tables
             \/ pc' = "tables" /\ tables' = Tail(tables)
      BY <1>13 DEF CloseTableChunk, EndTable
    <2>2. TablesToCome = Tail(tables) /\ TablesToCome' = Tail(tables)
      BY <2>1 DEF TablesToCome
    <2>3. TableChunk.part \notin Range(Tail(tables)) /\ tables # <<>>
      BY <1>1, <1>3, <2>1 DEF TableChunk, ChunkOf
    <2>4. tables' = tables \/ (tables # <<>> /\ tables' = Tail(tables))
      BY <2>1, <2>3
    <2> DEFINE c == TableChunk
    <2> HIDE DEF c
    <2>5. (chunks' = chunks \/ chunks' = Append(chunks, c)) /\ c.part \notin Range(Tail(tables))
      BY <2>1, <2>3 DEF c
    <2> QED
      BY <1>1, <1>4, <2>1, <2>2, <2>4, <2>5
  <1>14. CASE UNCHANGED vars
    BY <1>2, <1>14 DEF vars, OrderInv, TablesToCome
  <1> QED
    BY <1>6, <1>7, <1>8, <1>9, <1>10, <1>11, <1>12, <1>13, <1>14 DEF Next

\* A chunk of the rows at hand has them below the header.
LEMMA ChunkedRows ==
    ASSUME TypeInv, pc = "rows", NEW cs, TableChunk \in Range(cs), NEW r,
           Row(file, r) \in Range(pieces)
    PROVE  RowStands(file, Head(tables), r, cs)
  <1> DEFINE t == Head(tables)
             h == HeaderRows(file, t)
  <1>1. IsFile(file) /\ t \in TableParts(file) /\ pieces \in Seq(Pieces)
    <2>1. tables \in Seq(TableParts(file)) /\ tables # <<>>
      BY DEF TypeInv
    <2> QED
      BY <2>1, HeadAndTail, FileFacts DEF TypeInv
  <1>2. h \in Seq(Pieces) /\ Len(h) = 2
    BY <1>1, RowsFacts
  <1>3. TableChunk.kind = "table" /\ TableChunk.part = t /\ TableChunk.pieces = h \o pieces
    BY DEF TableChunk, ChunkOf
  <1>4. IsPrefix(h, h \o pieces) /\ Tail(Tail(h \o pieces)) = pieces
    <2> HIDE DEF h
    <2> QED
      BY <1>1, <1>2, AfterHeader
  <1> QED
    BY <1>3, <1>4 DEF RowStands

\* Every row of the table is at hand until it is in a chunk.
LEMMA RowNext == TypeInv /\ TableInv /\ [Next]_vars => RowInv'
  <1> SUFFICES ASSUME TypeInv, TableInv, [Next]_vars
               PROVE  RowInv'
    OBVIOUS
  <1> USE DEF input
  <1> DEFINE t == Head(tables)
             body == t.first + 2 .. t.last
  <1>1. /\ IsFile(file) /\ tables \in Seq(TableParts(file)) /\ chunks \in Seq(ChunksOf(file))
        /\ units \in Seq(Pieces) /\ pieces \in Seq(Pieces)
        /\ (pc = "rows" => tables # <<>>)
    BY FileFacts DEF TypeInv
  <1>2. pc = "rows" => PartLen(file, t) > MaxSize /\ \A r \in body : RowIsKept(r)
    BY DEF TableInv, RowInv
  <1>3. units # <<>> => Range(units) = {Head(units)} \cup Range(Tail(units))
    BY <1>1, HeadAndTail
  <1>4. CASE SplitTable
    <2>1. /\ tables # <<>> /\ PartLen(file, t) > MaxSize
          /\ units' = RowsOf(file, t.first + 2, t.last) /\ UNCHANGED <<file, tables>>
      BY <1>4 DEF SplitTable
    <2>2. t \in TableParts(file)
      BY <1>1, <2>1, HeadAndTail
    <2>3. \A r \in body : Row(file, r) \in Range(units')
      BY <1>1, <2>1, <2>2, RowsInside
    <2>4. \A r : Row(file, r)' = Row(file, r)
      BY <2>1
    <2> QED
      BY <2>1, <2>3, <2>4 DEF RowInv, RowIsKept
  <1>5. CASE AddRow
    <2>1. /\ pc = "rows" /\ units # <<>> /\ pieces' = Append(pieces, Head(units))
          /\ units' = Tail(units) /\ UNCHANGED <<file, tables, chunks>>
      BY <1>5 DEF AddRow
    <2>2. Range(pieces') = Range(pieces) \cup {Head(units)}
      BY <1>1, <2>1, AppendRange
    <2>3. \A r : RowIsKept(r)' <=> RowIsKept(r)
      BY <1>3, <2>1, <2>2 DEF RowIsKept
    <2> QED
      BY <1>2, <2>1, <2>3 DEF RowInv
  <1>6. CASE CloseTableChunk
    <2>1. /\ pc = "rows" /\ units # <<>> /\ chunks' = Append(chunks, TableChunk)
          /\ pieces' = <<Head(units)>> /\ units' = Tail(units) /\ UNCHANGED <<file, tables>>
      BY <1>6 DEF CloseTableChunk
    <2>2. Range(chunks') = Range(chunks) \cup {TableChunk}
      BY <1>1, <2>1, AppendRange
    <2>3. Range(pieces') = {Head(units)}
      BY <2>1 DEF Range
    <2>4. ASSUME NEW r \in body
          PROVE  RowIsKept(r)'
      <3>1. CASE Row(file, r) \in Range(pieces)
        <4>1. RowStands(file, t, r, chunks')
          BY <2>1, <2>2, <3>1, ChunkedRows
        <4> QED
          BY <2>1, <4>1 DEF RowIsKept
      <3>2. CASE Row(file, r) \in Range(units)
        <4>1. Row(file, r) \in Range(pieces') \cup Range(units')
          BY <1>3, <2>1, <2>3, <3>2
        <4> QED
          BY <2>1, <4>1 DEF RowIsKept
      <3>3. CASE RowStands(file, t, r, chunks)
        <4>1. RowStands(file, t, r, chunks')
          BY <2>2, <3>3, TableStays
        <4> QED
          BY <2>1, <4>1 DEF RowIsKept
      <3> QED
        BY <1>2, <2>1, <3>1, <3>2, <3>3 DEF RowIsKept
    <2> QED
      BY <1>2, <2>1, <2>4 DEF RowInv
  <1>7. CASE KeepSection \/ SplitSection \/ AddUnit \/ CloseChunk \/ EndSection \/ SectionsEnd
             \/ SkipTable \/ KeepTable \/ EndTable \/ FallBack \/ TablesEnd
    <2>1. pc' # "rows"
      BY <1>7 DEF KeepSection, SplitSection, AddUnit, CloseChunk, EndSection, SectionsEnd,
                  SkipTable, KeepTable, EndTable, FallBack, TablesEnd
    <2> QED
      BY <2>1 DEF RowInv
  <1>8. CASE UNCHANGED vars
    <2>1. UNCHANGED <<file, pc, tables, units, pieces, chunks>>
      BY <1>8 DEF vars
    <2>2. \A r : RowIsKept(r)' <=> RowIsKept(r)
      BY <2>1 DEF RowIsKept
    <2> QED
      BY <1>2, <2>1, <2>2 DEF RowInv
  <1> QED
    BY <1>4, <1>5, <1>6, <1>7, <1>8 DEF Next

\* A table leaves the tables to come when it is in the chunks.
LEMMA AccountNext == TypeInv /\ TableInv /\ [Next]_vars => AccountInv'
  <1> SUFFICES ASSUME TypeInv, TableInv, [Next]_vars
               PROVE  AccountInv'
    OBVIOUS
  <1> USE DEF input
  <1> DEFINE All == Range(TablesOf(file, format))
             t == Head(tables)
  <1>1. /\ IsFile(file) /\ tables \in Seq(TableParts(file)) /\ chunks \in Seq(ChunksOf(file))
        /\ units \in Seq(Pieces) /\ pieces \in Seq(Pieces)
        /\ (pc = "rows" => tables # <<>>)
    BY FileFacts DEF TypeInv
  <1>2. /\ fallback => \A s \in All : TableDone(file, s, <<>>)
        /\ ~ fallback /\ pc \in {"sections", "pack"} => Range(tables) = All
        /\ ~ fallback /\ pc \notin {"sections", "pack"} =>
              /\ pc = "done" => tables = <<>>
              /\ \A s \in All : s \in Range(tables) \/ TableDone(file, s, chunks)
    BY DEF TableInv, AccountInv
  <1>3. tables # <<>> => Range(tables) = {t} \cup Range(Tail(tables)) /\ t \in All
    <2>1. tables # <<>> => Range(tables) = {t} \cup Range(Tail(tables))
      BY <1>1, HeadAndTail
    <2> QED
      BY <2>1 DEF TableInv, OrderInv
  <1>4. ASSUME fallback, UNCHANGED <<file, format, fallback>>
        PROVE  AccountInv'
    BY <1>2, <1>4 DEF AccountInv
  <1>5. ASSUME ~ fallback, pc \in {"sections", "pack"}, pc' \in {"sections", "pack"},
               UNCHANGED <<file, format, fallback, tables>>
        PROVE  AccountInv'
    BY <1>2, <1>5 DEF AccountInv
  <1>6. ASSUME ~ fallback, pc \notin {"sections", "pack"}, pc' \notin {"sections", "pack"},
               pc' = "done" => tables' = <<>>,
               UNCHANGED <<file, format, fallback>>, Range(chunks) \subseteq Range(chunks'),
               tables' = tables \/ (tables # <<>> /\ tables' = Tail(tables)
                                    /\ TableDone(file, t, chunks'))
        PROVE  AccountInv'
    <2>1. \A s \in All : TableDone(file, s, chunks) => TableDone(file, s, chunks')
      BY <1>6, TableStays
    <2>2. \A s \in All : s \in Range(tables') \/ TableDone(file, s, chunks')
      BY <1>2, <1>3, <1>6, <2>1
    <2> QED
      BY <1>6, <2>2 DEF AccountInv
  <1>7. CASE KeepSection \/ SplitSection \/ AddUnit \/ CloseChunk \/ EndSection
    <2>1. pc \in {"sections", "pack"} /\ pc' \in {"sections", "pack"}
          /\ UNCHANGED <<file, format, fallback, tables>>
      BY <1>7 DEF KeepSection, SplitSection, AddUnit, CloseChunk, EndSection
    <2> QED
      BY <1>4, <1>5, <2>1
  <1>8. CASE SectionsEnd
    <2>1. /\ pc = "sections" /\ pc' = (IF fallback THEN "done" ELSE "tables")
          /\ UNCHANGED <<file, format, fallback, tables, chunks>>
      BY <1>8 DEF SectionsEnd
    <2>2. CASE ~ fallback
      <3>1. Range(tables') = All
        BY <1>2, <2>1, <2>2
      <3> QED
        BY <2>1, <2>2, <3>1 DEF AccountInv
    <2> QED
      BY <1>4, <2>1, <2>2
  <1>9. CASE SkipTable
    <2>1. /\ pc = "tables" /\ tables # <<>> /\ AlreadyInChunks(file, t)
          /\ tables' = Tail(tables) /\ UNCHANGED <<file, format, pc, fallback, chunks>>
      BY <1>9 DEF SkipTable
    <2>2. PICK i \in DOMAIN chunks : \E j \in DOMAIN chunks[i].pieces :
             /\ chunks[i].pieces[j].verbatim
             /\ Range(WordsOf(file, t)) \subseteq Range(chunks[i].pieces[j].words)
      BY <2>1 DEF AlreadyInChunks
    <2> DEFINE c == chunks[i]
    <2>3. c \in Range(chunks) /\ c \in ChunksOf(file)
      BY <1>1 DEF Range
    <2>4. PICK p \in Range(c.pieces) :
             p.verbatim /\ Range(WordsOf(file, t)) \subseteq Range(p.words)
      BY <2>2 DEF Range
    <2>5. /\ Proper(file, format, c) /\ c.kind \in {"section", "table"}
          /\ c.kind = "table" => c.part \notin Range(tables)
      <3>1. TablesToCome = tables
        BY <2>1 DEF TablesToCome
      <3> QED
        BY <2>3, <3>1 DEF TableInv, ContentInv, OrderInv, ChunksOf
    <2>6. c.kind = "table" => c.part # t
      BY <1>3, <2>1, <2>5
    <2> HIDE DEF c, t
    <2>7. TableDone(file, t, chunks)
      BY <1>1, <1>3, <2>1, <2>3, <2>4, <2>5, <2>6, FoundTable
    <2> QED
      BY <1>4, <1>6, <2>1, <2>7 DEF t
  <1>10. CASE KeepTable
    <2> DEFINE ws == WordsOf(file, t)
               u == Unit(ws, TRUE)
               c == ChunkOf("table", t, <<u>>, 1)
    <2>1. /\ pc = "tables" /\ tables # <<>> /\ PartLen(file, t) <= MaxSize
          /\ chunks' = Append(chunks, c)
          /\ tables' = Tail(tables) /\ UNCHANGED <<file, format, pc, fallback>>
      BY <1>10 DEF KeepTable
    <2>2. c.pieces = <<u>> /\ u.words = ws /\ u.verbatim
      BY DEF ChunkOf, Unit
    <2>3. \E a, b \in DOMAIN ws : SubSeq(ws, a, b) = ws
      <3>1. ws \in Texts
        <4>1. t \in TableParts(file)
          BY <1>1, <2>1, HeadAndTail
        <4> QED
          BY <1>1, <4>1, TableLen
      <3> HIDE DEF ws
      <3>2. ws \in Seq(Occurrence) /\ ws # <<>>
        BY <3>1 DEF Texts
      <3>3. SubSeq(ws, 1, Len(ws)) = ws
        BY <3>2, WholePrefix
      <3>4. 1 \in DOMAIN ws /\ Len(ws) \in DOMAIN ws
        BY <3>2
      <3> QED
        BY <3>3, <3>4
    <2> HIDE DEF u, c
    <2>4. Range(chunks') = Range(chunks) \cup {c}
      BY <1>1, <2>1, AppendRange
    <2>5. u \in Range(c.pieces)
      BY <2>2 DEF Range
    <2>6. StandsWhole(file, t, chunks')
      BY <2>2, <2>3, <2>4, <2>5 DEF StandsWhole
    <2>7. TableDone(file, t, chunks')
      BY <2>1, <2>6 DEF TableDone
    <2>8. Range(chunks) \subseteq Range(chunks')
      BY <2>4
    <2> HIDE DEF t
    <2> QED
      BY <1>4, <1>6, <2>1, <2>7, <2>8 DEF t
  <1>11. CASE SplitTable \/ AddRow \/ TablesEnd
    <2>1. /\ pc \notin {"sections", "pack"} /\ pc' \notin {"sections", "pack"}
          /\ pc' = "done" => tables' = <<>>
          /\ UNCHANGED <<file, format, fallback, tables, chunks>>
      BY <1>11 DEF SplitTable, AddRow, TablesEnd
    <2> QED
      BY <1>4, <1>6, <2>1
  <1>12. CASE CloseTableChunk
    <2>1. /\ pc = "rows" /\ chunks' = Append(chunks, TableChunk)
          /\ UNCHANGED <<file, format, pc, fallback, tables>>
      BY <1>12 DEF CloseTableChunk
    <2>2. Range(chunks) \subseteq Range(chunks')
      BY <1>1, <2>1, AppendRange
    <2> QED
      BY <1>4, <1>6, <2>1, <2>2
  <1>13. CASE EndTable
    <2>1. /\ pc = "rows" /\ pc' = "tables" /\ units = <<>> /\ tables' = Tail(tables)
          /\ chunks' = IF pieces = <<>> THEN chunks ELSE Append(chunks, TableChunk)
          /\ UNCHANGED <<file, format, fallback>>
      BY <1>13 DEF EndTable
    <2>2. Range(chunks) \subseteq Range(chunks')
          /\ (pieces # <<>> => TableChunk \in Range(chunks'))
      <3>1. Range(Append(chunks, TableChunk)) = Range(chunks) \cup {TableChunk}
        BY <1>1, AppendRange
      <3> QED
        BY <2>1, <3>1
    <2>3. PartLen(file, t) > MaxSize /\ \A r \in t.first + 2 .. t.last : RowIsKept(r)
      BY <2>1 DEF TableInv, RowInv
    <2>4. ASSUME NEW r \in t.first + 2 .. t.last
          PROVE  RowStands(file, t, r, chunks')
      <3>1. Range(units) = {}
        BY <2>1 DEF Range
      <3>2. CASE Row(file, r) \in Range(pieces)
        <4>1. pieces # <<>>
          BY <3>2 DEF Range
        <4> QED
          BY <2>1, <2>2, <3>2, <4>1, ChunkedRows
      <3>3. CASE RowStands(file, t, r, chunks)
        BY <2>2, <3>3, TableStays
      <3> QED
        BY <2>3, <3>1, <3>2, <3>3 DEF RowIsKept
    <2>5. TableDone(file, t, chunks')
      <3>1. ~ (PartLen(file, t) <= MaxSize)
        <4>1. PartLen(file, t) \in Nat /\ MaxSize \in Nat
          <5>1. t \in TableParts(file)
            BY <1>1, <2>1, HeadAndTail
          <5> QED
            BY <1>1, <5>1, TableLen, ChunkerAssumption
        <4> DEFINE l == PartLen(file, t)
        <4>2. l \in Nat /\ MaxSize \in Nat /\ l > MaxSize
          BY <2>3, <4>1
        <4> HIDE DEF l
        <4>3. ~ (l <= MaxSize)
          BY ONLY <4>2
        <4> QED
          BY <4>3 DEF l
      <3> QED
        BY <2>4, <3>1 DEF TableDone
    <2>6. tables # <<>>
      BY <1>1, <2>1
    <2> HIDE DEF t
    <2>7. pc \notin {"sections", "pack"} /\ pc' \notin {"sections", "pack"}
      BY <2>1
    <2> QED
      BY <1>4, <1>6, <2>1, <2>2, <2>5, <2>6, <2>7 DEF t
  <1>14. CASE FallBack
    <2>1. /\ pc = "tables" /\ tables = <<>> /\ chunks = <<>> /\ fallback' = TRUE
          /\ UNCHANGED <<file, format>>
      BY <1>14 DEF FallBack
    <2>2. Range(tables) = {}
      BY <2>1 DEF Range
    <2>3. \A s \in All : TableDone(file, s, <<>>)
      BY <1>2, <2>1, <2>2
    <2> QED
      BY <2>1, <2>3 DEF AccountInv
  <1>15. CASE UNCHANGED vars
    BY <1>15 DEF vars, TableInv, AccountInv
  <1> QED
    BY <1>7, <1>8, <1>9, <1>10, <1>11, <1>12, <1>13, <1>14, <1>15 DEF Next

\* Whatever sections a table runs through and wherever they are split, when all is chunked a
\* table within MaxSize stands whole in a chunk, and each row of a larger one under its header:
\* "already in the chunks" finds a table only where it stands in one piece.
THEOREM TablesStandWhole == Spec => []TablesAreWhole
  <1>1. TypeInv /\ TableInv => TablesAreWhole
    <2> SUFFICES ASSUME TypeInv, TableInv, pc = "done", NEW t \in Range(TablesOf(file, format))
                 PROVE  /\ PartLen(file, t) <= MaxSize =>
                              \E i \in DOMAIN chunks : \E j \in DOMAIN chunks[i].pieces :
                                 /\ chunks[i].pieces[j].verbatim
                                 /\ \E a, b \in DOMAIN chunks[i].pieces[j].words :
                                       SubSeq(chunks[i].pieces[j].words, a, b) = WordsOf(file, t)
                        /\ ~ (PartLen(file, t) <= MaxSize) =>
                              \A r \in t.first + 2 .. t.last :
                                 \E i \in DOMAIN chunks :
                                    /\ chunks[i].kind = "table" /\ chunks[i].part = t
                                    /\ IsPrefix(HeaderRows(file, t), chunks[i].pieces)
                                    /\ Unit(Occurrences(file, r), TRUE)
                                          \in Range(Tail(Tail(chunks[i].pieces)))
      BY DEF TablesAreWhole
    <2>1. TableDone(file, t, chunks)
      <3>1. Range(<<>>) = {}
        BY DEF Range
      <3>2. CASE fallback
        <4>1. TableDone(file, t, <<>>)
          BY <3>2 DEF TableInv, AccountInv
        <4> QED
          BY <3>1, <4>1, TableStays
      <3>3. CASE ~ fallback
        <4>1. tables = <<>> /\ (t \in Range(tables) \/ TableDone(file, t, chunks))
          BY <3>3 DEF TableInv, AccountInv
        <4> QED
          BY <3>1, <4>1
      <3> QED
        BY <3>2, <3>3
    <2>2. CASE PartLen(file, t) <= MaxSize
      <3>1. StandsWhole(file, t, chunks)
        BY <2>1, <2>2 DEF TableDone
      <3>2. PICK c \in Range(chunks) : \E p \in Range(c.pieces) :
               p.verbatim /\ \E a, b \in DOMAIN p.words : SubSeq(p.words, a, b) = WordsOf(file, t)
        BY <3>1 DEF StandsWhole
      <3>3. PICK p \in Range(c.pieces) :
               p.verbatim /\ \E a, b \in DOMAIN p.words : SubSeq(p.words, a, b) = WordsOf(file, t)
        BY <3>2
      <3>4. PICK i \in DOMAIN chunks : c = chunks[i]
        BY DEF Range
      <3>5. PICK j \in DOMAIN c.pieces : p = c.pieces[j]
        BY DEF Range
      <3>6. /\ i \in DOMAIN chunks /\ j \in DOMAIN chunks[i].pieces /\ chunks[i].pieces[j].verbatim
            /\ \E a, b \in DOMAIN chunks[i].pieces[j].words :
                  SubSeq(chunks[i].pieces[j].words, a, b) = WordsOf(file, t)
        BY <3>3, <3>4, <3>5
      <3> QED
        BY <2>2, <3>6
    <2>3. CASE ~ (PartLen(file, t) <= MaxSize)
      <3>1. \A r \in t.first + 2 .. t.last : RowStands(file, t, r, chunks)
        BY <2>1, <2>3 DEF TableDone
      <3>2. \A c \in Range(chunks) : \E i \in DOMAIN chunks : c = chunks[i]
        BY DEF Range
      <3>3. ASSUME NEW r \in t.first + 2 .. t.last
            PROVE  \E i \in DOMAIN chunks :
                      /\ chunks[i].kind = "table" /\ chunks[i].part = t
                      /\ IsPrefix(HeaderRows(file, t), chunks[i].pieces)
                      /\ Unit(Occurrences(file, r), TRUE) \in Range(Tail(Tail(chunks[i].pieces)))
        <4>1. PICK c \in Range(chunks) :
                 /\ c.kind = "table" /\ c.part = t
                 /\ IsPrefix(HeaderRows(file, t), c.pieces)
                 /\ Row(file, r) \in Range(Tail(Tail(c.pieces)))
          BY <3>1 DEF RowStands
        <4>2. PICK i \in DOMAIN chunks : c = chunks[i]
          BY <3>2
        <4>3. /\ chunks[i].kind = "table" /\ chunks[i].part = t
              /\ IsPrefix(HeaderRows(file, t), chunks[i].pieces)
              /\ Unit(Occurrences(file, r), TRUE) \in Range(Tail(Tail(chunks[i].pieces)))
          BY <4>1, <4>2 DEF Row
        <4> QED
          BY <4>3
      <3> QED
        BY <2>3, <3>3
    <2> QED
      BY <2>2, <2>3
  <1>2. TypeInv /\ AdvanceInv /\ TableInv /\ [Next]_vars => TableInv'
    BY ContentNext, OrderNext, RowNext, AccountNext DEF TableInv
  <1> QED
    BY <1>1, <1>2, TypeInit, TypeNext, AdvanceInit, AdvanceNext, TableInit, PTL DEF Spec
==============================================================================
