---------------------------- MODULE ChunkerProofs ----------------------------
(***************************************************************************)
(* Theorems about Chunker, for every file and every choice of the sizes.   *)
(* First what its operators compute: sums, intervals in order, sentences,  *)
(* groups of words and units.  Then two invariants of the packing: one     *)
(* about sizes and one about the words that are still to come.             *)
(***************************************************************************)
EXTENDS Chunker, FoldLemmas

-----------------------------------------------------------------------------
(* Sums. *)

\* A sum is made by adding one number after the other.
LEMMA TotalRun ==
    ASSUME NEW s \in Seq(Int)
    PROVE  \E g \in [0 .. Len(s) -> Int] :
              /\ g[0] = 0
              /\ \A i \in 1 .. Len(s) : g[i] = g[i - 1] + s[i]
              /\ Total(s) = g[Len(s)]
  <1> DEFINE n == Len(s)
             f == [i \in 1 .. n |-> [x \in Int |-> x + s[i]]]
             IsSum(h) == h = [S \in SUBSET (1 .. n) |->
                                IF S = {} THEN 0 ELSE h[S \ {Max(S)}] + s[Max(S)]]
             sum == CHOOSE h : IsSum(h)
  <1>1. n \in Nat /\ DOMAIN s = 1 .. n /\ \A i \in 1 .. n : s[i] \in Int
    OBVIOUS
  <1>2. Total(s) = sum[1 .. n]
    BY <1>1 DEF Total, FoldLeft, MapThenFoldSet
  <1>3. \E h : IsSum(h)
    <2>1. f \in [1 .. n -> [Int -> Int]]
      BY <1>1
    <2>2. PICK h \in FoldsOver(Int, 0, n, f) : TRUE
      <3>1. n \in Nat /\ 0 \in Int
        BY <1>1
      <3> HIDE DEF n, f
      <3>2. FoldsOver(Int, 0, n, f) # {}
        BY ONLY <2>1, <3>1, FoldExists
      <3> QED
        BY <3>2
    <2>3. /\ h \in [SUBSET (1 .. n) -> Int]
          /\ \A S \in SUBSET (1 .. n) :
                h[S] = IF S = {} THEN 0 ELSE f[Max(S)][h[S \ {Max(S)}]]
      BY <2>2 DEF FoldsOver
    <2>4. ASSUME NEW S \in SUBSET (1 .. n), S # {}
          PROVE  f[Max(S)][h[S \ {Max(S)}]] = h[S \ {Max(S)}] + s[Max(S)]
      <3>1. Max(S) \in 1 .. n
        <4> HIDE DEF n, f
        <4> QED
          BY <1>1, <2>4, GreatestPosition
      <3>2. h[S \ {Max(S)}] \in Int
        BY <2>3
      <3> HIDE DEF n
      <3> QED
        BY <3>1, <3>2
    <2> HIDE DEF f, n
    <2>5. IsSum(h)
      BY <2>3, <2>4
    <2> QED
      BY <2>5
  <1>4. IsSum(sum)
    <2> HIDE DEF IsSum
    <2> QED
      BY <1>3
  <1> DEFINE g == [i \in 0 .. n |-> sum[1 .. i]]
  <1>5. g[0] = 0
    <2>1. 1 .. 0 = {} /\ {} \in SUBSET (1 .. n) /\ 0 \in 0 .. n
      BY <1>1
    <2>2. sum[{}] = 0
      <3> HIDE DEF sum, n
      <3> QED
        BY <1>4, <2>1
    <2> HIDE DEF sum, n
    <2> QED
      BY <2>1, <2>2
  <1>6. ASSUME NEW i \in 1 .. n
        PROVE  g[i] = g[i - 1] + s[i]
    <2>1. i \in 0 .. n /\ i - 1 \in 0 .. n
      BY <1>1
    <2> HIDE DEF sum, n
    <2>2. /\ (1 .. i) \in SUBSET (1 .. n) /\ 1 .. i # {}
          /\ Max(1 .. i) = i
          /\ (1 .. i) \ {i} = 1 .. i - 1
      BY <1>1, FoldOrder
    <2>3. sum[1 .. i] = sum[1 .. i - 1] + s[i]
      BY <1>4, <2>2
    <2> QED
      BY <2>1, <2>3
  <1>7. g \in [0 .. n -> Int]
    <2> HIDE DEF sum
    <2> DEFINE Good == {i \in 0 .. n : g[i] \in Int}
    <2>1. 0 \in Good
      BY <1>1, <1>5
    <2>2. ASSUME NEW i \in 1 .. n, i - 1 \in Good
          PROVE  i \in Good
      <3>1. i \in 0 .. n
        BY <1>1
      <3> HIDE DEF g, n
      <3> QED
        BY <1>1, <1>6, <2>2, <3>1
    <2>3. \A i \in 0 .. n : i \in Good
      <3> HIDE DEF Good, n
      <3> QED
        BY <1>1, <2>1, <2>2, IntervalInduction
    <2> QED
      BY <2>3
  <1>8. Total(s) = g[n]
    BY <1>1, <1>2
  <1> HIDE DEF g, n
  <1> QED
    BY <1>5, <1>6, <1>7, <1>8 DEF n

\* The sum of no numbers.
LEMMA TotalEmpty == Total(<<>>) = 0
  <1>1. <<>> \in Seq(Int) /\ Len(<<>>) = 0
    OBVIOUS
  <1> QED
    BY <1>1, TotalRun

\* A sum over a longer sequence.
LEMMA TotalAppend ==
    ASSUME NEW s \in Seq(Int), NEW x \in Int
    PROVE  /\ Total(s) \in Int
           /\ Total(Append(s, x)) = Total(s) + x
  <1> DEFINE n == Len(s)
             t == Append(s, x)
             m == Len(t)
  <1>1. n \in Nat /\ t \in Seq(Int) /\ m = n + 1 /\ t[m] = x /\ \A i \in 1 .. n : t[i] = s[i]
    OBVIOUS
  <1>2. PICK g \in [0 .. n -> Int] :
            /\ g[0] = 0 /\ \A i \in 1 .. n : g[i] = g[i - 1] + s[i]
            /\ Total(s) = g[n]
    BY TotalRun
  <1> HIDE DEF t
  <1>3. PICK h \in [0 .. m -> Int] :
            /\ h[0] = 0 /\ \A i \in 1 .. m : h[i] = h[i - 1] + t[i]
            /\ Total(t) = h[m]
    BY <1>1, TotalRun
  <1> HIDE DEF n, m
  <1> DEFINE Good == {i \in 0 .. n : g[i] = h[i]}
  <1>4. 0 \in Good
    BY <1>1, <1>2, <1>3
  <1>5. ASSUME NEW i \in 1 .. n, i - 1 \in Good
        PROVE  i \in Good
    <2>1. i \in 0 .. n /\ i \in 1 .. m
      BY <1>1
    <2> QED
      BY <1>1, <1>2, <1>3, <1>5, <2>1
  <1>6. n \in 0 .. n
    BY <1>1
  <1>7. n \in Good
    <2> HIDE DEF Good
    <2> QED
      BY <1>1, <1>4, <1>5, <1>6, IntervalInduction
  <1>8. h[m] = h[n] + x
    <2>1. m \in 1 .. m /\ m - 1 = n
      BY <1>1
    <2> QED
      BY <1>1, <1>3, <2>1
  <1>9. g[n] \in Int
    BY <1>2, <1>6
  <1> QED
    BY <1>2, <1>3, <1>7, <1>8, <1>9 DEF t

\* A sum of positive numbers is at least as great as their number.
LEMMA TotalIsAtLeast ==
    ASSUME NEW s \in Seq(Nat \ {0})
    PROVE  Total(s) \in Nat /\ Total(s) >= Len(s)
  <1> DEFINE n == Len(s)
  <1>1. n \in Nat /\ \A i \in 1 .. n : s[i] \in Nat /\ s[i] > 0
    OBVIOUS
  <1>2. s \in Seq(Int)
    OBVIOUS
  <1>3. PICK g \in [0 .. n -> Int] :
            /\ g[0] = 0 /\ \A i \in 1 .. n : g[i] = g[i - 1] + s[i]
            /\ Total(s) = g[n]
    BY <1>2, TotalRun
  <1> HIDE DEF n
  <1> DEFINE Good == {i \in 0 .. n : g[i] >= i}
  <1>4. 0 \in Good
    BY <1>1, <1>3
  <1>5. ASSUME NEW i \in 1 .. n, i - 1 \in Good
        PROVE  i \in Good
    <2> DEFINE a == g[i - 1]
               b == g[i]
               c == s[i]
    <2>1. i - 1 \in 0 .. n /\ i \in 0 .. n
      BY <1>1
    <2>2. a \in Int /\ b \in Int /\ c \in Nat /\ c > 0 /\ b = a + c /\ a >= i - 1
      BY <1>1, <1>3, <1>5, <2>1
    <2> HIDE DEF a, b, c
    <2>3. b >= i
      BY <2>2
    <2> QED
      BY <2>1, <2>3 DEF b
  <1>6. n \in 0 .. n
    BY <1>1
  <1>7. n \in Good
    <2> HIDE DEF Good
    <2> QED
      BY <1>1, <1>4, <1>5, <1>6, IntervalInduction
  <1>8. g[n] \in Int /\ g[n] >= n
    BY <1>6, <1>7
  <1> QED
    BY <1>1, <1>3, <1>8 DEF n

-----------------------------------------------------------------------------
(* Lengths. *)

Texts == Seq(Occurrence) \ {<<>>}
Pieces == [words : Texts, verbatim : BOOLEAN]

\* The lengths of words are positive numbers, one for each.
LEMMA TextLens ==
    ASSUME NEW words \in Seq(Occurrence)
    PROVE  /\ [i \in DOMAIN words |-> words[i].len] \in Seq(Nat \ {0})
           /\ Len([i \in DOMAIN words |-> words[i].len]) = Len(words)
  <1>1. \A i \in DOMAIN words : words[i].len \in Nat \ {0}
    <2>1. \A i \in DOMAIN words : words[i] \in Occurrence
      OBVIOUS
    <2>2. \A w \in Occurrence : w.len \in Nat \ {0}
      BY DEF Occurrence
    <2> QED
      BY <2>1, <2>2
  <1> QED
    BY <1>1

\* A text is at least as long as its words are many, and each adds its length and one.
LEMMA TextLenFacts ==
    ASSUME NEW words \in Seq(Occurrence)
    PROVE  /\ TextLen(words) \in Int
           /\ words # <<>> => TextLen(words) \in Nat \ {0}
           /\ \A w \in Occurrence :
                 /\ TextLen(<<w>>) = w.len
                 /\ TextLen(Append(words, w)) = TextLen(words) + w.len + 1
  <1> DEFINE lens == [i \in DOMAIN words |-> words[i].len]
             n == Len(words)
             sum == Total(lens)
  <1>1. lens \in Seq(Nat \ {0}) /\ Len(lens) = n /\ n \in Nat
    BY TextLens
  <1>2. sum \in Nat /\ sum >= n /\ lens \in Seq(Int)
    <2> HIDE DEF lens, n
    <2>1. lens \in Seq(Int)
      BY <1>1
    <2> QED
      BY <1>1, <2>1, TotalIsAtLeast
  <1>3. TextLen(words) = sum + n - 1
    BY DEF TextLen
  <1>4. words # <<>> => n > 0
    OBVIOUS
  <1>5. ASSUME NEW w \in Occurrence
        PROVE  /\ TextLen(<<w>>) = w.len
               /\ TextLen(Append(words, w)) = TextLen(words) + w.len + 1
    <2> DEFINE more == Append(words, w)
               all == [i \in DOMAIN more |-> more[i].len]
               one == [i \in DOMAIN <<w>> |-> <<w>>[i].len]
    <2>1. w.len \in Int
      BY DEF Occurrence
    <2>2. all = Append(lens, w.len) /\ Len(more) = n + 1
      <3>1. more \in Seq(Occurrence) /\ Len(more) = n + 1 /\ DOMAIN more = 1 .. n + 1
        OBVIOUS
      <3>2. \A i \in 1 .. n + 1 : more[i] = IF i = n + 1 THEN w ELSE words[i]
        OBVIOUS
      <3>3. DOMAIN words = 1 .. n
        OBVIOUS
      <3>4. Append(lens, w.len) \in Seq(Int) /\ Len(Append(lens, w.len)) = n + 1
            /\ \A i \in 1 .. n + 1 : Append(lens, w.len)[i] = IF i = n + 1 THEN w.len ELSE lens[i]
        <4> HIDE DEF lens, n
        <4> QED
          BY <1>1, <1>2, <2>1
      <3>5. all \in Seq(Int) /\ Len(all) = n + 1
        <4> HIDE DEF more
        <4>1. all \in Seq(Nat \ {0}) /\ Len(all) = n + 1
          BY <3>1, TextLens
        <4> HIDE DEF all
        <4> QED
          BY <4>1
      <3>6. \A i \in 1 .. n + 1 : all[i] = Append(lens, w.len)[i]
        <4>1. \A i \in 1 .. n + 1 : all[i] = more[i].len
          BY <3>1
        <4>2. \A i \in 1 .. n + 1 : i # n + 1 => lens[i] = words[i].len
          BY <1>1, <3>3
        <4> HIDE DEF lens, more, all
        <4> QED
          BY <3>2, <3>4, <4>1, <4>2
      <3> HIDE DEF lens, all, n
      <3> QED
        BY <1>1, <3>1, <3>4, <3>5, <3>6
    <2>3. Total(all) = sum + w.len
      <3> HIDE DEF all, lens
      <3> QED
        BY <1>2, <2>1, <2>2, TotalAppend
    <2>4. TextLen(more) = Total(all) + Len(more) - 1
      BY DEF TextLen
    <2>5. one = Append(<<>>, w.len)
      OBVIOUS
    <2>6. Total(one) = w.len
      <3>1. Total(Append(<<>>, w.len)) = Total(<<>>) + w.len
        <4>1. <<>> \in Seq(Int)
          OBVIOUS
        <4> QED
          BY <2>1, <4>1, TotalAppend
      <3> HIDE DEF one
      <3> QED
        BY <2>1, <2>5, <3>1, TotalEmpty
    <2>7. TextLen(<<w>>) = Total(one) + 1 - 1
      BY DEF TextLen
    <2> HIDE DEF sum, n, all, one, lens
    <2> QED
      BY <1>1, <1>2, <1>3, <2>1, <2>2, <2>3, <2>4, <2>6, <2>7
  <1> HIDE DEF sum, n, lens
  <1> QED
    BY <1>1, <1>2, <1>3, <1>4, <1>5

\* The lengths of pieces are positive numbers, one for each.
LEMMA PieceLens ==
    ASSUME NEW ps \in Seq(Pieces)
    PROVE  /\ [i \in DOMAIN ps |-> UnitLen(ps[i])] \in Seq(Nat \ {0})
           /\ Len([i \in DOMAIN ps |-> UnitLen(ps[i])]) = Len(ps)
  <1>1. \A p \in Pieces : UnitLen(p) \in Nat \ {0}
    BY TextLenFacts DEF UnitLen, Pieces, Texts
  <1>2. \A i \in DOMAIN ps : ps[i] \in Pieces
    OBVIOUS
  <1> QED
    BY <1>1, <1>2

\* What joining pieces comes to, and one more of them.
LEMMA JoinLenFacts ==
    ASSUME NEW ps \in Seq(Pieces), NEW sep \in {0, 1, 2}
    PROVE  /\ SumLen(ps) \in Nat /\ SumLen(ps) >= Len(ps)
           /\ JoinLen(ps, sep) = SumLen(ps) + (Len(ps) - 1) * sep
           /\ ps # <<>> => JoinLen(ps, sep) \in Nat \ {0}
           /\ \A p \in Pieces :
                 /\ UnitLen(p) \in Nat \ {0}
                 /\ JoinLen(<<p>>, sep) = UnitLen(p)
                 /\ JoinLen(Append(ps, p), sep) = SumLen(ps) + UnitLen(p) + Len(ps) * sep
  <1> DEFINE lens == [i \in DOMAIN ps |-> UnitLen(ps[i])]
             n == Len(ps)
             sum == Total(lens)
  <1>1. lens \in Seq(Nat \ {0}) /\ Len(lens) = n /\ n \in Nat
    BY PieceLens
  <1>2. sum \in Nat /\ sum >= n /\ lens \in Seq(Int)
    <2> HIDE DEF lens, n
    <2>1. lens \in Seq(Int)
      BY <1>1
    <2> QED
      BY <1>1, <2>1, TotalIsAtLeast
  <1>3. SumLen(ps) = sum /\ JoinLen(ps, sep) = sum + (n - 1) * sep
    <2>1. SumLen(ps) = sum + (n - 1) * 0
      BY DEF SumLen, JoinLen
    <2>2. JoinLen(ps, sep) = sum + (n - 1) * sep
      BY DEF JoinLen
    <2> HIDE DEF sum, n
    <2> QED
      BY <1>1, <1>2, <2>1, <2>2
  <1>4. ps # <<>> => n > 0
    OBVIOUS
  <1>5. ps # <<>> => JoinLen(ps, sep) \in Nat \ {0}
    <2> HIDE DEF sum, n
    <2>1. sep = 0 \/ sep = 1 \/ sep = 2
      OBVIOUS
    <2> QED
      BY <1>1, <1>2, <1>3, <1>4, <2>1
  <1>6. ASSUME NEW p \in Pieces
        PROVE  /\ UnitLen(p) \in Nat \ {0}
               /\ JoinLen(<<p>>, sep) = UnitLen(p)
               /\ JoinLen(Append(ps, p), sep) = SumLen(ps) + UnitLen(p) + Len(ps) * sep
    <2> DEFINE more == Append(ps, p)
               all == [i \in DOMAIN more |-> UnitLen(more[i])]
               one == [i \in DOMAIN <<p>> |-> UnitLen(<<p>>[i])]
               len == UnitLen(p)
    <2>1. len \in Nat \ {0} /\ len \in Int
      BY TextLenFacts DEF UnitLen, Pieces, Texts
    <2>2. all = Append(lens, len) /\ Len(more) = n + 1
      <3>1. more \in Seq(Pieces) /\ Len(more) = n + 1 /\ DOMAIN more = 1 .. n + 1
        OBVIOUS
      <3>2. \A i \in 1 .. n + 1 : more[i] = IF i = n + 1 THEN p ELSE ps[i]
        OBVIOUS
      <3>3. DOMAIN ps = 1 .. n
        OBVIOUS
      <3>4. Append(lens, len) \in Seq(Int) /\ Len(Append(lens, len)) = n + 1
            /\ \A i \in 1 .. n + 1 : Append(lens, len)[i] = IF i = n + 1 THEN len ELSE lens[i]
        <4> HIDE DEF lens, n, len
        <4> QED
          BY <1>1, <1>2, <2>1
      <3>5. all \in Seq(Int) /\ Len(all) = n + 1
        <4> HIDE DEF more
        <4>1. all \in Seq(Nat \ {0}) /\ Len(all) = n + 1
          BY <3>1, PieceLens
        <4> HIDE DEF all
        <4> QED
          BY <4>1
      <3>6. \A i \in 1 .. n + 1 : all[i] = Append(lens, len)[i]
        <4>1. \A i \in 1 .. n + 1 : all[i] = UnitLen(more[i])
          BY <3>1
        <4>2. \A i \in 1 .. n + 1 : i # n + 1 => lens[i] = UnitLen(ps[i])
          BY <1>1, <3>3
        <4> HIDE DEF lens, more, all
        <4> QED
          BY <3>2, <3>4, <4>1, <4>2
      <3> HIDE DEF lens, all, n, len
      <3> QED
        BY <1>1, <3>1, <3>4, <3>5, <3>6
    <2>3. Total(all) = sum + len
      <3> HIDE DEF all, lens, len
      <3> QED
        BY <1>2, <2>1, <2>2, TotalAppend
    <2>4. JoinLen(more, sep) = Total(all) + (Len(more) - 1) * sep
      BY DEF JoinLen
    <2>5. one = Append(<<>>, len)
      OBVIOUS
    <2>6. Total(one) = len
      <3>1. Total(Append(<<>>, len)) = Total(<<>>) + len
        <4>1. <<>> \in Seq(Int)
          OBVIOUS
        <4> HIDE DEF len
        <4> QED
          BY <2>1, <4>1, TotalAppend
      <3> HIDE DEF one, len
      <3> QED
        BY <2>1, <2>5, <3>1, TotalEmpty
    <2>7. JoinLen(<<p>>, sep) = Total(one) + (1 - 1) * sep
      BY DEF JoinLen
    <2> HIDE DEF sum, n, all, one, lens, len
    <2>8. JoinLen(<<p>>, sep) = len
      BY <2>1, <2>6, <2>7
    <2>9. JoinLen(more, sep) = sum + len + n * sep
      BY <1>1, <1>2, <2>1, <2>2, <2>3, <2>4
    <2> QED
      BY <1>3, <2>1, <2>8, <2>9 DEF n, len
  <1> HIDE DEF sum, n, lens
  <1> QED
    BY <1>1, <1>2, <1>3, <1>5, <1>6 DEF n

\* The overlap is a short end of the pieces.
LEMMA OverlapFacts ==
    ASSUME NEW U \in SUBSET Pieces, NEW ps \in Seq(U), Overlap \in Nat
    PROVE  \E k \in 1 .. Len(ps) + 1 :
              /\ OverlapPieces(ps) = SubSeq(ps, k, Len(ps))
              /\ OverlapPieces(ps) \in Seq(U)
              /\ SumLen(OverlapPieces(ps)) <= Overlap
  <1> DEFINE n == Len(ps)
             short == {k \in 1 .. n + 1 : SumLen(SubSeq(ps, k, n)) <= Overlap}
  <1>1. n \in Nat /\ n + 1 \in 1 .. n + 1 /\ SubSeq(ps, n + 1, n) = <<>>
    OBVIOUS
  <1>2. SumLen(<<>>) = 0
    <2>1. [i \in DOMAIN <<>> |-> UnitLen(<<>>[i])] = <<>> /\ Len(<<>>) = 0
      OBVIOUS
    <2>2. SumLen(<<>>) = Total(<<>>) + (0 - 1) * 0
      BY <2>1 DEF SumLen, JoinLen
    <2> QED
      BY <2>2, TotalEmpty
  <1>3. n + 1 \in short
    <2> HIDE DEF n
    <2>1. SumLen(SubSeq(ps, n + 1, n)) = SumLen(<<>>)
      BY <1>1
    <2> QED
      BY <1>1, <1>2, <2>1
  <1>4. short \in SUBSET Nat
    BY <1>1
  <1>5. \E k \in short : \A j \in short : k <= j
    <2> HIDE DEF short
    <2> QED
      BY <1>3, <1>4, LeastElement
  <1> DEFINE k == CHOOSE m \in short : \A j \in short : m <= j
  <1>6. k \in short
    <2> HIDE DEF short
    <2> QED
      BY <1>5
  <1>7. OverlapPieces(ps) = SubSeq(ps, k, n)
    BY DEF OverlapPieces
  <1>8. SubSeq(ps, k, n) \in Seq(U)
    <2>1. k \in 1 .. n + 1
      BY <1>6
    <2> HIDE DEF k, short
    <2>2. \A i \in k .. n : ps[i] \in U
      BY <2>1
    <2> QED
      BY <2>1, <2>2
  <1> HIDE DEF k
  <1> QED
    BY <1>6, <1>7, <1>8

-----------------------------------------------------------------------------
(* Intervals. *)

Ascending(parts) == \A i, j \in DOMAIN parts : i < j => parts[i].first < parts[j].first

\* Intervals that start at different numbers are finitely many, and in order of their
\* start they are a sequence of just these intervals, each starting before the next.
LEMMA InOrderFacts ==
    ASSUME NEW n \in Nat, NEW P,
           \A p \in P : p.first \in 1 .. n,
           \A p, q \in P : p.first = q.first => p = q
    PROVE  /\ InOrder(P) \in Seq(P) /\ Range(InOrder(P)) = P
           /\ Ascending(InOrder(P))
  <1> DEFINE k == [p \in P |-> p.first]
             m == Cardinality(P)
             s == InOrder(P)
  <1>1. IsFiniteSet(P)
    <2>1. IsFiniteSet(1 .. n)
      BY FS_Interval
    <2>2. k \in Injection(P, 1 .. n)
      BY DEF Injection, IsInjective
    <2> HIDE DEF k
    <2> QED
      BY <2>1, <2>2, FS_Injection DEF ExistsInjection
  <1>2. m \in Nat
    BY <1>1, FS_CardinalityType
  <1>3. k \in [P -> Int] /\ \A p, q \in P : k[p] = k[q] => p = q
    BY DEF k
  <1>4. \A p \in P : Cardinality({q \in P : q.first < p.first}) = Rank(P, k, p)
    <2> SUFFICES ASSUME NEW p \in P
                 PROVE  Cardinality({q \in P : q.first < p.first}) = Rank(P, k, p)
      OBVIOUS
    <2>1. {q \in P : q.first < p.first} = Below(P, k, p)
      BY DEF Below
    <2> HIDE DEF k
    <2> QED
      BY <2>1, Zenon DEF Rank
  <1>5. s = [i \in 1 .. m |->
               CHOOSE p \in P : Cardinality({q \in P : q.first < p.first}) = i - 1]
    BY DEF InOrder
  <1> HIDE DEF k, m, s
  <1>6. ASSUME NEW i \in 1 .. m
        PROVE  s[i] \in P /\ Rank(P, k, s[i]) = i - 1
    <2>1. \E p \in P : Rank(P, k, p) = i - 1
      <3>1. i \in 1 .. Cardinality(P)
        BY DEF m
      <3> QED
        BY <1>1, <1>3, <3>1, RankIsTaken
    <2>2. s[i] = CHOOSE p \in P : Cardinality({q \in P : q.first < p.first}) = i - 1
      BY <1>5
    <2> QED
      BY <1>4, <2>1, <2>2
  <1>7. s \in Seq(P) /\ DOMAIN s = 1 .. m
    <2>1. DOMAIN s = 1 .. m
      BY <1>5
    <2>2. s \in [1 .. m -> P]
      BY <1>5, <1>6
    <2> QED
      BY <1>2, <2>1, <2>2
  <1>8. ASSUME NEW p \in P
        PROVE  \E i \in 1 .. m : s[i] = p
    <2> DEFINE i == Rank(P, k, p) + 1
    <2>1. Rank(P, k, p) \in 0 .. m - 1
      BY <1>1, <1>3, RankOrder DEF m
    <2>2. i \in 1 .. m /\ i - 1 = Rank(P, k, p)
      BY <1>2, <2>1
    <2> HIDE DEF i
    <2>3. s[i] \in P /\ Rank(P, k, s[i]) = Rank(P, k, p)
      BY <1>6, <2>2
    <2> DEFINE q == s[i]
    <2>4. q \in P /\ Rank(P, k, q) = Rank(P, k, p)
      BY <2>3
    <2> HIDE DEF q
    <2>5. ~ (k[p] < k[q]) /\ ~ (k[q] < k[p])
      <3>1. k[p] < k[q] => Rank(P, k, p) < Rank(P, k, q)
        BY <1>1, <1>3, <2>4, RankOrder
      <3>2. k[q] < k[p] => Rank(P, k, q) < Rank(P, k, p)
        BY <1>1, <1>3, <2>4, RankOrder
      <3> QED
        BY <2>1, <2>4, <3>1, <3>2
    <2>6. k[p] \in Int /\ k[q] \in Int
      BY <1>3, <2>4
    <2>7. k[p] = k[q]
      BY <2>5, <2>6
    <2>8. p = q
      BY <1>3, <2>4, <2>7
    <2> QED
      BY <2>2, <2>8 DEF q
  <1>9. Range(s) = P
    BY <1>6, <1>7, <1>8 DEF Range
  <1>10. ASSUME NEW i \in 1 .. m, NEW j \in 1 .. m, i < j
         PROVE  s[i].first < s[j].first
    <2> DEFINE p == s[i]
               q == s[j]
    <2>1. p \in P /\ q \in P /\ Rank(P, k, p) = i - 1 /\ Rank(P, k, q) = j - 1
      BY <1>6
    <2> HIDE DEF p, q
    <2>2. Rank(P, k, p) < Rank(P, k, q)
      BY <1>2, <1>10, <2>1
    <2>3. ~ (k[q] < k[p])
      <3>1. k[q] < k[p] => Rank(P, k, q) < Rank(P, k, p)
        BY <1>1, <1>3, <2>1, RankOrder
      <3> QED
        BY <1>2, <2>1, <2>2, <3>1
    <2>4. k[p] # k[q]
      BY <1>2, <1>3, <2>1, <2>2
    <2>5. k[p] \in Int /\ k[q] \in Int
      BY <1>3, <2>1
    <2>6. k[p] < k[q]
      BY <2>3, <2>4, <2>5
    <2>7. k[p] = p.first /\ k[q] = q.first
      BY <2>1 DEF k
    <2> QED
      BY <2>6, <2>7 DEF p, q
  <1> QED
    BY <1>7, <1>9, <1>10 DEF s, Ascending

Intervals(n) == {p \in [first : 1 .. n, last : 1 .. n] : p.first <= p.last}

\* The runs of a set of numbers are disjoint intervals and together the set.
LEMMA RunsFacts ==
    ASSUME NEW n \in Nat, NEW S \in SUBSET (1 .. n)
    PROVE  /\ Runs(S) \subseteq Intervals(n)
           /\ \A p \in Runs(S) : LinesOf(p) \subseteq S
           /\ \A p, q \in Runs(S) : LinesOf(p) \cap LinesOf(q) # {} => p = q
           /\ \A i \in S : \E p \in Runs(S) : i \in LinesOf(p)
  <1>1. ASSUME NEW p \in Runs(S)
        PROVE  /\ p \in Intervals(n)
               /\ LinesOf(p) \subseteq S
               /\ p \in [first : 1 .. n, last : 1 .. n]
               /\ p.first - 1 \notin S /\ p.last + 1 \notin S /\ p.first <= p.last
    BY DEF Runs, Intervals
  <1>2. ASSUME NEW p \in Runs(S), NEW q \in Runs(S), NEW i \in LinesOf(p) \cap LinesOf(q)
        PROVE  p = q
    <2> DEFINE a == p.first
               b == p.last
               c == q.first
               d == q.last
    <2>1. /\ a \in 1 .. n /\ b \in 1 .. n /\ c \in 1 .. n /\ d \in 1 .. n
          /\ a - 1 \notin S /\ b + 1 \notin S /\ c - 1 \notin S /\ d + 1 \notin S
      BY <1>1
    <2>2. (a .. b) \subseteq S /\ (c .. d) \subseteq S /\ i \in a .. b /\ i \in c .. d
      BY <1>1 DEF LinesOf
    <2> HIDE DEF a, b, c, d
    <2>3. ~ (a < c)
      <3> SUFFICES ASSUME a < c PROVE FALSE
        OBVIOUS
      <3>1. c - 1 \in a .. b
        BY <2>1, <2>2
      <3> QED
        BY <2>1, <2>2, <3>1
    <2>4. ~ (c < a)
      <3> SUFFICES ASSUME c < a PROVE FALSE
        OBVIOUS
      <3>1. a - 1 \in c .. d
        BY <2>1, <2>2
      <3> QED
        BY <2>1, <2>2, <3>1
    <2>5. ~ (b < d)
      <3> SUFFICES ASSUME b < d PROVE FALSE
        OBVIOUS
      <3>1. b + 1 \in c .. d
        BY <2>1, <2>2
      <3> QED
        BY <2>1, <2>2, <3>1
    <2>6. ~ (d < b)
      <3> SUFFICES ASSUME d < b PROVE FALSE
        OBVIOUS
      <3>1. d + 1 \in a .. b
        BY <2>1, <2>2
      <3> QED
        BY <2>1, <2>2, <3>1
    <2>7. a = c /\ b = d
      BY <2>1, <2>3, <2>4, <2>5, <2>6
    <2> QED
      BY <1>1, <2>7 DEF a, b, c, d
  <1>3. ASSUME NEW i \in S
        PROVE  \E p \in Runs(S) : i \in LinesOf(p)
    <2>0. i \in 1 .. n
      OBVIOUS
    <2> DEFINE down == {j \in 1 .. i : (j .. i) \subseteq S}
               up == {j \in i .. n : (i .. j) \subseteq S}
    <2>1. i \in down /\ i \in up
      BY <2>0
    <2>2. PICK a \in down : \A j \in down : a <= j
      <3>1. down \in SUBSET Nat
        BY <2>0
      <3> HIDE DEF down
      <3> QED
        BY <2>1, <3>1, LeastElement
    <2>3. PICK b \in up : \A j \in up : b >= j
      <3>1. up \in SUBSET (1 .. n)
        BY <2>0
      <3> HIDE DEF up
      <3> QED
        BY <2>1, <3>1, GreatestPosition
    <2>4. /\ a \in 1 .. i /\ (a .. i) \subseteq S
          /\ b \in i .. n /\ (i .. b) \subseteq S
      OBVIOUS
    <2>5. a - 1 \notin S
      <3> SUFFICES ASSUME a - 1 \in S PROVE FALSE
        OBVIOUS
      <3>1. a - 1 \in 1 .. n
        OBVIOUS
      <3>2. \A j \in a - 1 .. i : j = a - 1 \/ j \in a .. i
        BY <2>0, <2>4, <3>1
      <3>3. a - 1 \in down
        BY <2>0, <2>4, <3>1, <3>2
      <3> QED
        BY <2>2, <2>4, <3>3
    <2>6. b + 1 \notin S
      <3> SUFFICES ASSUME b + 1 \in S PROVE FALSE
        OBVIOUS
      <3>1. b + 1 \in 1 .. n
        OBVIOUS
      <3>2. \A j \in i .. b + 1 : j = b + 1 \/ j \in i .. b
        BY <2>0, <2>4, <3>1
      <3>3. b + 1 \in up
        BY <2>0, <2>4, <3>1, <3>2
      <3> QED
        BY <2>3, <2>4, <3>3
    <2>7. a \in S /\ b \in S /\ a <= b /\ i \in a .. b
      BY <2>0, <2>4
    <2>8. (a .. b) \subseteq S
      <3>1. \A j \in a .. b : j \in a .. i \/ j \in i .. b
        BY <2>0, <2>4
      <3> QED
        BY <2>4, <3>1
    <2> DEFINE p == [first |-> a, last |-> b]
    <2>9. p \in Runs(S)
      BY <2>5, <2>6, <2>7, <2>8 DEF Runs, LinesOf
    <2> QED
      BY <2>7, <2>9 DEF LinesOf
  <1> QED
    BY <1>1, <1>2, <1>3

-----------------------------------------------------------------------------
(* Lines and their words. *)

\* A file as the constants have it: blank are the lines without words.
IsFile(f) ==
    /\ f \in Seq(Lines)
    /\ \A i \in DOMAIN f : f[i].kind = "blank" <=> f[i].words = << >>

LineWords(f, i) == Range(Occurrences(f, i))

\* The words of a line, none if and only if it is blank.
LEMMA OccurrencesFacts ==
    ASSUME NEW f, IsFile(f), NEW i \in DOMAIN f
    PROVE  /\ Occurrences(f, i) \in Seq(Occurrence)
           /\ Blank(f, i) <=> Occurrences(f, i) = <<>>
  <1> DEFINE ws == f[i].words
             m == Len(ws)
  <1>1. f[i] \in Lines /\ i \in Nat
    BY DEF IsFile
  <1>2. ws \in Seq([len : Nat \ {0}, stop : BOOLEAN]) /\ m \in Nat /\ DOMAIN ws = 1 .. m
    BY <1>1 DEF Lines
  <1>3. Blank(f, i) <=> m = 0
    BY <1>2 DEF Blank, IsFile
  <1> HIDE DEF ws
  <1>4. Occurrences(f, i) =
            [j \in 1 .. m |-> [line |-> i, pos |-> j, len |-> ws[j].len, stop |-> ws[j].stop]]
    BY <1>2 DEF Occurrences, ws
  <1>5. \A j \in 1 .. m : Occurrences(f, i)[j] \in Occurrence
    <2> SUFFICES ASSUME NEW j \in 1 .. m PROVE Occurrences(f, i)[j] \in Occurrence
      OBVIOUS
    <2> DEFINE W == [len : Nat \ {0}, stop : BOOLEAN]
    <2>1. ws[j] \in W /\ j \in Nat
      <3> HIDE DEF W
      <3>1. ws \in Seq(W)
        BY <1>2 DEF W
      <3> QED
        BY <3>1
    <2> QED
      BY <1>1, <1>4, <2>1 DEF Occurrence
  <1>6. Occurrences(f, i) \in [1 .. m -> Occurrence]
    BY <1>4, <1>5
  <1> HIDE DEF m
  <1>7. Occurrences(f, i) \in Seq(Occurrence) /\ Len(Occurrences(f, i)) = m
    BY <1>2, <1>6 DEF m
  <1> QED
    BY <1>2, <1>3, <1>7

\* Intervals of lines of which one has text.
Parts(f) == {p \in Intervals(Len(f)) : HasText(f, p)}

\* The lines of an interval are lines of the file.
LEMMA LinesOfPart ==
    ASSUME NEW f, IsFile(f), NEW p \in Intervals(Len(f))
    PROVE  /\ DOMAIN f = 1 .. Len(f) /\ Len(f) \in Nat
           /\ LinesOf(p) \subseteq DOMAIN f
           /\ p.first \in LinesOf(p) /\ p.last \in LinesOf(p)
  BY DEF IsFile, LinesOf, Intervals

\* The words of an interval are those of its lines.
LEMMA WordsOfFacts ==
    ASSUME NEW f, IsFile(f), NEW p \in Intervals(Len(f))
    PROVE  /\ WordsOf(f, p) \in Seq(Occurrence)
           /\ Range(WordsOf(f, p)) = UNION {LineWords(f, i) : i \in LinesOf(p)}
           /\ HasText(f, p) => WordsOf(f, p) \in Texts
  <1> DEFINE m == p.last - p.first + 1
             lines == [i \in 1 .. m |-> Occurrences(f, p.first + i - 1)]
             words == WordsOf(f, p)
  <1>1. /\ p.first \in Nat /\ p.last \in Nat /\ m \in Nat
        /\ DOMAIN f = 1 .. Len(f) /\ LinesOf(p) \subseteq DOMAIN f
        /\ LinesOf(p) = p.first .. p.last
    BY LinesOfPart DEF Intervals, LinesOf
  <1>2. \A i \in 1 .. m : p.first + i - 1 \in LinesOf(p)
    BY <1>1
  <1>3. \A i \in LinesOf(p) : i - p.first + 1 \in 1 .. m /\ p.first + (i - p.first + 1) - 1 = i
    BY <1>1
  <1> HIDE DEF m
  <1>4. lines \in Seq(Seq(Occurrence)) /\ DOMAIN lines = 1 .. m
    <2>1. \A i \in 1 .. m : lines[i] \in Seq(Occurrence)
      BY <1>1, <1>2, OccurrencesFacts
    <2>2. lines \in [1 .. m -> Seq(Occurrence)]
      BY <2>1
    <2> HIDE DEF lines
    <2> QED
      BY <1>1, <2>2
  <1>5. words = FlattenSeq(lines)
    BY DEF WordsOf, m
  <1>6. /\ words \in Seq(Occurrence)
        /\ \A x : x \in Range(words) <=> \E i \in 1 .. m : x \in Range(lines[i])
    <2> HIDE DEF lines
    <2> QED
      BY <1>4, <1>5, FlattenElements
  <1>7. \A i \in 1 .. m : Range(lines[i]) = LineWords(f, p.first + i - 1)
    BY DEF LineWords
  <1> HIDE DEF lines
  <1>8. \A x : x \in Range(words) <=> \E i \in LinesOf(p) : x \in LineWords(f, i)
    <2> SUFFICES ASSUME NEW x
                 PROVE  x \in Range(words) <=> \E i \in LinesOf(p) : x \in LineWords(f, i)
      OBVIOUS
    <2>1. ASSUME x \in Range(words)
          PROVE  \E i \in LinesOf(p) : x \in LineWords(f, i)
      BY <1>2, <1>6, <1>7, <2>1
    <2>2. ASSUME NEW i \in LinesOf(p), x \in LineWords(f, i)
          PROVE  x \in Range(words)
      <3> DEFINE j == i - p.first + 1
      <3>1. j \in 1 .. m /\ p.first + j - 1 = i
        BY <1>3
      <3> HIDE DEF j
      <3>2. Range(lines[j]) = LineWords(f, i)
        BY <1>7, <3>1
      <3> QED
        BY <1>6, <2>2, <3>1, <3>2
    <2> QED
      BY <2>1, <2>2
  <1>9. Range(words) = UNION {LineWords(f, i) : i \in LinesOf(p)}
    BY <1>8
  <1>10. HasText(f, p) => words # <<>>
    <2> SUFFICES ASSUME NEW i \in LinesOf(p), ~ Blank(f, i)
                 PROVE  words # <<>>
      BY DEF HasText
    <2>1. Occurrences(f, i) \in Seq(Occurrence) /\ Occurrences(f, i) # <<>>
      BY <1>1, OccurrencesFacts
    <2>2. Occurrences(f, i)[1] \in LineWords(f, i)
      BY <2>1 DEF LineWords, Range
    <2>3. Range(words) # {}
      BY <1>8, <2>2
    <2>4. words = <<>> => Range(words) = {}
      BY DEF Range
    <2> QED
      BY <2>3, <2>4
  <1> QED
    BY <1>6, <1>9, <1>10 DEF Texts

\* A blank line has no words.
LEMMA BlankLines ==
    ASSUME NEW f, IsFile(f), NEW i \in DOMAIN f, Blank(f, i)
    PROVE  LineWords(f, i) = {}
  <1>1. Occurrences(f, i) = <<>>
    BY OccurrencesFacts
  <1> QED
    BY <1>1 DEF LineWords, Range

\* The length of an interval is that of its words and its empty lines.
LEMMA PartLenFacts ==
    ASSUME NEW f, IsFile(f), NEW p \in Parts(f)
    PROVE  PartLen(f, p) \in Nat \ {0} /\ TextLen(WordsOf(f, p)) <= PartLen(f, p)
  <1>1. p \in Intervals(Len(f)) /\ HasText(f, p)
    BY DEF Parts
  <1>2. TextLen(WordsOf(f, p)) \in Nat \ {0}
    BY <1>1, WordsOfFacts, TextLenFacts DEF Texts
  <1>3. Cardinality({i \in LinesOf(p) : Blank(f, i)}) \in Nat
    <2>1. p.first \in Int /\ p.last \in Int
      BY <1>1 DEF Intervals
    <2>2. IsFiniteSet(LinesOf(p))
      BY <2>1, FS_Interval DEF LinesOf
    <2>3. {i \in LinesOf(p) : Blank(f, i)} \in SUBSET LinesOf(p)
      OBVIOUS
    <2> QED
      BY <2>2, <2>3, FS_Subset, FS_CardinalityType
  <1> QED
    BY <1>2, <1>3 DEF PartLen

\* What is left of an interval when it is stripped has all its words.
LEMMA StripFacts ==
    ASSUME NEW f, IsFile(f), NEW p \in Parts(f)
    PROVE  /\ Strip(f, p) \in Parts(f)
           /\ LinesOf(Strip(f, p)) \subseteq LinesOf(p)
           /\ \A i \in LinesOf(p) : Blank(f, i) \/ i \in LinesOf(Strip(f, p))
  <1> DEFINE written == {i \in LinesOf(p) : ~ Blank(f, i)}
             a == CHOOSE i \in written : \A j \in written : i <= j
             b == CHOOSE i \in written : \A j \in written : i >= j
             q == Strip(f, p)
  <1>1. /\ p \in Intervals(Len(f)) /\ LinesOf(p) \subseteq 1 .. Len(f) /\ Len(f) \in Nat
        /\ LinesOf(p) = p.first .. p.last /\ p.first \in Nat /\ p.last \in Nat
    <2>1. p \in Intervals(Len(f))
      BY DEF Parts
    <2> QED
      BY <2>1, LinesOfPart DEF Intervals, LinesOf
  <1>2. written # {} /\ written \in SUBSET Nat /\ written \in SUBSET (1 .. Len(f))
    BY <1>1 DEF Parts, HasText
  <1>3. q = [first |-> a, last |-> b]
    BY DEF Strip
  <1>4. a \in written /\ \A j \in written : a <= j
    <2> HIDE DEF written
    <2>1. \E i \in written : \A j \in written : i <= j
      BY <1>2, LeastElement
    <2> QED
      BY <2>1
  <1>5. b \in written /\ \A j \in written : b >= j
    <2>1. b = Max(written)
      BY DEF Max
    <2> HIDE DEF written, b
    <2> QED
      BY <1>1, <1>2, <2>1, GreatestPosition
  <1> HIDE DEF a, b
  <1>6. a \in LinesOf(p) /\ b \in LinesOf(p) /\ a <= b /\ ~ Blank(f, a)
    BY <1>4, <1>5
  <1>7. q \in Intervals(Len(f)) /\ LinesOf(q) = a .. b /\ a \in a .. b
    BY <1>1, <1>3, <1>6 DEF Intervals, LinesOf
  <1>8. q \in Parts(f)
    BY <1>6, <1>7 DEF Parts, HasText
  <1>9. LinesOf(q) \subseteq LinesOf(p)
    BY <1>1, <1>6, <1>7
  <1>10. ASSUME NEW i \in LinesOf(p), ~ Blank(f, i)
         PROVE  i \in LinesOf(q)
    <2>1. i \in written
      BY <1>10
    <2>2. a <= i /\ b >= i
      BY <1>4, <1>5, <2>1
    <2> QED
      BY <1>1, <1>6, <1>7, <2>2
  <1> HIDE DEF q
  <1> QED
    BY <1>8, <1>9, <1>10 DEF q

-----------------------------------------------------------------------------
(* What the parser finds. *)

\* A line that belongs to a section.
IsBody(f, fmt, i) == fmt = "text" \/ f[i].kind \in {"text", "row"}

\* Stripping keeps every line that is not blank in some part.
LEMMA StripAllFacts ==
    ASSUME NEW f, IsFile(f), NEW S \in SUBSET DOMAIN f
    PROVE  /\ StripAll(f, Runs(S)) \in Seq(Parts(f))
           /\ \A i \in S :
                 Blank(f, i) \/ \E p \in Range(StripAll(f, Runs(S))) : i \in LinesOf(p)
           /\ StripAll(f, Runs(S)) # <<>> => \E i \in S : ~ Blank(f, i)
           /\ Ascending(StripAll(f, Runs(S)))
  <1> DEFINE n == Len(f)
             R == {p \in Runs(S) : HasText(f, p)}
             P == {Strip(f, p) : p \in R}
             s == StripAll(f, Runs(S))
  <1>1. n \in Nat /\ DOMAIN f = 1 .. n
    BY DEF IsFile
  <1>2. /\ R \subseteq Parts(f)
        /\ \A p \in R : LinesOf(p) \subseteq S
        /\ \A p, q \in R : LinesOf(p) \cap LinesOf(q) # {} => p = q
        /\ \A i \in S : \E p \in Runs(S) : i \in LinesOf(p)
    BY <1>1, RunsFacts DEF Parts
  <1> HIDE DEF R
  <1>3. ASSUME NEW p \in R
        PROVE  /\ Strip(f, p) \in Parts(f)
               /\ LinesOf(Strip(f, p)) \subseteq LinesOf(p)
               /\ Strip(f, p).first \in LinesOf(p)
               /\ Strip(f, p).first \in 1 .. n
               /\ \A i \in LinesOf(p) : Blank(f, i) \/ i \in LinesOf(Strip(f, p))
    <2>1. /\ Strip(f, p) \in Parts(f)
          /\ LinesOf(Strip(f, p)) \subseteq LinesOf(p)
          /\ \A i \in LinesOf(p) : Blank(f, i) \/ i \in LinesOf(Strip(f, p))
      BY <1>2, StripFacts
    <2>2. Strip(f, p) \in Intervals(n)
      BY <2>1 DEF Parts
    <2>3. Strip(f, p).first \in LinesOf(Strip(f, p)) /\ Strip(f, p).first \in 1 .. n
      BY <2>2, LinesOfPart DEF Intervals
    <2> QED
      BY <2>1, <2>3
  <1>4. \A p, q \in P : p.first = q.first => p = q
    BY <1>2, <1>3
  <1>5. \A p \in P : p.first \in 1 .. n
    BY <1>3
  <1>6. P \subseteq Parts(f)
    BY <1>3
  <1>7. s = InOrder(P)
    BY DEF StripAll, R
  <1>8. InOrder(P) \in Seq(P) /\ Range(InOrder(P)) = P /\ Ascending(InOrder(P))
    <2> HIDE DEF P, n
    <2> QED
      BY <1>1, <1>4, <1>5, InOrderFacts
  <1>9. s \in Seq(Parts(f))
    <2> HIDE DEF P
    <2> QED
      BY <1>6, <1>7, <1>8
  <1>10. ASSUME NEW i \in S, ~ Blank(f, i)
         PROVE  \E p \in Range(s) : i \in LinesOf(p)
    <2>1. PICK p \in Runs(S) : i \in LinesOf(p)
      BY <1>2
    <2>2. p \in R
      BY <1>10, <2>1 DEF R, HasText
    <2>3. i \in LinesOf(Strip(f, p)) /\ Strip(f, p) \in P
      BY <1>3, <1>10, <2>1, <2>2
    <2> HIDE DEF P
    <2> QED
      BY <1>7, <1>8, <2>3
  <1>11. ASSUME s # <<>>
         PROVE  \E i \in S : ~ Blank(f, i)
    <2>1. \E q \in P : TRUE
      <3> HIDE DEF P, s
      <3>1. s \in Seq(P)
        BY <1>7, <1>8
      <3>2. s[1] \in P
        BY <1>11, <3>1
      <3> QED
        BY <3>2
    <2>2. PICK p \in R : TRUE
      BY <2>1
    <2>3. HasText(f, p) /\ LinesOf(p) \subseteq S
      BY <1>2 DEF Parts
    <2> QED
      BY <2>3 DEF HasText
  <1>12. Ascending(s)
    BY <1>7, <1>8, Zenon
  <1> HIDE DEF s
  <1> QED
    BY <1>9, <1>10, <1>11, <1>12 DEF s

\* The whole file as parts: no written line is left out.
LEMMA WholeFileFacts ==
    ASSUME NEW f, IsFile(f)
    PROVE  /\ WholeFile(f) \in Seq(Parts(f))
           /\ \A i \in DOMAIN f :
                 Blank(f, i) \/ \E p \in Range(WholeFile(f)) : i \in LinesOf(p)
           /\ Ascending(WholeFile(f))
  <1>1. DOMAIN f \in SUBSET DOMAIN f
    OBVIOUS
  <1> QED
    BY <1>1, StripAllFacts DEF WholeFile

\* The parser's sections: no written line that is not a heading is left out.
LEMMA SectionsFacts ==
    ASSUME NEW f, IsFile(f), NEW fmt
    PROVE  /\ SectionsOf(f, fmt) \in Seq(Parts(f))
           /\ \A i \in DOMAIN f :
                 IsBody(f, fmt, i) =>
                     Blank(f, i) \/ \E p \in Range(SectionsOf(f, fmt)) : i \in LinesOf(p)
           /\ (\A i \in DOMAIN f : ~ IsBody(f, fmt, i)) => SectionsOf(f, fmt) = <<>>
           /\ Ascending(SectionsOf(f, fmt))
  <1>1. \A i \in DOMAIN f : f[i].kind \in Kinds
    <2>1. \A i \in DOMAIN f : f[i] \in Lines
      BY DEF IsFile
    <2>2. \A l \in Lines : l.kind \in Kinds
      BY DEF Lines
    <2> QED
      BY <2>1, <2>2
  <1>2. CASE fmt = "text"
    <2>1. DOMAIN f \in SUBSET DOMAIN f
      OBVIOUS
    <2>2. SectionsOf(f, fmt) = StripAll(f, Runs(DOMAIN f))
      BY <1>2 DEF SectionsOf, WholeFile
    <2> QED
      BY <1>2, <2>1, <2>2, StripAllFacts DEF IsBody
  <1>3. CASE fmt # "text"
    <2> DEFINE S == {i \in DOMAIN f : f[i].kind # "heading"}
    <2>1. S \in SUBSET DOMAIN f
      OBVIOUS
    <2>2. SectionsOf(f, fmt) = StripAll(f, Runs(S))
      BY <1>3 DEF SectionsOf
    <2>3. \A i \in DOMAIN f : IsBody(f, fmt, i) => i \in S
      BY <1>3 DEF IsBody
    <2>4. \A i \in S : Blank(f, i) \/ IsBody(f, fmt, i)
      BY <1>1 DEF IsBody, Blank, Kinds
    <2> HIDE DEF S
    <2> QED
      BY <2>1, <2>2, <2>3, <2>4, StripAllFacts
  <1> QED
    BY <1>2, <1>3

\* Adjacent rows.
TableParts(f) ==
    {p \in Intervals(Len(f)) : p.first < p.last /\ \A i \in LinesOf(p) : f[i].kind = "row"}

\* The parser's tables are parts, and there are none without body lines.
LEMMA TablesFacts ==
    ASSUME NEW f, IsFile(f), NEW fmt
    PROVE  /\ TablesOf(f, fmt) \in Seq(TableParts(f))
           /\ TableParts(f) \subseteq Parts(f)
           /\ Ascending(TablesOf(f, fmt))
           /\ \A p, q \in Range(TablesOf(f, fmt)) : LinesOf(p) \cap LinesOf(q) # {} => p = q
           /\ (\A i \in DOMAIN f : ~ IsBody(f, fmt, i)) => TablesOf(f, fmt) = <<>>
  <1> DEFINE n == Len(f)
             S == {i \in DOMAIN f : f[i].kind = "row"}
             P == {p \in Runs(S) : p.first < p.last}
  <1>1. n \in Nat /\ DOMAIN f = 1 .. n /\ S \in SUBSET (1 .. n)
    <2>1. n \in Nat /\ DOMAIN f = 1 .. n
      BY DEF IsFile
    <2>2. S \in SUBSET DOMAIN f
      OBVIOUS
    <2> QED
      BY <2>1, <2>2
  <1>2. ASSUME NEW p \in TableParts(f)
        PROVE  p \in Parts(f) /\ \E i \in DOMAIN f : f[i].kind = "row"
    <2>1. p \in Intervals(n) /\ p.first \in LinesOf(p) /\ f[p.first].kind = "row"
          /\ p.first \in DOMAIN f
      BY LinesOfPart DEF TableParts
    <2> QED
      BY <2>1 DEF Parts, HasText, Blank
  <1>3. /\ P \subseteq TableParts(f)
        /\ \A p \in P : p.first \in 1 .. n /\ p.first \in LinesOf(p)
        /\ \A p, q \in P : LinesOf(p) \cap LinesOf(q) # {} => p = q
    <2>1. /\ Runs(S) \subseteq Intervals(n)
          /\ \A p \in Runs(S) : LinesOf(p) \subseteq S
          /\ \A p, q \in Runs(S) : LinesOf(p) \cap LinesOf(q) # {} => p = q
      <3> HIDE DEF n, S
      <3> QED
        BY <1>1, RunsFacts
    <2>2. P \subseteq Intervals(n)
      BY <2>1
    <2>3. \A p \in P : p.first \in 1 .. n /\ p.first \in LinesOf(p)
      BY <2>2, LinesOfPart DEF Intervals
    <2> QED
      BY <2>1, <2>2, <2>3 DEF TableParts
  <1>4. InOrder(P) \in Seq(P) /\ Range(InOrder(P)) = P /\ Ascending(InOrder(P))
    <2>1. \A p, q \in P : p.first = q.first => p = q
      BY <1>3
    <2> HIDE DEF P, n
    <2> QED
      BY <1>1, <1>3, <2>1, InOrderFacts
  <1>5. InOrder(P) \in Seq(TableParts(f))
    <2> HIDE DEF P
    <2> QED
      BY <1>3, <1>4
  <1>6. TablesOf(f, fmt) = IF fmt = "text" THEN <<>> ELSE InOrder(P)
    BY DEF TablesOf
  <1>7. ASSUME \A i \in DOMAIN f : ~ IsBody(f, fmt, i)
        PROVE  TablesOf(f, fmt) = <<>>
    <2> SUFFICES ASSUME fmt # "text" PROVE InOrder(P) = <<>>
      BY <1>6
    <2>1. \A i \in DOMAIN f : f[i].kind # "row"
      BY <1>7 DEF IsBody
    <2>2. TableParts(f) = {}
      BY <1>2, <2>1
    <2>3. P = {}
      BY <1>3, <2>2
    <2> HIDE DEF P
    <2> QED
      BY <1>4, <2>3
  <1> HIDE DEF P
  <1>8. Ascending(TablesOf(f, fmt))
        /\ \A p, q \in Range(TablesOf(f, fmt)) : LinesOf(p) \cap LinesOf(q) # {} => p = q
    <2>1. CASE fmt = "text"
      BY <1>6, <2>1 DEF Ascending, Range
    <2>2. CASE fmt # "text"
      BY <1>3, <1>4, <1>6, <2>2
    <2> QED
      BY <2>1, <2>2
  <1> QED
    BY <1>2, <1>5, <1>6, <1>7, <1>8

-----------------------------------------------------------------------------
(* Splitting a section. *)

USE ChunkerAssumption

SentenceEnds(words) == {i \in 1 .. Len(words) : words[i].stop \/ i = Len(words)}

\* The places of the sentences of a text.
SentenceSpans(words) ==
    {p \in [first : {1} \cup {i + 1 : i \in SentenceEnds(words)}, last : SentenceEnds(words)] :
        p.first <= p.last /\ LinesOf(p) \cap SentenceEnds(words) = {p.last}}

\* The sentences of a text stand apart in it and leave nothing out.
LEMMA SentenceSpansFacts ==
    ASSUME NEW words \in Texts
    PROVE  /\ SentenceSpans(words) \subseteq Intervals(Len(words))
           /\ \A p, q \in SentenceSpans(words) : LinesOf(p) \cap LinesOf(q) # {} => p = q
           /\ \A i \in 1 .. Len(words) : \E p \in SentenceSpans(words) : i \in LinesOf(p)
           /\ Sentences(words) =
                 [i \in DOMAIN InOrder(SentenceSpans(words)) |->
                     SubSeq(words, InOrder(SentenceSpans(words))[i].first,
                                   InOrder(SentenceSpans(words))[i].last)]
  <1> DEFINE n == Len(words)
             ends == SentenceEnds(words)
             P == {p \in [first : {1} \cup {i + 1 : i \in ends}, last : ends] :
                      p.first <= p.last /\ LinesOf(p) \cap ends = {p.last}}
  <1>1. n \in Nat /\ n > 0 /\ DOMAIN words = 1 .. n /\ words \in Seq(Occurrence)
    BY DEF Texts
  <1>2. /\ ends \in SUBSET (1 .. n) /\ n \in ends
        /\ \A e \in ends : e \in Nat /\ e >= 1 /\ e <= n
    <2>1. n \in ends /\ ends \in SUBSET (1 .. n)
      BY <1>1 DEF SentenceEnds
    <2> HIDE DEF n, ends
    <2> QED
      BY <1>1, <2>1
  <1>3. Sentences(words) =
           [i \in DOMAIN InOrder(P) |-> SubSeq(words, InOrder(P)[i].first, InOrder(P)[i].last)]
    BY DEF Sentences, SentenceEnds
  <1>10. SentenceSpans(words) = P
    BY DEF SentenceSpans
  <1> HIDE DEF n, ends
  <1>4. ASSUME NEW p \in P
        PROVE  /\ p.first \in 1 .. n /\ p.last \in 1 .. n /\ p.first <= p.last
               /\ p.last \in ends /\ LinesOf(p) \cap ends = {p.last}
               /\ p = [first |-> p.first, last |-> p.last]
    <2>1. p.first \in {1} \cup {i + 1 : i \in ends} /\ p.last \in ends /\ p.first <= p.last
      OBVIOUS
    <2>2. p.first \in Nat /\ p.first >= 1 /\ p.last \in 1 .. n
      <3>1. p.first = 1 \/ \E e \in ends : p.first = e + 1
        BY <2>1
      <3>2. p.first \in Nat /\ p.first >= 1
        BY <1>2, <3>1
      <3> QED
        BY <1>2, <2>1, <3>2
    <2>3. p.first \in 1 .. n
      BY <1>1, <2>1, <2>2
    <2> QED
      BY <2>1, <2>2, <2>3
  <1>5. ASSUME NEW p \in P, NEW q \in P, NEW i \in LinesOf(p) \cap LinesOf(q)
        PROVE  ~ (p.last < q.last) /\ ~ (p.last = q.last /\ p.first < q.first)
    <2>1. /\ p.first \in 1 .. n /\ p.last \in 1 .. n /\ q.first \in 1 .. n /\ q.last \in 1 .. n
          /\ p.first <= p.last /\ q.first <= q.last /\ p.last \in ends
          /\ LinesOf(p) = p.first .. p.last /\ LinesOf(q) = q.first .. q.last
          /\ LinesOf(p) \cap ends = {p.last} /\ LinesOf(q) \cap ends = {q.last}
      BY <1>4 DEF LinesOf
    <2>2. q.first = 1 \/ \E e \in ends : q.first = e + 1
      OBVIOUS
    <2> DEFINE a == p.first
               b == p.last
               c == q.first
               d == q.last
    <2>3. i \in a .. b /\ i \in c .. d
      BY <2>1
    <2>4. /\ a \in 1 .. n /\ b \in 1 .. n /\ c \in 1 .. n /\ d \in 1 .. n /\ a <= b /\ c <= d
          /\ b \in ends /\ (a .. b) \cap ends = {b} /\ (c .. d) \cap ends = {d}
          /\ (c = 1 \/ \E e \in ends : c = e + 1)
      BY <2>1, <2>2
    <2> HIDE DEF a, b, c, d
    <2>5. ~ (b < d)
      <3> SUFFICES ASSUME b < d PROVE FALSE
        OBVIOUS
      <3>1. b \in c .. d
        BY <1>1, <2>3, <2>4
      <3> QED
        BY <2>4, <3>1
    <2>6. ~ (b = d /\ a < c)
      <3> SUFFICES ASSUME b = d, a < c PROVE FALSE
        OBVIOUS
      <3>1. PICK e \in ends : c = e + 1
        BY <1>1, <2>4
      <3>2. e \in a .. b /\ e # b
        BY <1>1, <1>2, <2>4, <3>1
      <3> QED
        BY <2>4, <3>2
    <2> QED
      BY <2>5, <2>6 DEF a, b, c, d
  <1>6. ASSUME NEW p \in P, NEW q \in P, LinesOf(p) \cap LinesOf(q) # {}
        PROVE  p = q
    <2>1. PICK i \in LinesOf(p) \cap LinesOf(q) : TRUE
      BY <1>6
    <2>2. i \in LinesOf(q) \cap LinesOf(p)
      OBVIOUS
    <2>3. ~ (p.last < q.last) /\ ~ (p.last = q.last /\ p.first < q.first)
      BY <1>5
    <2>4. ~ (q.last < p.last) /\ ~ (q.last = p.last /\ q.first < p.first)
      BY <1>5, <2>2
    <2> HIDE DEF P
    <2>5. p.last = q.last /\ p.first = q.first
      <3>1. p.first \in Int /\ p.last \in Int /\ q.first \in Int /\ q.last \in Int
        BY <1>4
      <3> QED
        BY <2>3, <2>4, <3>1
    <2>6. p = [first |-> p.first, last |-> p.last] /\ q = [first |-> q.first, last |-> q.last]
      BY <1>4
    <2> QED
      BY <2>5, <2>6
  <1>9. ASSUME NEW i \in 1 .. n
        PROVE  \E p \in P : i \in LinesOf(p)
    <2> DEFINE after == {e \in ends : e >= i}
               before == {e \in ends : e < i}
    <2>1. PICK b \in after : \A e \in after : b <= e
      <3>1. n \in after /\ after \in SUBSET Nat
        <4>1. n >= i
          BY <1>1
        <4> QED
          BY <1>2, <4>1
      <3> HIDE DEF after
      <3> QED
        BY <3>1, LeastElement
    <2>2. PICK a \in {1} \cup {e + 1 : e \in ends} : a <= i /\ \A e \in before : e < a
      <3>1. CASE before = {}
        BY <1>1, <3>1
      <3>2. CASE before # {}
        <4>1. before \in SUBSET (1 .. n)
          BY <1>2
        <4>2. Max(before) \in before /\ \A e \in before : Max(before) >= e
          <5> HIDE DEF before
          <5> QED
            BY <1>1, <3>2, <4>1, GreatestPosition
        <4> DEFINE c == Max(before)
        <4>3. c \in ends /\ c < i /\ c \in Nat /\ i \in Nat /\ \A e \in before : c >= e
          BY <1>1, <4>1, <4>2
        <4> HIDE DEF c
        <4>4. c + 1 <= i /\ c + 1 \in {e + 1 : e \in ends}
          BY <4>3
        <4>5. \A e \in before : e < c + 1
          BY <4>1, <4>3
        <4> QED
          BY <4>4, <4>5
      <3> QED
        BY <3>1, <3>2
    <2>3. b \in ends /\ b \in Nat /\ a \in Nat /\ a <= i /\ i <= b /\ i \in Nat
      BY <1>1, <1>2, <2>1, <2>2
    <2> DEFINE p == [first |-> a, last |-> b]
    <2>4. LinesOf(p) = a .. b
      BY DEF LinesOf
    <2>5. ASSUME NEW e \in (a .. b) \cap ends
          PROVE  e = b
      <3>1. CASE e < i
        <4>1. e < a
          BY <2>2, <3>1
        <4> QED
          BY <2>3, <4>1
      <3>2. CASE e >= i
        <4>1. b <= e
          BY <2>1, <3>2
        <4> QED
          BY <2>3, <4>1
      <3> QED
        BY <2>3, <3>1, <3>2
    <2>6. b \in a .. b /\ i \in a .. b
      BY <2>3
    <2>7. p \in P
      BY <2>2, <2>3, <2>4, <2>5, <2>6
    <2> QED
      BY <2>4, <2>6, <2>7
  <1>11. P \subseteq Intervals(n)
    <2> SUFFICES ASSUME NEW p \in P PROVE p \in Intervals(n)
      OBVIOUS
    <2> DEFINE a == p.first
               b == p.last
    <2>1. a \in 1 .. n /\ b \in 1 .. n /\ a <= b /\ p = [first |-> a, last |-> b]
      BY <1>4
    <2> HIDE DEF a, b
    <2> QED
      BY <2>1 DEF Intervals
  <1> HIDE DEF P
  <1>12. \A p, q \in SentenceSpans(words) : LinesOf(p) \cap LinesOf(q) # {} => p = q
    BY <1>6, <1>10
  <1>13. \A i \in 1 .. n : \E p \in SentenceSpans(words) : i \in LinesOf(p)
    BY <1>9, <1>10
  <1> QED
    BY <1>3, <1>10, <1>11, <1>12, <1>13 DEF n

\* The sentences of a text are texts and together have its words.
LEMMA SentencesFacts ==
    ASSUME NEW words \in Texts
    PROVE  /\ Sentences(words) \in Seq(Texts)
           /\ \A w \in Range(words) : \E s \in Range(Sentences(words)) : w \in Range(s)
  <1> DEFINE n == Len(words)
             P == SentenceSpans(words)
             parts == InOrder(P)
  <1>1. n \in Nat /\ n > 0 /\ DOMAIN words = 1 .. n /\ words \in Seq(Occurrence)
    BY DEF Texts
  <1>2. /\ P \subseteq Intervals(n)
        /\ \A p, q \in P : LinesOf(p) \cap LinesOf(q) # {} => p = q
        /\ \A i \in 1 .. n : \E p \in P : i \in LinesOf(p)
        /\ Sentences(words) = [i \in DOMAIN parts |-> SubSeq(words, parts[i].first, parts[i].last)]
    BY SentenceSpansFacts
  <1> HIDE DEF n, P, parts
  <1>3. Sentences(words) = [i \in DOMAIN parts |-> SubSeq(words, parts[i].first, parts[i].last)]
    BY <1>2
  <1>4. ASSUME NEW p \in P
        PROVE  p.first \in 1 .. n /\ p.last \in 1 .. n /\ p.first <= p.last
               /\ LinesOf(p) = p.first .. p.last
    BY <1>2 DEF Intervals, LinesOf
  <1>5. ASSUME NEW p \in P, NEW q \in P, p.first = q.first
        PROVE  p = q
    <2>1. p.first \in LinesOf(p) /\ p.first \in LinesOf(q)
      BY <1>4, <1>5
    <2> QED
      BY <1>2, <2>1
  <1>6. parts \in Seq(P) /\ Range(parts) = P
    BY <1>1, <1>4, <1>5, InOrderFacts DEF parts
  <1>7. \A p \in P : SubSeq(words, p.first, p.last) \in Texts
    <2> SUFFICES ASSUME NEW p \in P PROVE SubSeq(words, p.first, p.last) \in Texts
      OBVIOUS
    <2> DEFINE a == p.first
               b == p.last
    <2>1. a \in 1 .. n /\ b \in 1 .. n /\ a <= b
      BY <1>4
    <2> HIDE DEF a, b
    <2>2. \A i \in a .. b : words[i] \in Occurrence
      BY <1>1, <2>1 DEF n
    <2>3. SubSeq(words, a, b) \in Seq(Occurrence) /\ Len(SubSeq(words, a, b)) = b - a + 1
      BY <1>1, <2>1, <2>2
    <2>4. SubSeq(words, a, b) # <<>>
      BY <1>1, <2>1, <2>3
    <2> QED
      BY <2>3, <2>4 DEF Texts, a, b
  <1>8. Sentences(words) \in Seq(Texts)
    <2> HIDE DEF P
    <2> DEFINE m == Len(parts)
    <2>1. m \in Nat /\ DOMAIN parts = 1 .. m /\ \A i \in 1 .. m : parts[i] \in P
      BY <1>6
    <2> HIDE DEF m
    <2>2. Sentences(words) \in [1 .. m -> Texts]
      BY <1>3, <1>7, <2>1
    <2> QED
      BY <2>1, <2>2
  <1>9. \A i \in 1 .. n : \E p \in P : i \in LinesOf(p)
    BY <1>2
  <1>10. ASSUME NEW w \in Range(words)
         PROVE  \E s \in Range(Sentences(words)) : w \in Range(s)
    <2>1. PICK i \in 1 .. n : w = words[i]
      BY <1>1 DEF Range
    <2>2. PICK p \in P : i \in LinesOf(p)
      BY <1>9
    <2>3. PICK k \in DOMAIN parts : parts[k] = p
      <3> HIDE DEF P
      <3> QED
        BY <1>6 DEF Range
    <2> DEFINE a == p.first
               b == p.last
               s == SubSeq(words, a, b)
    <2>4. Sentences(words)[k] = s /\ k \in DOMAIN Sentences(words)
      BY <1>3, <2>3
    <2>5. a \in 1 .. n /\ b \in 1 .. n /\ a <= b /\ i \in a .. b
      BY <1>4, <2>2 DEF LinesOf
    <2>6. w \in Range(s)
      <3> HIDE DEF a, b
      <3>1. i - a + 1 \in 1 .. b - a + 1 /\ a + (i - a + 1) - 1 = i
        BY <1>1, <2>5
      <3>2. DOMAIN s = 1 .. b - a + 1 /\ \A j \in 1 .. b - a + 1 : s[j] = words[a + j - 1]
        BY <1>1, <2>5 DEF n
      <3>3. s[i - a + 1] = w
        BY <2>1, <3>1, <3>2
      <3> HIDE DEF s
      <3> QED
        BY <3>1, <3>2, <3>3 DEF Range
    <2> HIDE DEF s
    <2> QED
      BY <2>4, <2>6 DEF Range
  <1> QED
    BY <1>8, <1>10

\* Groups of words that fit, or are one word.
Fit(words) == TextLen(words) <= TargetSize \/ Len(words) = 1
Groups == {words \in Texts : Fit(words)}
Packing == [done : Seq(Groups), words : Seq(Occurrence), len : Nat]

\* What packing has not closed yet is empty only at the start, fits, and is no longer
\* than it is taken to be.
Open(acc) ==
    acc.words # <<>> => Fit(acc.words) /\ TextLen(acc.words) <= acc.len

Packed(acc, w) ==
    w \in Range(acc.words) \/ \E d \in Range(acc.done) : w \in Range(d)

\* What an element more does to a sequence.
LEMMA AppendElements ==
    ASSUME NEW T, NEW s \in Seq(T), NEW x \in T
    PROVE  /\ Append(s, x) \in Seq(T) /\ Append(s, x) # <<>>
           /\ Range(Append(s, x)) = Range(s) \cup {x}
  <1> DEFINE n == Len(s)
             t == Append(s, x)
  <1>1. n \in Nat /\ DOMAIN s = 1 .. n /\ t \in Seq(T) /\ Len(t) = n + 1
        /\ DOMAIN t = 1 .. n + 1 /\ \A i \in 1 .. n + 1 : t[i] = IF i = n + 1 THEN x ELSE s[i]
    OBVIOUS
  <1> HIDE DEF n, t
  <1>2. \A i \in 1 .. n : i \in 1 .. n + 1 /\ i # n + 1
    BY <1>1
  <1>3. \A i \in 1 .. n + 1 : i = n + 1 \/ i \in 1 .. n
    BY <1>1
  <1>4. n + 1 \in 1 .. n + 1
    BY <1>1
  <1>5. Range(t) = Range(s) \cup {x}
    BY <1>1, <1>2, <1>3, <1>4 DEF Range
  <1>6. t # <<>>
    BY <1>1
  <1> QED
    BY <1>1, <1>5, <1>6 DEF t

\* One turn of the packing of words: groups keep to their size, no word is lost.
LEMMA PackWordFacts ==
    ASSUME NEW acc \in Packing, NEW w \in Occurrence
    PROVE  /\ Open(acc) => PackWord(acc, w) \in Packing
           /\ Open(acc) => Open(PackWord(acc, w))
           /\ PackWord(acc, w).words # <<>>
           /\ \A v : v = w \/ Packed(acc, v) => Packed(PackWord(acc, w), v)
  <1> DEFINE next == PackWord(acc, w)
  <1>1. /\ acc.done \in Seq(Groups) /\ acc.words \in Seq(Occurrence) /\ acc.len \in Nat
        /\ w.len \in Nat \ {0} /\ TargetSize \in Nat
        /\ acc = [done |-> acc.done, words |-> acc.words, len |-> acc.len]
    BY DEF Packing, Occurrence
  <1>2. TextLen(<<w>>) = w.len
    <2>1. <<>> \in Seq(Occurrence)
      OBVIOUS
    <2> QED
      BY <2>1, TextLenFacts
  <1>3. <<w>> \in Seq(Occurrence) /\ <<w>> # <<>> /\ Len(<<w>>) = 1 /\ Range(<<w>>) = {w}
    BY DEF Range
  <1>4. CASE acc.len + w.len + 1 > TargetSize /\ acc.words # <<>>
    <2>1. next = [done |-> Append(acc.done, acc.words), words |-> <<w>>, len |-> w.len]
      BY <1>4 DEF PackWord
    <2>2. Open(acc) => acc.words \in Groups
      BY <1>1, <1>4 DEF Open, Groups, Texts
    <2>3. Open(acc) => next \in Packing
      BY <1>1, <1>3, <2>1, <2>2 DEF Packing
    <2>4. Open(next)
      BY <1>1, <1>2, <1>3, <2>1 DEF Open, Fit
    <2>5. Range(Append(acc.done, acc.words)) = Range(acc.done) \cup {acc.words}
      <3>1. acc.done \in Seq(Groups \cup {acc.words})
        BY <1>1
      <3> QED
        BY <3>1, AppendElements
    <2>6. \A v : v = w \/ Packed(acc, v) => Packed(next, v)
      BY <1>3, <2>1, <2>5 DEF Packed
    <2>7. next.words # <<>>
      BY <1>3, <2>1
    <2> HIDE DEF next
    <2> QED
      BY <2>3, <2>4, <2>6, <2>7 DEF next
  <1>5. CASE ~ (acc.len + w.len + 1 > TargetSize /\ acc.words # <<>>)
    <2> DEFINE more == Append(acc.words, w)
    <2>1. next = [done |-> acc.done, words |-> more, len |-> acc.len + w.len + 1]
      BY <1>1, <1>5 DEF PackWord
    <2>2. more \in Seq(Occurrence) /\ more # <<>> /\ Range(more) = Range(acc.words) \cup {w}
      BY <1>1, AppendElements
    <2>3. next \in Packing
      BY <1>1, <2>1, <2>2 DEF Packing
    <2>4. Open(acc) => Open(next)
      <3> SUFFICES ASSUME Open(acc) PROVE Fit(more) /\ TextLen(more) <= acc.len + w.len + 1
        BY <2>1 DEF Open
      <3>1. CASE acc.words = <<>>
        <4>1. more = <<w>>
          BY <3>1
        <4> QED
          BY <1>1, <1>2, <1>3, <4>1 DEF Fit
      <3>2. CASE acc.words # <<>>
        <4>1. TextLen(more) = TextLen(acc.words) + w.len + 1 /\ TextLen(acc.words) \in Int
          BY <1>1, TextLenFacts
        <4>2. TextLen(acc.words) <= acc.len /\ acc.len + w.len + 1 <= TargetSize
          BY <1>1, <1>5, <3>2 DEF Open
        <4> DEFINE a == TextLen(more)
                   b == TextLen(acc.words)
                   c == acc.len
                   d == w.len
        <4>3. a = b + d + 1 /\ b <= c /\ c + d + 1 <= TargetSize
          BY <4>1, <4>2
        <4>4. b \in Int /\ c \in Int /\ d \in Int /\ TargetSize \in Int
          BY <1>1, <4>1
        <4> HIDE DEF more, a, b, c, d
        <4>5. a <= c + d + 1 /\ a <= TargetSize
          BY <4>3, <4>4
        <4> QED
          BY <4>5 DEF Fit, a, c, d
      <3> QED
        BY <3>1, <3>2
    <2>5. \A v : v = w \/ Packed(acc, v) => Packed(next, v)
      <3> HIDE DEF more
      <3> QED
        BY <2>1, <2>2 DEF Packed
    <2> HIDE DEF next, more
    <2> QED
      BY <2>1, <2>2, <2>3, <2>4, <2>5 DEF next
  <1> QED
    BY <1>4, <1>5

\* Packing goes word by word.
LEMMA PackedRun ==
    ASSUME NEW words \in Texts
    PROVE  \E g \in [0 .. Len(words) -> Packing] :
              /\ g[0] = [done |-> << >>, words |-> << >>, len |-> 0]
              /\ \A i \in 0 .. Len(words) : Open(g[i])
              /\ \A i \in 1 .. Len(words) : g[i] = PackWord(g[i - 1], words[i])
              /\ PackedWords(words) = g[Len(words)]
  <1> DEFINE n == Len(words)
             none == [done |-> << >>, words |-> << >>, len |-> 0]
             A == {acc \in Packing : Open(acc)}
             f == [i \in 1 .. n |-> [acc \in A |-> PackWord(acc, words[i])]]
             IsPacking(h) ==
                h = [S \in SUBSET (1 .. n) |->
                       IF S = {} THEN none ELSE PackWord(h[S \ {Max(S)}], words[Max(S)])]
             packing == CHOOSE h : IsPacking(h)
  <1>1. n \in Nat /\ DOMAIN words = 1 .. n /\ \A i \in 1 .. n : words[i] \in Occurrence
    BY DEF Texts
  <1>2. PackedWords(words) = packing[1 .. n]
    BY <1>1 DEF PackedWords, FoldLeft, MapThenFoldSet
  <1>3. none \in A
    BY DEF Packing, Open
  <1>4. \A acc \in A, w \in Occurrence : PackWord(acc, w) \in A
    BY PackWordFacts
  <1>5. \E h : IsPacking(h)
    <2>1. f \in [1 .. n -> [A -> A]]
      <3> HIDE DEF A, n
      <3> QED
        BY <1>1, <1>4
    <2>2. PICK h \in FoldsOver(A, none, n, f) : TRUE
      <3> HIDE DEF n, f, A, none
      <3>1. FoldsOver(A, none, n, f) # {}
        BY ONLY <1>1, <1>3, <2>1, FoldExists
      <3> QED
        BY <3>1
    <2> HIDE DEF none, A
    <2>3. /\ h \in [SUBSET (1 .. n) -> A]
          /\ \A S \in SUBSET (1 .. n) :
                h[S] = IF S = {} THEN none ELSE f[Max(S)][h[S \ {Max(S)}]]
      BY <2>2 DEF FoldsOver
    <2>4. ASSUME NEW S \in SUBSET (1 .. n), S # {}
          PROVE  f[Max(S)][h[S \ {Max(S)}]] = PackWord(h[S \ {Max(S)}], words[Max(S)])
      <3>1. Max(S) \in 1 .. n
        <4> HIDE DEF n, f
        <4> QED
          BY <1>1, <2>4, GreatestPosition
      <3>2. h[S \ {Max(S)}] \in A
        BY <2>3
      <3> HIDE DEF n
      <3> QED
        BY <3>1, <3>2
    <2> HIDE DEF f, n
    <2>5. IsPacking(h)
      BY <2>3, <2>4
    <2> QED
      BY <2>5
  <1>6. IsPacking(packing)
    <2> HIDE DEF IsPacking
    <2> QED
      BY <1>5
  <1> HIDE DEF A, none
  <1> DEFINE g == [i \in 0 .. n |-> packing[1 .. i]]
  <1>7. g[0] = none
    <2>1. 1 .. 0 = {} /\ {} \in SUBSET (1 .. n) /\ 0 \in 0 .. n
      BY <1>1
    <2>2. packing[{}] = none
      <3> HIDE DEF packing, n
      <3> QED
        BY <1>6, <2>1
    <2> HIDE DEF packing, n
    <2> QED
      BY <2>1, <2>2
  <1>8. ASSUME NEW i \in 1 .. n
        PROVE  g[i] = PackWord(g[i - 1], words[i])
    <2>1. i \in 0 .. n /\ i - 1 \in 0 .. n
      BY <1>1
    <2> HIDE DEF packing, n
    <2>2. /\ (1 .. i) \in SUBSET (1 .. n) /\ 1 .. i # {}
          /\ Max(1 .. i) = i
          /\ (1 .. i) \ {i} = 1 .. i - 1
      BY <1>1, FoldOrder
    <2>3. packing[1 .. i] = PackWord(packing[1 .. i - 1], words[i])
      BY <1>6, <2>2
    <2> QED
      BY <2>1, <2>3
  <1>9. \A i \in 0 .. n : g[i] \in A
    <2> HIDE DEF packing
    <2> DEFINE Good == {i \in 0 .. n : g[i] \in A}
    <2>1. 0 \in Good
      BY <1>1, <1>3, <1>7
    <2>2. ASSUME NEW i \in 1 .. n, i - 1 \in Good
          PROVE  i \in Good
      <3>1. i \in 0 .. n
        BY <1>1
      <3> HIDE DEF g, n
      <3> QED
        BY <1>1, <1>4, <1>8, <2>2, <3>1
    <2>3. \A i \in 0 .. n : i \in Good
      <3> HIDE DEF Good, n
      <3> QED
        BY <1>1, <2>1, <2>2, IntervalInduction
    <2> QED
      BY <2>3
  <1>10. PackedWords(words) = g[n]
    BY <1>1, <1>2
  <1>11. g \in [0 .. n -> Packing] /\ \A i \in 0 .. n : Open(g[i])
    <2>1. \A i \in 0 .. n : g[i] \in Packing /\ Open(g[i])
      <3> HIDE DEF g, n
      <3> QED
        BY <1>9 DEF A
    <2> HIDE DEF n, packing
    <2> QED
      BY <2>1
  <1> HIDE DEF g, n
  <1> QED
    BY <1>7, <1>8, <1>10, <1>11 DEF n, none

\* The groups of a long text fit or are one word each, and together have its words.
LEMMA GroupsFacts ==
    ASSUME NEW words \in Texts
    PROVE  /\ WordGroups(words) \in Seq(Groups)
           /\ \A w \in Range(words) : \E g \in Range(WordGroups(words)) : w \in Range(g)
  <1> DEFINE n == Len(words)
             last == PackedWords(words)
  <1>1. PICK g \in [0 .. n -> Packing] :
              /\ \A i \in 0 .. n : Open(g[i])
              /\ \A i \in 1 .. n : g[i] = PackWord(g[i - 1], words[i])
              /\ PackedWords(words) = g[n]
    BY PackedRun
  <1>2. n \in Nat /\ n > 0 /\ DOMAIN words = 1 .. n /\ \A i \in 1 .. n : words[i] \in Occurrence
    BY DEF Texts
  <1> HIDE DEF n
  <1>3. n \in 1 .. n /\ n \in 0 .. n /\ n - 1 \in 0 .. n
    BY <1>2
  <1>4. last \in Packing /\ Open(last) /\ last.words # <<>>
    <2>1. g[n - 1] \in Packing /\ g[n] \in Packing /\ Open(g[n])
      BY <1>1, <1>3
    <2>2. g[n] = PackWord(g[n - 1], words[n]) /\ words[n] \in Occurrence
      BY <1>1, <1>2, <1>3
    <2> QED
      BY <1>1, <2>1, <2>2, PackWordFacts
  <1>5. last.done \in Seq(Groups) /\ last.words \in Groups
    BY <1>4 DEF Packing, Open, Groups, Texts
  <1>6. WordGroups(words) = Append(last.done, last.words)
    BY DEF WordGroups
  <1> DEFINE Good == {i \in 0 .. n : \A j \in 1 .. i : Packed(g[i], words[j])}
  <1>7. 0 \in Good
    BY <1>2
  <1>8. ASSUME NEW i \in 1 .. n, i - 1 \in Good
        PROVE  i \in Good
    <2>1. i \in 0 .. n /\ g[i - 1] \in Packing /\ words[i] \in Occurrence
      BY <1>1, <1>2
    <2>2. \A v : v = words[i] \/ Packed(g[i - 1], v) => Packed(g[i], v)
      BY <1>1, <2>1, PackWordFacts
    <2>3. \A j \in 1 .. i : j = i \/ j \in 1 .. i - 1
      BY <1>2
    <2>4. \A j \in 1 .. i : Packed(g[i], words[j])
      BY <1>8, <2>2, <2>3
    <2> QED
      BY <2>1, <2>4
  <1>9. n \in Good
    <2> HIDE DEF Good
    <2> QED
      BY <1>2, <1>3, <1>7, <1>8, IntervalInduction
  <1>10. \A w \in Range(words) : Packed(last, w)
    BY <1>1, <1>2, <1>9 DEF Range
  <1> HIDE DEF last
  <1>11. Range(WordGroups(words)) = Range(last.done) \cup {last.words}
         /\ WordGroups(words) \in Seq(Groups)
    BY <1>5, <1>6, AppendElements
  <1> QED
    BY <1>10, <1>11 DEF Packed

\* Pieces that fit, or are one word.
Units == {u \in Pieces : Fit(u.words)}

\* The units of a sentence fit and have all its words.
LEMMA SentenceUnitsFacts ==
    ASSUME NEW words \in Texts
    PROVE  /\ SentenceUnits(words) \in Seq(Units)
           /\ Range(words) \subseteq WordsIn(SentenceUnits(words))
  <1>1. CASE TextLen(words) <= TargetSize
    <2> DEFINE u == Unit(words, TRUE)
    <2>1. SentenceUnits(words) = <<u>>
      BY <1>1 DEF SentenceUnits
    <2>2. u \in Units /\ u.words = words
      BY <1>1 DEF Unit, Units, Pieces, Fit
    <2> HIDE DEF u
    <2> QED
      BY <2>1, <2>2 DEF WordsIn
  <1>2. CASE ~ (TextLen(words) <= TargetSize)
    <2> DEFINE groups == WordGroups(words)
               m == Len(groups)
    <2>1. /\ groups \in Seq(Groups)
          /\ \A w \in Range(words) : \E g \in Range(groups) : w \in Range(g)
      BY GroupsFacts
    <2>2. SentenceUnits(words) = [i \in DOMAIN groups |-> Unit(groups[i], FALSE)]
      BY <1>2 DEF SentenceUnits
    <2> HIDE DEF groups
    <2>3. m \in Nat /\ DOMAIN groups = 1 .. m /\ \A i \in 1 .. m : groups[i] \in Groups
      BY <2>1
    <2>4. \A g \in Groups : Unit(g, FALSE) \in Units /\ Unit(g, FALSE).words = g
      BY DEF Unit, Units, Pieces, Groups
    <2> HIDE DEF m
    <2>5. SentenceUnits(words) \in [1 .. m -> Units]
      <3>1. \A i \in 1 .. m : Unit(groups[i], FALSE) \in Units
        BY <2>3, <2>4
      <3> QED
        BY ONLY <2>2, <2>3, <3>1
    <2>6. \A i \in 1 .. m : SentenceUnits(words)[i].words = groups[i]
      BY <2>2, <2>3, <2>4
    <2>7. SentenceUnits(words) \in Seq(Units) /\ DOMAIN SentenceUnits(words) = 1 .. m
      BY <2>3, <2>5
    <2>8. Range(words) \subseteq WordsIn(SentenceUnits(words))
      <3>1. \A w \in Range(words) : \E i \in 1 .. m : w \in Range(groups[i])
        BY <2>1, <2>3 DEF Range
      <3>2. \A i \in 1 .. m : Range(groups[i]) \subseteq WordsIn(SentenceUnits(words))
        BY <2>6, <2>7 DEF WordsIn
      <3> QED
        BY <3>1, <3>2
    <2> QED
      BY <2>7, <2>8
  <1> QED
    BY <1>1, <1>2

\* Flattened units have the words of all.
LEMMA FlattenedUnits ==
    ASSUME NEW s \in Seq(Seq(Units))
    PROVE  /\ FlattenSeq(s) \in Seq(Units)
           /\ \A i \in DOMAIN s : WordsIn(s[i]) \subseteq WordsIn(FlattenSeq(s))
  <1>1. /\ FlattenSeq(s) \in Seq(Units)
        /\ \A x : x \in Range(FlattenSeq(s)) <=> \E i \in DOMAIN s : x \in Range(s[i])
    BY FlattenElements
  <1>2. \A us : WordsIn(us) = UNION {Range(u.words) : u \in Range(us)}
    BY DEF WordsIn, Range
  <1>3. \A i \in DOMAIN s : Range(s[i]) \subseteq Range(FlattenSeq(s))
    BY <1>1
  <1> QED
    BY <1>1, <1>2, <1>3

\* The units of a paragraph fit and have all its words.
LEMMA ParagraphUnitsFacts ==
    ASSUME NEW words \in Texts
    PROVE  /\ ParagraphUnits(words) \in Seq(Units)
           /\ Range(words) \subseteq WordsIn(ParagraphUnits(words))
  <1>1. CASE TextLen(words) <= TargetSize
    <2>1. ParagraphUnits(words) = SentenceUnits(words)
      BY <1>1 DEF ParagraphUnits, SentenceUnits
    <2> QED
      BY <2>1, SentenceUnitsFacts
  <1>2. CASE ~ (TextLen(words) <= TargetSize)
    <2> DEFINE sentences == Sentences(words)
               m == Len(sentences)
               us == [i \in DOMAIN sentences |-> SentenceUnits(sentences[i])]
    <2>1. /\ sentences \in Seq(Texts)
          /\ \A w \in Range(words) : \E s \in Range(sentences) : w \in Range(s)
      BY SentencesFacts
    <2>2. ParagraphUnits(words) = FlattenSeq(us)
      BY <1>2 DEF ParagraphUnits
    <2> HIDE DEF sentences
    <2>3. m \in Nat /\ DOMAIN sentences = 1 .. m /\ \A i \in 1 .. m : sentences[i] \in Texts
      BY <2>1
    <2> HIDE DEF m
    <2>4. \A i \in 1 .. m : us[i] \in Seq(Units) /\ Range(sentences[i]) \subseteq WordsIn(us[i])
      BY <2>3, SentenceUnitsFacts
    <2>5. us \in [1 .. m -> Seq(Units)]
      BY <2>3, <2>4
    <2> HIDE DEF us
    <2>6. us \in Seq(Seq(Units)) /\ DOMAIN us = 1 .. m
      BY <2>3, <2>5
    <2>7. /\ FlattenSeq(us) \in Seq(Units)
          /\ \A i \in 1 .. m : WordsIn(us[i]) \subseteq WordsIn(FlattenSeq(us))
      BY <2>6, FlattenedUnits
    <2>8. \A w \in Range(words) : \E i \in 1 .. m : w \in Range(sentences[i])
      BY <2>1, <2>3 DEF Range
    <2>9. Range(words) \subseteq WordsIn(FlattenSeq(us))
      BY <2>4, <2>7, <2>8
    <2> QED
      BY <2>2, <2>7, <2>9
  <1> QED
    BY <1>1, <1>2

\* The units of a section fit or are one word each, and together have its words.
LEMMA UnitsFacts ==
    ASSUME NEW f, IsFile(f), NEW p \in Parts(f)
    PROVE  /\ UnitsOf(f, p) \in Seq(Units)
           /\ \A i \in LinesOf(p) : LineWords(f, i) \subseteq WordsIn(UnitsOf(f, p))
           /\ UnitsOf(f, p) # <<>>
  <1> DEFINE n == Len(f)
             S == {i \in LinesOf(p) : ~ Blank(f, i)}
             paragraphs == Paragraphs(f, p)
             m == Len(paragraphs)
             us == [i \in DOMAIN paragraphs |-> ParagraphUnits(WordsOf(f, paragraphs[i]))]
  <1>1. n \in Nat /\ S \in SUBSET (1 .. n) /\ LinesOf(p) \subseteq DOMAIN f
    <2>1. p \in Intervals(n)
      BY DEF Parts
    <2> QED
      BY <2>1, LinesOfPart
  <1>2. paragraphs = InOrder(Runs(S))
    BY DEF Paragraphs
  <1> HIDE DEF n
  <1>3. /\ Runs(S) \subseteq Intervals(n)
        /\ \A q \in Runs(S) : LinesOf(q) \subseteq S
        /\ \A q, r \in Runs(S) : LinesOf(q) \cap LinesOf(r) # {} => q = r
        /\ \A i \in S : \E q \in Runs(S) : i \in LinesOf(q)
    <2> HIDE DEF S
    <2> QED
      BY <1>1, RunsFacts
  <1>4. \A q \in Runs(S) : q.first \in 1 .. n /\ q.first \in LinesOf(q)
    BY <1>3, LinesOfPart DEF Intervals, n
  <1>5. InOrder(Runs(S)) \in Seq(Runs(S)) /\ Range(InOrder(Runs(S))) = Runs(S)
    <2>1. \A q, r \in Runs(S) : q.first = r.first => q = r
      BY <1>3, <1>4
    <2> DEFINE P == Runs(S)
    <2> HIDE DEF S, P
    <2>2. InOrder(P) \in Seq(P) /\ Range(InOrder(P)) = P
      BY <1>1, <1>4, <2>1, InOrderFacts DEF P
    <2> QED
      BY <2>2 DEF P
  <1>6. \A q \in Runs(S) : q \in Parts(f)
    BY <1>3, <1>4 DEF Parts, HasText, n
  <1> HIDE DEF paragraphs
  <1>7. m \in Nat /\ DOMAIN paragraphs = 1 .. m /\ \A i \in 1 .. m : paragraphs[i] \in Runs(S)
    <2> HIDE DEF S
    <2> QED
      BY <1>2, <1>5
  <1> HIDE DEF m
  <1>8. ASSUME NEW i \in 1 .. m
        PROVE  /\ us[i] \in Seq(Units)
               /\ Range(WordsOf(f, paragraphs[i])) \subseteq WordsIn(us[i])
               /\ Range(WordsOf(f, paragraphs[i])) =
                      UNION {LineWords(f, j) : j \in LinesOf(paragraphs[i])}
    <2>1. paragraphs[i] \in Parts(f)
      BY <1>6, <1>7
    <2>2. paragraphs[i] \in Intervals(Len(f)) /\ HasText(f, paragraphs[i])
      BY <2>1 DEF Parts
    <2>3. /\ WordsOf(f, paragraphs[i]) \in Texts
          /\ Range(WordsOf(f, paragraphs[i])) =
                 UNION {LineWords(f, j) : j \in LinesOf(paragraphs[i])}
      BY <2>2, WordsOfFacts
    <2> QED
      BY <1>7, <2>3, ParagraphUnitsFacts
  <1>9. us \in [1 .. m -> Seq(Units)]
    BY <1>7, <1>8
  <1>10. us \in Seq(Seq(Units)) /\ DOMAIN us = 1 .. m
    <2> HIDE DEF us
    <2> QED
      BY <1>7, <1>9
  <1>11. UnitsOf(f, p) = FlattenSeq(us)
    BY DEF UnitsOf, paragraphs
  <1> HIDE DEF us
  <1>12. /\ FlattenSeq(us) \in Seq(Units)
         /\ \A i \in 1 .. m : WordsIn(us[i]) \subseteq WordsIn(FlattenSeq(us))
    BY <1>10, FlattenedUnits
  <1>13. ASSUME NEW i \in LinesOf(p)
         PROVE  LineWords(f, i) \subseteq WordsIn(FlattenSeq(us))
    <2>1. CASE Blank(f, i)
      BY <1>1, <2>1, BlankLines
    <2>2. CASE ~ Blank(f, i)
      <3>1. PICK q \in Runs(S) : i \in LinesOf(q)
        BY <1>3, <2>2
      <3>2. PICK k \in 1 .. m : paragraphs[k] = q
        <4> HIDE DEF S
        <4> QED
          BY <1>2, <1>5, <1>7 DEF Range
      <3>3. LineWords(f, i) \subseteq WordsIn(us[k])
        BY <1>8, <3>1, <3>2
      <3> QED
        BY <1>12, <3>3
    <2> QED
      BY <2>1, <2>2
  <1>14. FlattenSeq(us) # <<>>
    <2>1. PICK i \in LinesOf(p) : ~ Blank(f, i)
      BY DEF Parts, HasText
    <2>2. Occurrences(f, i) \in Seq(Occurrence) /\ Occurrences(f, i) # <<>>
      BY <1>1, <2>1, OccurrencesFacts
    <2>3. Occurrences(f, i)[1] \in LineWords(f, i)
      BY <2>2 DEF LineWords, Range
    <2>4. WordsIn(FlattenSeq(us)) # {}
      BY <1>13, <2>3
    <2>5. FlattenSeq(us) = <<>> => WordsIn(FlattenSeq(us)) = {}
      BY DEF WordsIn
    <2> QED
      BY <2>4, <2>5
  <1> QED
    BY <1>11, <1>12, <1>13, <1>14

-----------------------------------------------------------------------------
(* Types. *)

ChunksOf(f) ==
    [kind : {"section", "table"}, part : Parts(f), pieces : Seq(Pieces) \ {<<>>},
     size : Nat \ {0}]

TypeInv ==
    /\ file \in Files /\ format \in Formats
    /\ pc \in {"sections", "pack", "tables", "rows", "done"}
    /\ fallback \in BOOLEAN
    /\ sections \in Seq(Parts(file))
    /\ tables \in Seq(TableParts(file))
    /\ units \in Seq(Pieces)
    /\ pieces \in Seq(Pieces)
    /\ size \in Nat
    /\ chunks \in Seq(ChunksOf(file))
    /\ pc = "pack" =>
          /\ sections # <<>>
          /\ units \in Seq(Units) /\ pieces \in Seq(Units)
          /\ units # <<>> \/ pieces # <<>>
    /\ pc = "rows" => tables # <<>>

\* The files of the specification are files of the lemmas.
LEMMA FileFacts == \A f \in Files : IsFile(f)
  BY DEF IsFile

\* A unit is a piece that fits.
LEMMA UnitsArePieces == Units \in SUBSET Pieces
  BY DEF Units

\* A sequence is its first element and the others, and its last and the others.
LEMMA HeadAndTail ==
    ASSUME NEW T, NEW s \in Seq(T), s # <<>>
    PROVE  /\ Head(s) \in T /\ Tail(s) \in Seq(T) /\ Last(s) \in T /\ Front(s) \in Seq(T)
           /\ Range(s) = {Head(s)} \cup Range(Tail(s))
           /\ Range(s) = Range(Front(s)) \cup {Last(s)}
  <1> DEFINE n == Len(s)
  <1>1. n \in Nat /\ n > 0 /\ DOMAIN s = 1 .. n /\ \A i \in 1 .. n : s[i] \in T
    OBVIOUS
  <1>2. Head(s) = s[1] /\ Last(s) = s[n] /\ Front(s) = SubSeq(s, 1, n - 1)
    BY DEF Last, Front
  <1>3. /\ Tail(s) \in Seq(T) /\ DOMAIN Tail(s) = 1 .. n - 1
        /\ \A i \in 1 .. n - 1 : Tail(s)[i] = s[i + 1]
    OBVIOUS
  <1>4. /\ Front(s) \in Seq(T) /\ DOMAIN Front(s) = 1 .. n - 1
        /\ \A i \in 1 .. n - 1 : Front(s)[i] = s[i]
    BY <1>2
  <1> HIDE DEF n
  <1> DEFINE h == Head(s)
             t == Tail(s)
             l == Last(s)
             u == Front(s)
  <1> HIDE DEF h, t, l, u
  <1>5. Range(s) = {h} \cup Range(t)
    <2>1. \A i \in 1 .. n : i = 1 \/ (i - 1 \in 1 .. n - 1 /\ (i - 1) + 1 = i)
      BY <1>1
    <2>2. \A i \in 1 .. n - 1 : i + 1 \in 1 .. n
      BY <1>1
    <2>3. 1 \in 1 .. n
      BY <1>1
    <2>4. \A i \in 1 .. n : s[i] \in {h} \cup Range(t)
      <3> SUFFICES ASSUME NEW i \in 1 .. n, i # 1 PROVE s[i] \in Range(t)
        BY <1>2 DEF h
      <3>1. t[i - 1] = s[i] /\ i - 1 \in DOMAIN t
        BY <1>3, <2>1 DEF t
      <3> QED
        BY <3>1 DEF Range
    <2>5. \A i \in 1 .. n - 1 : t[i] \in Range(s)
      BY <1>1, <1>3, <2>2 DEF Range, t
    <2>6. h \in Range(s)
      BY <1>1, <1>2, <2>3 DEF Range, h
    <2> QED
      BY <1>1, <1>3, <2>4, <2>5, <2>6 DEF Range, t
  <1>6. Range(s) = Range(u) \cup {l}
    <2>1. \A i \in 1 .. n : i = n \/ i \in 1 .. n - 1
      BY <1>1
    <2>2. n \in 1 .. n /\ \A i \in 1 .. n - 1 : i \in 1 .. n
      BY <1>1
    <2>3. \A i \in 1 .. n : s[i] \in Range(u) \cup {l}
      BY <1>2, <1>4, <2>1 DEF Range, u, l
    <2>4. \A i \in 1 .. n - 1 : u[i] \in Range(s)
      BY <1>1, <1>4, <2>2 DEF Range, u
    <2>5. l \in Range(s)
      BY <1>1, <1>2, <2>2 DEF Range, l
    <2> QED
      BY <1>1, <1>4, <2>3, <2>4, <2>5 DEF Range, u
  <1>7. h \in T /\ l \in T
    <2>1. 1 \in 1 .. n /\ n \in 1 .. n
      BY <1>1
    <2> QED
      BY <1>1, <1>2, <2>1 DEF h, l
  <1> QED
    BY <1>3, <1>4, <1>5, <1>6, <1>7 DEF h, t, l, u

\* Lines of a table become pieces, two of them its header.
LEMMA RowsFacts ==
    ASSUME NEW f, IsFile(f), NEW t \in TableParts(f)
    PROVE  /\ RowsOf(f, t.first + 2, t.last) \in Seq(Pieces)
           /\ HeaderRows(f, t) \in Seq(Pieces)
           /\ Len(HeaderRows(f, t)) = 2
  <1>1. /\ t \in Intervals(Len(f)) /\ t.first \in Nat /\ t.last \in Nat /\ t.first < t.last
        /\ LinesOf(t) = t.first .. t.last
        /\ \A i \in LinesOf(t) : f[i].kind = "row"
    BY DEF TableParts, Intervals, LinesOf
  <1>2. LinesOf(t) \subseteq DOMAIN f
    BY <1>1, LinesOfPart
  <1>3. \A i \in LinesOf(t) : Unit(Occurrences(f, i), TRUE) \in Pieces
    <2> SUFFICES ASSUME NEW i \in LinesOf(t) PROVE Unit(Occurrences(f, i), TRUE) \in Pieces
      OBVIOUS
    <2>1. Occurrences(f, i) \in Seq(Occurrence) /\ Occurrences(f, i) # <<>>
      BY <1>1, <1>2, OccurrencesFacts DEF Blank
    <2> QED
      BY <2>1 DEF Unit, Pieces, Texts
  <1>4. ASSUME NEW a \in Nat, NEW b \in Nat, a <= b + 1, (a .. b) \subseteq LinesOf(t)
        PROVE  RowsOf(f, a, b) \in Seq(Pieces) /\ Len(RowsOf(f, a, b)) = b - a + 1
    <2> DEFINE m == b - a + 1
    <2>1. m \in Nat /\ \A i \in 1 .. m : a + i - 1 \in a .. b
      BY <1>4
    <2>2. RowsOf(f, a, b) = [i \in 1 .. m |-> Unit(Occurrences(f, a + i - 1), TRUE)]
      BY DEF RowsOf
    <2> HIDE DEF m
    <2>3. \A i \in 1 .. m : Unit(Occurrences(f, a + i - 1), TRUE) \in Pieces
      BY <1>3, <1>4, <2>1
    <2>4. RowsOf(f, a, b) \in [1 .. m -> Pieces]
      BY <2>2, <2>3
    <2>5. RowsOf(f, a, b) \in Seq(Pieces) /\ Len(RowsOf(f, a, b)) = m
      BY <2>1, <2>4
    <2> QED
      BY <2>5 DEF m
  <1>5. RowsOf(f, t.first + 2, t.last) \in Seq(Pieces)
    <2>1. t.first + 2 \in Nat /\ t.first + 2 <= t.last + 1
          /\ (t.first + 2 .. t.last) \subseteq LinesOf(t)
      BY <1>1
    <2> QED
      BY <1>1, <1>4, <2>1
  <1>6. HeaderRows(f, t) \in Seq(Pieces) /\ Len(HeaderRows(f, t)) = 2
    <2> DEFINE a == t.first
               b == t.first + 1
    <2>1. /\ a \in Nat /\ b \in Nat /\ a <= b + 1 /\ b - a + 1 = 2
          /\ (a .. b) \subseteq LinesOf(t)
      BY <1>1
    <2>2. HeaderRows(f, t) = RowsOf(f, a, b)
      BY DEF HeaderRows
    <2> HIDE DEF a, b
    <2>3. RowsOf(f, a, b) \in Seq(Pieces) /\ Len(RowsOf(f, a, b)) = b - a + 1
      BY <1>4, <2>1
    <2> QED
      BY <2>1, <2>2, <2>3
  <1> QED
    BY <1>5, <1>6

\* A chunk has its type.
LEMMA ChunkOfFacts ==
    ASSUME NEW f, NEW part \in Parts(f), NEW kind \in {"section", "table"},
           NEW ps \in Seq(Pieces), ps # <<>>, NEW sep \in {1, 2}
    PROVE  ChunkOf(kind, part, ps, sep) \in ChunksOf(f)
  <1>1. JoinLen(ps, sep) \in Nat \ {0}
    BY JoinLenFacts
  <1> QED
    BY <1>1 DEF ChunkOf, ChunksOf

\* The overlap is made of units and keeps to its length.
LEMMA OverlapUnits ==
    ASSUME NEW ps \in Seq(Units)
    PROVE  OverlapPieces(ps) \in Seq(Units) /\ SumLen(OverlapPieces(ps)) <= Overlap
  <1>1. Overlap \in Nat
    BY ChunkerAssumption
  <1>2. \E k \in 1 .. Len(ps) + 1 :
            /\ OverlapPieces(ps) = SubSeq(ps, k, Len(ps))
            /\ OverlapPieces(ps) \in Seq(Units)
            /\ SumLen(OverlapPieces(ps)) <= Overlap
    BY ONLY <1>1, UnitsArePieces, OverlapFacts, ps \in Seq(Units), Zenon
  <1> QED
    BY <1>2

\* The sequence of one element.
LEMMA OneElement ==
    ASSUME NEW T, NEW x \in T
    PROVE  <<x>> \in Seq(T) /\ <<x>> # <<>>
  OBVIOUS

\* The empty sequence is one of anything.
LEMMA EmptySequence == \A T : <<>> \in Seq(T)
  OBVIOUS

\* The initial states have their types.
LEMMA TypeInit == Init => TypeInv
  <1> SUFFICES ASSUME Init PROVE TypeInv
    OBVIOUS
  <1>1. IsFile(file)
    BY FileFacts DEF Init
  <1>2. sections \in Seq(Parts(file)) /\ tables \in Seq(TableParts(file))
    BY <1>1, SectionsFacts, TablesFacts DEF Init
  <1>3. units \in Seq(Pieces) /\ pieces \in Seq(Pieces) /\ chunks \in Seq(ChunksOf(file))
    BY EmptySequence DEF Init
  <1> QED
    BY <1>2, <1>3 DEF Init, TypeInv

\* Every step keeps the types, and what the control state says of the variables.
LEMMA TypeNext == TypeInv /\ [Next]_vars => TypeInv'
  <1> SUFFICES ASSUME TypeInv, [Next]_vars
               PROVE  TypeInv'
    OBVIOUS
  <1> USE DEF TypeInv, input
  <1>0. IsFile(file)
    BY FileFacts
  <1>1. \A p \in Parts(file) :
            /\ PartLen(file, p) \in Nat \ {0}
            /\ WordsOf(file, p) \in Texts
            /\ Unit(WordsOf(file, p), TRUE) \in Pieces
    <2>1. \A p \in Parts(file) : p \in Intervals(Len(file)) /\ HasText(file, p)
      BY DEF Parts
    <2> QED
      BY <1>0, <2>1, PartLenFacts, WordsOfFacts DEF Unit, Pieces
  <1>2. TableParts(file) \subseteq Parts(file)
    BY <1>0, TablesFacts
  <1>3. sections # <<>> => Head(sections) \in Parts(file) /\ Tail(sections) \in Seq(Parts(file))
    BY HeadAndTail
  <1>4. tables # <<>> =>
            /\ Head(tables) \in TableParts(file) /\ Tail(tables) \in Seq(TableParts(file))
            /\ Head(tables) \in Parts(file)
    BY <1>2, HeadAndTail
  <1>5. units # <<>> => Head(units) \in Pieces /\ Tail(units) \in Seq(Pieces)
    BY HeadAndTail
  <1>6. pc = "pack" /\ units # <<>> => Head(units) \in Units /\ Tail(units) \in Seq(Units)
    BY HeadAndTail
  <1>a. ASSUME NEW us \in Seq(Units)
        PROVE  us \in Seq(Pieces)
    BY UnitsArePieces
  <1>7. CASE KeepSection
    <2> DEFINE c == [kind |-> "section", part |-> Head(sections),
                     pieces |-> <<Unit(WordsOf(file, Head(sections)), TRUE)>>,
                     size |-> PartLen(file, Head(sections))]
    <2> DEFINE p == Head(sections)
               u == Unit(WordsOf(file, p), TRUE)
               l == PartLen(file, p)
    <2>1. c \in ChunksOf(file)
      <3>1. p \in Parts(file)
        BY <1>3, <1>7 DEF KeepSection
      <3>2. u \in Pieces /\ l \in Nat \ {0}
        BY <1>1, <3>1
      <3>3. c = [kind |-> "section", part |-> p, pieces |-> <<u>>, size |-> l]
        OBVIOUS
      <3> HIDE DEF c, p, u, l
      <3>4. <<u>> \in Seq(Pieces) \ {<<>>}
        BY <3>2, OneElement
      <3> QED
        BY <3>1, <3>2, <3>3, <3>4 DEF ChunksOf
    <2>2. Append(chunks, c) \in Seq(ChunksOf(file))
      <3> HIDE DEF c
      <3> QED
        BY <2>1
    <2> QED
      BY <1>3, <1>7, <2>2 DEF KeepSection
  <1>8. CASE SplitSection
    <2>1. UnitsOf(file, Head(sections)) \in Seq(Units) /\ UnitsOf(file, Head(sections)) # <<>>
      BY <1>0, <1>3, <1>8, UnitsFacts DEF SplitSection
    <2>2. UnitsOf(file, Head(sections)) \in Seq(Pieces) /\ <<>> \in Seq(Pieces)
          /\ <<>> \in Seq(Units)
      BY <2>1, UnitsArePieces
    <2> QED
      BY <1>8, <2>1, <2>2 DEF SplitSection
  <1>9. CASE AddUnit
    <2>1. Append(pieces, Head(units)) \in Seq(Units) /\ Append(pieces, Head(units)) # <<>>
      <3>1. pieces \in Seq(Units) /\ Head(units) \in Units
        BY <1>6, <1>9 DEF AddUnit
      <3> QED
        BY ONLY <3>1, AppendElements
    <2>2. Append(pieces, Head(units)) \in Seq(Pieces)
      BY <1>a, <2>1
    <2>3. UnitLen(Head(units)) \in Nat \ {0}
      <3>1. Head(units) \in Pieces
        BY <1>5, <1>9 DEF AddUnit
      <3> QED
        BY ONLY <3>1, EmptySequence, JoinLenFacts
    <2>4. /\ pc = "pack" /\ units # <<>> /\ pieces' = Append(pieces, Head(units))
          /\ units' = Tail(units) /\ size' = size + UnitLen(Head(units)) + 2
          /\ UNCHANGED <<file, format, pc, sections, tables, fallback, chunks>>
      BY <1>9 DEF AddUnit
    <2>5. size' \in Nat
      <3> DEFINE l == UnitLen(Head(units))
      <3>1. l \in Nat /\ size \in Nat /\ size' = size + l + 2
        BY <2>3, <2>4
      <3> HIDE DEF l
      <3> QED
        BY ONLY <3>1
    <2> QED
      BY <1>5, <1>6, <2>1, <2>2, <2>4, <2>5
  <1>10. CASE CloseChunk
    <2>1. ChunkOf("section", Head(sections), pieces, 2) \in ChunksOf(file)
      BY <1>3, <1>10, ChunkOfFacts DEF CloseChunk
    <2>2. OverlapPieces(pieces) \in Seq(Units)
      <3>1. pieces \in Seq(Units)
        BY <1>10 DEF CloseChunk
      <3> QED
        BY ONLY <3>1, OverlapUnits
    <2>3. pieces' \in Seq(Units) /\ pieces' # <<>>
      <3>1. Head(units) \in Units /\ pieces' = Append(OverlapPieces(pieces), Head(units))
        BY <1>6, <1>10 DEF CloseChunk
      <3> DEFINE o == OverlapPieces(pieces)
                 h == Head(units)
      <3>2. o \in Seq(Units) /\ h \in Units
        BY <2>2, <3>1
      <3> HIDE DEF o, h
      <3>3. Append(o, h) \in Seq(Units) /\ Append(o, h) # <<>>
        BY ONLY <3>2, AppendElements
      <3> QED
        BY <3>1, <3>3 DEF o, h
    <2>4. pieces' \in Seq(Pieces)
      BY <2>3, UnitsArePieces
    <2>5. JoinLen(pieces', 2) \in Nat
      BY <2>3, <2>4, JoinLenFacts
    <2>6. Append(chunks, ChunkOf("section", Head(sections), pieces, 2)) \in Seq(ChunksOf(file))
      BY <2>1
    <2> QED
      BY <1>5, <1>6, <1>10, <2>3, <2>4, <2>5, <2>6 DEF CloseChunk
  <1>11. CASE EndSection
    <2> DEFINE last == ChunkOf("section", Head(sections), pieces, 2)
               merged == ChunkOf("section", Head(sections), Last(chunks).pieces \o pieces, 2)
    <2>1. last \in ChunksOf(file)
      BY <1>3, <1>11, ChunkOfFacts DEF EndSection
    <2>2. ASSUME chunks # <<>>
          PROVE  Append(Front(chunks), merged) \in Seq(ChunksOf(file))
      <3>1. Last(chunks) \in ChunksOf(file) /\ Front(chunks) \in Seq(ChunksOf(file))
        BY <2>2, HeadAndTail
      <3>2. Last(chunks).pieces \in Seq(Pieces)
        BY <3>1 DEF ChunksOf
      <3>3. Last(chunks).pieces \o pieces \in Seq(Pieces)
            /\ Last(chunks).pieces \o pieces # <<>>
        BY <1>11, <3>2 DEF EndSection
      <3>4. merged \in ChunksOf(file)
        BY <1>3, <1>11, <3>3, ChunkOfFacts DEF EndSection
      <3> HIDE DEF merged
      <3> QED
        BY <3>1, <3>4
    <2>3. Append(chunks, last) \in Seq(ChunksOf(file))
      <3> HIDE DEF last
      <3> QED
        BY <2>1
    <2>4. \/ chunks' = Append(chunks, last)
          \/ chunks # <<>> /\ chunks' = Append(Front(chunks), merged)
      BY <1>11 DEF EndSection, InThisPart
    <2> HIDE DEF last, merged
    <2>5. chunks' \in Seq(ChunksOf(file))
      BY <2>2, <2>3, <2>4
    <2> QED
      BY <1>3, <1>11, <2>5 DEF EndSection
  <1>12. CASE SectionsEnd
    BY <1>12 DEF SectionsEnd
  <1>13. CASE SkipTable
    BY <1>4, <1>13 DEF SkipTable
  <1>14. CASE KeepTable
    <2> DEFINE c == ChunkOf("table", Head(tables),
                            <<Unit(WordsOf(file, Head(tables)), TRUE)>>, 1)
    <2>1. c \in ChunksOf(file)
      <3>1. <<Unit(WordsOf(file, Head(tables)), TRUE)>> \in Seq(Pieces)
            /\ <<Unit(WordsOf(file, Head(tables)), TRUE)>> # <<>>
        <4>1. Unit(WordsOf(file, Head(tables)), TRUE) \in Pieces
          BY <1>1, <1>4, <1>14 DEF KeepTable
        <4> QED
          BY <4>1, OneElement
      <3> QED
        BY <1>4, <1>14, <3>1, ChunkOfFacts DEF KeepTable
    <2>2. Append(chunks, c) \in Seq(ChunksOf(file))
      <3> HIDE DEF c
      <3> QED
        BY <2>1
    <2> QED
      BY <1>4, <1>14, <2>2 DEF KeepTable
  <1>15. CASE SplitTable
    <2>1. RowsOf(file, Head(tables).first + 2, Head(tables).last) \in Seq(Pieces)
          /\ <<>> \in Seq(Pieces)
      BY <1>0, <1>4, <1>15, RowsFacts DEF SplitTable
    <2> QED
      BY <1>15, <2>1 DEF SplitTable
  <1>16. CASE AddRow
    <2>1. Append(pieces, Head(units)) \in Seq(Pieces)
      BY <1>5, <1>16 DEF AddRow
    <2> QED
      BY <1>5, <1>16, <2>1 DEF AddRow
  <1>17. ASSUME pc = "rows", pieces # <<>>
         PROVE  Append(chunks, TableChunk) \in Seq(ChunksOf(file))
    <2>1. HeaderRows(file, Head(tables)) \in Seq(Pieces)
      BY <1>0, <1>4, <1>17, RowsFacts
    <2>2. HeaderRows(file, Head(tables)) \o pieces \in Seq(Pieces)
          /\ HeaderRows(file, Head(tables)) \o pieces # <<>>
      BY <1>17, <2>1
    <2>3. TableChunk \in ChunksOf(file)
      BY <1>4, <1>17, <2>2, ChunkOfFacts DEF TableChunk
    <2> QED
      BY <2>3
  <1>18. CASE CloseTableChunk
    <2>1. <<Head(units)>> \in Seq(Pieces)
      BY <1>5, <1>18 DEF CloseTableChunk
    <2> QED
      BY <1>5, <1>17, <1>18, <2>1 DEF CloseTableChunk
  <1>19. CASE EndTable
    BY <1>4, <1>17, <1>19 DEF EndTable
  <1>20. CASE FallBack
    BY <1>0, <1>20, WholeFileFacts DEF FallBack
  <1>21. CASE TablesEnd
    BY <1>21 DEF TablesEnd
  <1>22. CASE UNCHANGED vars
    BY <1>22 DEF vars
  <1> QED
    BY <1>7, <1>8, <1>9, <1>10, <1>11, <1>12, <1>13, <1>14, <1>15, <1>16, <1>18,
       <1>19, <1>20, <1>21, <1>22 DEF Next

\* Every variable has its type; pieces and chunks are never empty.
THEOREM ChunkerTypes == Spec => []TypeOK
  <1>1. TypeInv => TypeOK
    <2> SUFFICES ASSUME TypeInv PROVE TypeOK
      OBVIOUS
    <2> USE DEF TypeInv
    <2>1. \A p \in Parts(file) : IsInterval(p)
      BY DEF Parts, Intervals, IsInterval
    <2>2. \A p \in TableParts(file) : IsInterval(p)
      BY DEF TableParts, Intervals, IsInterval
    <2>3. \A u \in Pieces : IsPiece(u)
      BY DEF Pieces, Texts, IsPiece
    <2>4. \A ps \in Seq(Pieces) : \A j \in DOMAIN ps : IsPiece(ps[j])
      BY <2>3
    <2>5. \A i \in DOMAIN sections : IsInterval(sections[i])
      BY <2>1
    <2>6. \A i \in DOMAIN tables : IsInterval(tables[i])
      BY <2>2
    <2>7. \A c \in ChunksOf(file) :
              /\ c.kind \in {"section", "table"}
              /\ IsInterval(c.part)
              /\ c.size \in Nat \ {0}
              /\ c.pieces # <<>>
              /\ \A j \in DOMAIN c.pieces : IsPiece(c.pieces[j])
      BY <2>1, <2>4 DEF ChunksOf
    <2>8. \A i \in DOMAIN chunks : chunks[i] \in ChunksOf(file)
      OBVIOUS
    <2> QED
      BY <2>4, <2>5, <2>6, <2>7, <2>8 DEF TypeOK
  <1> QED
    BY <1>1, TypeInit, TypeNext, PTL DEF Spec

-----------------------------------------------------------------------------
(* Sizes. *)

\* Pieces exceed MaxSize only by a last one that is a single long word.
Tolerable(ps) ==
    JoinLen(ps, 2) > MaxSize =>
        Len(Last(ps).words) = 1 /\ UnitLen(Last(ps)) > TargetSize

Bounded(chunk) ==
    chunk.size > MaxSize =>
        IF chunk.kind = "table"
        THEN Len(chunk.pieces) = 3
        ELSE Len(Last(chunk.pieces).words) = 1 /\ UnitLen(Last(chunk.pieces)) > TargetSize

SizeInv ==
    /\ pc = "pack" /\ pieces # <<>> => JoinLen(pieces, 2) <= size /\ Tolerable(pieces)
    /\ pc = "rows" /\ Len(pieces) > 1 =>
          JoinLen(HeaderRows(file, Head(tables)) \o pieces, 1) <= MaxSize
    /\ \A c \in Range(chunks) : Bounded(c)

\* A unit after pieces that hold no more than the overlap.
LEMMA AfterOverlap ==
    ASSUME NEW ps \in Seq(Units), NEW u \in Units, SumLen(ps) <= Overlap
    PROVE  Tolerable(Append(ps, u))
  <1> DEFINE sum == SumLen(ps)
             n == Len(ps)
             l == UnitLen(u)
             j == JoinLen(Append(ps, u), 2)
  <1>1. ps \in Seq(Pieces) /\ u \in Pieces
    BY UnitsArePieces
  <1>2. sum \in Nat /\ n \in Nat /\ sum >= n /\ l \in Nat /\ j = sum + l + n * 2
    <2>1. SumLen(ps) \in Nat /\ SumLen(ps) >= Len(ps) /\ Len(ps) \in Nat
      BY <1>1, JoinLenFacts
    <2>2. UnitLen(u) \in Nat
      BY <1>1, JoinLenFacts
    <2>3. JoinLen(Append(ps, u), 2) = SumLen(ps) + UnitLen(u) + Len(ps) * 2
      BY <1>1, JoinLenFacts
    <2> QED
      BY <2>1, <2>2, <2>3
  <1>3. l <= TargetSize \/ Len(u.words) = 1
    BY DEF Units, Fit, UnitLen
  <1>4. Last(Append(ps, u)) = u
    BY <1>1 DEF Last
  <1>5. /\ sum <= Overlap /\ TargetSize + 3 * Overlap <= MaxSize
        /\ TargetSize \in Nat /\ Overlap \in Nat /\ MaxSize \in Nat
    BY ChunkerAssumption
  <1> HIDE DEF sum, n, l, j
  <1>6. l <= TargetSize => j <= MaxSize
    BY <1>2, <1>5
  <1>7. j > MaxSize => l > TargetSize
    BY <1>2, <1>5, <1>6
  <1> QED
    BY <1>2, <1>3, <1>4, <1>5, <1>7 DEF Tolerable, l, j

\* A unit that fits the pieces taken so far.
LEMMA AfterFit ==
    ASSUME NEW ps \in Seq(Units), NEW u \in Units, NEW taken \in Nat,
           ps # <<>> => JoinLen(ps, 2) <= taken /\ taken + UnitLen(u) + 2 <= TargetSize
    PROVE  /\ JoinLen(Append(ps, u), 2) <= taken + UnitLen(u) + 2
           /\ Tolerable(Append(ps, u))
  <1> DEFINE sum == SumLen(ps)
             n == Len(ps)
             l == UnitLen(u)
             j == JoinLen(ps, 2)
             k == JoinLen(Append(ps, u), 2)
  <1>1. ps \in Seq(Pieces) /\ u \in Pieces
    BY UnitsArePieces
  <1>2. /\ sum \in Nat /\ n \in Nat /\ sum >= n /\ l \in Nat
        /\ j = sum + (n - 1) * 2 /\ k = sum + l + n * 2
    <2>1. SumLen(ps) \in Nat /\ SumLen(ps) >= Len(ps) /\ Len(ps) \in Nat
      BY <1>1, JoinLenFacts
    <2>2. UnitLen(u) \in Nat
      BY <1>1, JoinLenFacts
    <2>3. JoinLen(Append(ps, u), 2) = SumLen(ps) + UnitLen(u) + Len(ps) * 2
      BY <1>1, JoinLenFacts
    <2>4. JoinLen(ps, 2) = SumLen(ps) + (Len(ps) - 1) * 2
      BY <1>1, JoinLenFacts
    <2> QED
      BY <2>1, <2>2, <2>3, <2>4
  <1>3. /\ TargetSize + 3 * Overlap <= MaxSize
        /\ TargetSize \in Nat /\ Overlap \in Nat /\ MaxSize \in Nat
    BY ChunkerAssumption
  <1>4. CASE ps = <<>>
    <2>1. Append(ps, u) = <<u>> /\ Last(<<u>>) = u
      BY <1>4 DEF Last
    <2>2. k = l
      BY <1>1, <2>1, JoinLenFacts
    <2>3. l <= TargetSize \/ Len(u.words) = 1
      BY DEF Units, Fit, UnitLen
    <2> HIDE DEF sum, n, l, j, k
    <2>4. k <= taken + l + 2 /\ (k > MaxSize => l > TargetSize)
      BY <1>2, <1>3, <2>2
    <2> QED
      BY <1>2, <1>3, <2>1, <2>3, <2>4 DEF Tolerable, k, l
  <1>5. CASE ps # <<>>
    <2>1. j <= taken /\ taken + l + 2 <= TargetSize
      BY <1>5
    <2> HIDE DEF sum, n, l, j, k
    <2>2. k = j + l + 2
      BY <1>2
    <2>3. k <= taken + l + 2 /\ k <= MaxSize
      BY <1>2, <1>3, <2>1, <2>2
    <2> QED
      BY <1>2, <1>3, <2>3 DEF Tolerable, k, l
  <1> QED
    BY <1>4, <1>5

\* The elements of a sequence with any one more.
LEMMA AppendRange ==
    ASSUME NEW T, NEW s \in Seq(T), NEW x
    PROVE  Range(Append(s, x)) = Range(s) \cup {x}
  <1>1. s \in Seq(T \cup {x}) /\ x \in T \cup {x}
    OBVIOUS
  <1> QED
    BY ONLY <1>1, AppendElements

\* One sequence after another.
LEMMA Joined ==
    ASSUME NEW T, NEW s \in Seq(T), NEW t \in Seq(T)
    PROVE  s \o t \in Seq(T) /\ Len(s \o t) = Len(s) + Len(t)
  OBVIOUS

\* Sizes are bounded at the start.
LEMMA SizeInit == Init => SizeInv
  BY DEF Init, SizeInv, Range

\* Every step keeps what the invariant says about sizes.
LEMMA SizeNext == TypeInv /\ TypeInv' /\ SizeInv /\ [Next]_vars => SizeInv'
  <1> SUFFICES ASSUME TypeInv, TypeInv', SizeInv, [Next]_vars
               PROVE  SizeInv'
    OBVIOUS
  <1> USE DEF SizeInv, input
  <1>0. IsFile(file)
    BY FileFacts DEF TypeInv
  <1>1. /\ pc = "pack" => units \in Seq(Units) /\ pieces \in Seq(Units)
        /\ units \in Seq(Pieces) /\ pieces \in Seq(Pieces) /\ size \in Nat
        /\ chunks \in Seq(ChunksOf(file))
    BY DEF TypeInv
  <1>2. pc = "pack" /\ units # <<>> => Head(units) \in Units
    BY <1>1, HeadAndTail
  <1>3. units # <<>> => Head(units) \in Pieces
    BY <1>1, HeadAndTail
  <1>4. ASSUME NEW cs \in Seq(ChunksOf(file)), NEW c,
               \A d \in Range(cs) : Bounded(d), Bounded(c)
        PROVE  \A d \in Range(Append(cs, c)) : Bounded(d)
    BY <1>4, AppendRange
  <1>5. MaxSize \in Nat /\ TargetSize \in Nat /\ TargetSize <= MaxSize /\ Overlap \in Nat
    BY ChunkerAssumption
  <1>6. \A p \in Parts(file) :
            /\ PartLen(file, p) \in Nat /\ TextLen(WordsOf(file, p)) <= PartLen(file, p)
            /\ Unit(WordsOf(file, p), TRUE) \in Pieces
            /\ UnitLen(Unit(WordsOf(file, p), TRUE)) = TextLen(WordsOf(file, p))
    <2>1. \A p \in Parts(file) : p \in Intervals(Len(file)) /\ HasText(file, p)
      BY DEF Parts
    <2> QED
      BY <1>0, <2>1, PartLenFacts, WordsOfFacts DEF Unit, Pieces, UnitLen
  <1>7. CASE KeepSection
    <2> DEFINE c == [kind |-> "section", part |-> Head(sections),
                     pieces |-> <<Unit(WordsOf(file, Head(sections)), TRUE)>>,
                     size |-> PartLen(file, Head(sections))]
    <2>1. Head(sections) \in Parts(file)
      BY <1>7, HeadAndTail DEF KeepSection, TypeInv
    <2>2. ~ (c.size > MaxSize)
      <3> DEFINE l == PartLen(file, Head(sections))
      <3>1. l \in Nat /\ l <= TargetSize
        BY <1>6, <1>7, <2>1 DEF KeepSection
      <3>2. c.size = l
        OBVIOUS
      <3> HIDE DEF l, c
      <3> QED
        BY <1>5, <3>1, <3>2
    <2>3. Bounded(c)
      <3> HIDE DEF c
      <3> QED
        BY <2>2 DEF Bounded
    <2>4. chunks' = Append(chunks, c)
      BY <1>7 DEF KeepSection
    <2> HIDE DEF c
    <2>5. \A d \in Range(chunks') : Bounded(d)
      BY <1>1, <1>4, <2>3, <2>4
    <2> QED
      BY <1>7, <2>5 DEF KeepSection
  <1>8. CASE SplitSection
    BY <1>8 DEF SplitSection
  <1>9. CASE AddUnit
    <2> DEFINE u == Head(units)
    <2>1. pieces \in Seq(Units) /\ u \in Units /\ size \in Nat
      BY <1>1, <1>2, <1>9 DEF AddUnit
    <2>2. pieces # <<>> => JoinLen(pieces, 2) <= size /\ size + UnitLen(u) + 2 <= TargetSize
      BY <1>9 DEF AddUnit, FitsChunk
    <2>3. pieces' = Append(pieces, u) /\ size' = size + UnitLen(u) + 2
      BY <1>9 DEF AddUnit
    <2> HIDE DEF u
    <2>4. JoinLen(pieces', 2) <= size' /\ Tolerable(pieces')
      BY <2>1, <2>2, <2>3, AfterFit
    <2> QED
      BY <1>9, <2>4 DEF AddUnit
  <1>10. ASSUME NEW ps, NEW part, Tolerable(ps)
         PROVE  Bounded(ChunkOf("section", part, ps, 2))
    BY <1>10 DEF Bounded, Tolerable, ChunkOf
  <1>11. CASE CloseChunk
    <2> DEFINE c == ChunkOf("section", Head(sections), pieces, 2)
               u == Head(units)
               o == OverlapPieces(pieces)
    <2>1. Bounded(c)
      BY <1>10, <1>11 DEF CloseChunk
    <2>2. chunks' = Append(chunks, c)
      BY <1>11 DEF CloseChunk
    <2>3. u \in Units /\ o \in Seq(Units) /\ SumLen(o) <= Overlap
      BY <1>1, <1>2, <1>11, OverlapUnits DEF CloseChunk
    <2>4. pieces' = Append(o, u) /\ size' = JoinLen(pieces', 2) /\ pc' = "pack"
      BY <1>11 DEF CloseChunk
    <2> HIDE DEF c, u, o
    <2>5. \A d \in Range(chunks') : Bounded(d)
      BY <1>1, <1>4, <2>1, <2>2
    <2>6. Tolerable(pieces')
      BY <2>3, <2>4, AfterOverlap
    <2>7. size' \in Nat
      BY DEF TypeInv
    <2>8. JoinLen(pieces', 2) <= size'
      BY <2>4, <2>7
    <2> QED
      BY <2>4, <2>5, <2>6, <2>8
  <1>12. CASE EndSection
    <2> DEFINE last == ChunkOf("section", Head(sections), pieces, 2)
               merged == ChunkOf("section", Head(sections), Last(chunks).pieces \o pieces, 2)
    <2>1. Bounded(last)
      BY <1>10, <1>12 DEF EndSection, TypeInv
    <2>2. \/ chunks' = Append(chunks, last)
          \/ /\ chunks # <<>> /\ merged.size <= MaxSize
             /\ chunks' = Append(Front(chunks), merged)
      BY <1>12 DEF EndSection, InThisPart
    <2> HIDE DEF last
    <2>3. CASE chunks' = Append(chunks, last)
      BY <1>1, <1>4, <1>12, <2>1, <2>3 DEF EndSection
    <2>4. CASE /\ chunks # <<>> /\ merged.size <= MaxSize
               /\ chunks' = Append(Front(chunks), merged)
      <3>1. Front(chunks) \in Seq(ChunksOf(file)) /\ Range(Front(chunks)) \subseteq Range(chunks)
        BY <1>1, <2>4, HeadAndTail
      <3>2. merged.size \in Nat
        <4>1. merged.size = JoinLen(Last(chunks).pieces \o pieces, 2)
          BY DEF ChunkOf
        <4>2. Last(chunks).pieces \in Seq(Pieces)
          <5>1. Last(chunks) \in ChunksOf(file)
            BY <1>1, <2>4, HeadAndTail
          <5> QED
            BY <5>1 DEF ChunksOf
        <4>3. pieces # <<>>
          BY <1>12 DEF EndSection, TypeInv
        <4>4. Last(chunks).pieces \o pieces \in Seq(Pieces)
              /\ Last(chunks).pieces \o pieces # <<>>
          BY <1>1, <4>2, <4>3
        <4> QED
          BY <4>1, <4>4, JoinLenFacts
      <3> HIDE DEF merged
      <3>3. Bounded(merged)
        BY <1>5, <2>4, <3>2 DEF Bounded
      <3>4. \A d \in Range(chunks') : Bounded(d)
        BY <1>4, <2>4, <3>1, <3>3
      <3> QED
        BY <1>12, <3>4 DEF EndSection
    <2> QED
      BY <2>2, <2>3, <2>4
  <1>13. CASE SectionsEnd
    BY <1>13 DEF SectionsEnd
  <1>14. CASE SkipTable
    BY <1>14 DEF SkipTable
  <1>15. CASE KeepTable
    <2> DEFINE p == Head(tables)
               u == Unit(WordsOf(file, p), TRUE)
               c == ChunkOf("table", p, <<u>>, 1)
    <2>1. p \in Parts(file) /\ PartLen(file, p) <= MaxSize
      <3>1. tables \in Seq(TableParts(file)) /\ tables # <<>>
        BY <1>15 DEF KeepTable, TypeInv
      <3>2. p \in TableParts(file)
        BY <3>1, HeadAndTail
      <3> QED
        BY <1>0, <1>15, <3>2, TablesFacts DEF KeepTable
    <2>2. u \in Pieces /\ UnitLen(u) <= MaxSize
      <3>1. UnitLen(u) = TextLen(WordsOf(file, p)) /\ u \in Pieces
        BY <1>6, <2>1
      <3> DEFINE a == UnitLen(u)
                 b == PartLen(file, p)
      <3>2. a \in Nat
        BY <3>1, JoinLenFacts, EmptySequence
      <3>3. b \in Nat /\ a <= b /\ b <= MaxSize
        BY <1>6, <2>1, <3>1
      <3> HIDE DEF a, b
      <3>4. a <= MaxSize
        BY <1>5, <3>2, <3>3
      <3> QED
        BY <3>1, <3>4 DEF a
    <2>3. chunks' = Append(chunks, c)
      BY <1>15 DEF KeepTable
    <2> HIDE DEF p, u
    <2>4. JoinLen(<<u>>, 1) = UnitLen(u) /\ UnitLen(u) \in Nat
      BY <2>2, JoinLenFacts, EmptySequence
    <2>5. Bounded(c)
      BY <1>5, <2>2, <2>4 DEF Bounded, ChunkOf
    <2> HIDE DEF c
    <2>6. \A d \in Range(chunks') : Bounded(d)
      BY <1>1, <1>4, <2>3, <2>5
    <2> QED
      BY <1>15, <2>6 DEF KeepTable
  <1>16. CASE SplitTable
    <2>1. pieces' = <<>> /\ pc' = "rows" /\ chunks' = chunks
      BY <1>16 DEF SplitTable
    <2>2. Len(pieces') = 0
      BY <2>1
    <2> QED
      BY <2>1, <2>2
  <1>17. CASE AddRow
    <2>1. /\ pc' = "rows" /\ chunks' = chunks /\ tables' = tables /\ file' = file
          /\ pieces' = Append(pieces, Head(units))
          /\ RowFits(Head(tables), Head(units)) \/ pieces = <<>>
      BY <1>17 DEF AddRow
    <2>2. CASE RowFits(Head(tables), Head(units))
      BY <2>1, <2>2 DEF RowFits
    <2>3. CASE pieces = <<>>
      <3>1. Len(pieces') = 1
        BY <2>1, <2>3
      <3> QED
        BY <2>1, <3>1
    <2> QED
      BY <2>1, <2>2, <2>3
  <1>18. ASSUME pc = "rows", pieces # <<>>
         PROVE  \A d \in Range(Append(chunks, TableChunk)) : Bounded(d)
    <2> DEFINE h == HeaderRows(file, Head(tables))
               j == JoinLen(h \o pieces, 1)
    <2>1. h \in Seq(Pieces) /\ Len(h) = 2
      <3>1. tables \in Seq(TableParts(file)) /\ tables # <<>>
        BY <1>18 DEF TypeInv
      <3>2. Head(tables) \in TableParts(file)
        BY <3>1, HeadAndTail
      <3> QED
        BY <1>0, <3>2, RowsFacts
    <2>2. /\ TableChunk.kind = "table" /\ TableChunk.pieces = h \o pieces
          /\ TableChunk.size = j
      BY DEF TableChunk, ChunkOf
    <2>3. Len(pieces) > 1 => j <= MaxSize
      BY <1>18
    <2> HIDE DEF h
    <2>4. Len(pieces) \in Nat /\ Len(pieces) > 0 /\ Len(h \o pieces) = 2 + Len(pieces)
          /\ h \o pieces \in Seq(Pieces) /\ h \o pieces # <<>>
      <3>1. Len(pieces) \in Nat /\ Len(pieces) > 0
        BY <1>1, <1>18
      <3>2. h \o pieces \in Seq(Pieces) /\ Len(h \o pieces) = Len(h) + Len(pieces)
        BY ONLY <1>1, <2>1, Joined
      <3>3. Len(h \o pieces) = 2 + Len(pieces)
        BY <2>1, <3>2
      <3>4. Len(h \o pieces) # 0
        BY <3>1, <3>3
      <3> QED
        BY <3>1, <3>2, <3>3, <3>4
    <2>5. j \in Nat
      BY <2>4, JoinLenFacts
    <2> HIDE DEF j
    <2>6. j > MaxSize => Len(h \o pieces) = 3
      BY <1>5, <2>3, <2>4, <2>5
    <2>7. Bounded(TableChunk)
      BY <2>2, <2>6 DEF Bounded
    <2> QED
      BY <1>1, <1>4, <2>7
  <1>19. CASE CloseTableChunk
    <2>1. /\ pc' = "rows" /\ chunks' = Append(chunks, TableChunk)
          /\ pieces' = <<Head(units)>>
      BY <1>19 DEF CloseTableChunk
    <2>2. Len(pieces') = 1
      BY <2>1
    <2> QED
      BY <1>18, <1>19, <2>1, <2>2 DEF CloseTableChunk
  <1>20. CASE EndTable
    BY <1>18, <1>20 DEF EndTable
  <1>21. CASE FallBack
    BY <1>21 DEF FallBack
  <1>22. CASE TablesEnd
    BY <1>22 DEF TablesEnd
  <1>23. CASE UNCHANGED vars
    BY <1>23 DEF vars
  <1> QED
    BY <1>7, <1>8, <1>9, <1>11, <1>12, <1>13, <1>14, <1>15, <1>16, <1>17, <1>19,
       <1>20, <1>21, <1>22, <1>23 DEF Next

\* A chunk exceeds MaxSize only for text that cannot be divided: a single word
\* beyond TargetSize, alone but for the overlap before it, or one row of a table under
\* its header.
THEOREM OnlyLongWordsAndRowsExceed == Spec => []OnlyIndivisibleExceeds
  <1>1. SizeInv => OnlyIndivisibleExceeds
    <2> SUFFICES ASSUME SizeInv, NEW i \in DOMAIN chunks PROVE Bounded(chunks[i])
      BY DEF OnlyIndivisibleExceeds, Bounded
    <2> QED
      BY DEF SizeInv, Range
  <1> QED
    BY <1>1, TypeInit, TypeNext, SizeInit, SizeNext, PTL DEF Spec

-----------------------------------------------------------------------------
(* Words that are still to come. *)

\* The words of the chunks of sections.
SectionWords(cs) == UNION {WordsIn(c.pieces) : c \in {d \in Range(cs) : d.kind = "section"}}

ToCover == IF fallback THEN DOMAIN file ELSE BodyLines

\* The sections no word of which has been taken yet.
SectionsToCome == IF pc = "pack" THEN Tail(sections) ELSE sections

\* A line is in chunks, in a section to come or in the one that is being packed.
Accounted(i) ==
    \/ LineWords(file, i) \subseteq SectionWords(chunks)
    \/ \E p \in Range(SectionsToCome) : i \in LinesOf(p)
    \/ /\ pc = "pack"
       /\ LineWords(file, i) \subseteq SectionWords(chunks) \cup WordsIn(pieces) \cup WordsIn(units)

CoverInv ==
    /\ \A i \in ToCover : Accounted(i)
    /\ pc \in {"tables", "rows", "done"} => sections = <<>>
    /\ ~ fallback /\ BodyLines = {} => chunks = <<>> /\ sections = <<>> /\ tables = <<>>
    /\ pc = "done" /\ BodyLines = {} /\ ~ fallback => WholeFile(file) = <<>>

\* The words of pieces, word by word.
LEMMA WordsInElements ==
    \A ps, w : w \in WordsIn(ps) <=> \E u \in Range(ps) : w \in Range(u.words)
  BY DEF WordsIn, Range

\* The words of pieces when one is added, taken, or others follow.
LEMMA WordsInFacts ==
    ASSUME NEW T, NEW ps \in Seq(T)
    PROVE  /\ \A u : WordsIn(Append(ps, u)) = WordsIn(ps) \cup Range(u.words)
           /\ \A qs \in Seq(T) : WordsIn(ps \o qs) = WordsIn(ps) \cup WordsIn(qs)
           /\ ps # <<>> => WordsIn(ps) = Range(Head(ps).words) \cup WordsIn(Tail(ps))
  <1>1. ASSUME NEW u
        PROVE  WordsIn(Append(ps, u)) = WordsIn(ps) \cup Range(u.words)
    <2>1. Range(Append(ps, u)) = Range(ps) \cup {u}
      BY AppendRange
    <2> QED
      BY <2>1, WordsInElements
  <1>2. ASSUME NEW qs \in Seq(T)
        PROVE  WordsIn(ps \o qs) = WordsIn(ps) \cup WordsIn(qs)
    <2>1. \A x : x \in Range(ps \o qs) <=> x \in Range(ps) \/ x \in Range(qs)
      BY RangeConcat
    <2> QED
      BY <2>1, WordsInElements
  <1>3. ASSUME ps # <<>>
        PROVE  WordsIn(ps) = Range(Head(ps).words) \cup WordsIn(Tail(ps))
    <2>1. Range(ps) = {Head(ps)} \cup Range(Tail(ps))
      BY <1>3, HeadAndTail
    <2> QED
      BY <2>1, WordsInElements
  <1> QED
    BY <1>1, <1>2, <1>3

\* The words of the chunks of sections, word by word.
LEMMA SectionWordsElements ==
    \A cs, w : w \in SectionWords(cs) <=>
                   \E c \in Range(cs) : c.kind = "section" /\ w \in WordsIn(c.pieces)
  BY DEF SectionWords

\* A chunk more, or one that takes the place of the last and has its words too.
LEMMA SectionWordsFacts ==
    ASSUME NEW T, NEW cs \in Seq(T), NEW c
    PROVE  /\ SectionWords(cs) \subseteq SectionWords(Append(cs, c))
           /\ c.kind = "section" => WordsIn(c.pieces) \subseteq SectionWords(Append(cs, c))
           /\ /\ cs # <<>>
              /\ c.kind = "section"
              /\ WordsIn(Last(cs).pieces) \subseteq WordsIn(c.pieces)
              => SectionWords(cs) \cup WordsIn(c.pieces)
                     \subseteq SectionWords(Append(Front(cs), c))
  <1>1. Range(Append(cs, c)) = Range(cs) \cup {c}
    BY AppendRange
  <1>2. cs # <<>> => /\ Range(cs) = Range(Front(cs)) \cup {Last(cs)}
                     /\ Range(Append(Front(cs), c)) = Range(Front(cs)) \cup {c}
    <2> SUFFICES ASSUME cs # <<>>
                 PROVE  /\ Range(cs) = Range(Front(cs)) \cup {Last(cs)}
                        /\ Range(Append(Front(cs), c)) = Range(Front(cs)) \cup {c}
      OBVIOUS
    <2>1. Front(cs) \in Seq(T) /\ Range(cs) = Range(Front(cs)) \cup {Last(cs)}
      BY HeadAndTail
    <2> QED
      BY <2>1, AppendRange
  <1> QED
    BY <1>1, <1>2, SectionWordsElements

\* At the start every line is in a section to come.
LEMMA CoverInit == Init => CoverInv
  <1> SUFFICES ASSUME Init PROVE CoverInv
    OBVIOUS
  <1>1. IsFile(file)
    BY FileFacts DEF Init
  <1>2. \A i \in DOMAIN file : IsBody(file, format, i) <=> i \in BodyLines
    BY DEF IsBody, BodyLines
  <1>3. \A i \in ToCover : Accounted(i)
    <2> SUFFICES ASSUME NEW i \in BodyLines PROVE Accounted(i)
      BY DEF Init, ToCover
    <2>1. i \in DOMAIN file
      BY DEF BodyLines
    <2>2. Blank(file, i) \/ \E p \in Range(sections) : i \in LinesOf(p)
      BY <1>1, <1>2, <2>1, SectionsFacts DEF Init
    <2>3. Blank(file, i) => LineWords(file, i) = {}
      BY <1>1, <2>1, BlankLines
    <2>4. SectionsToCome = sections
      BY DEF Init, SectionsToCome
    <2> QED
      BY <2>2, <2>3, <2>4 DEF Accounted
  <1>4. BodyLines = {} => chunks = <<>> /\ sections = <<>> /\ tables = <<>>
    <2> SUFFICES ASSUME BodyLines = {} PROVE sections = <<>> /\ tables = <<>>
      BY DEF Init
    <2>1. \A i \in DOMAIN file : ~ IsBody(file, format, i)
      BY <1>2
    <2> QED
      BY <1>1, <2>1, SectionsFacts, TablesFacts DEF Init
  <1> QED
    BY <1>3, <1>4 DEF Init, CoverInv

\* Every step leaves every line accounted for.
LEMMA CoverNext == TypeInv /\ TypeInv' /\ CoverInv /\ [Next]_vars => CoverInv'
  <1> SUFFICES ASSUME TypeInv, TypeInv', CoverInv, [Next]_vars
               PROVE  CoverInv'
    OBVIOUS
  <1> USE DEF input
  <1> DEFINE before == SectionWords(chunks)
             after == SectionWords(chunks')
  <1>0. IsFile(file)
    BY FileFacts DEF TypeInv
  <1>1. /\ sections \in Seq(Parts(file)) /\ units \in Seq(Pieces) /\ pieces \in Seq(Pieces)
        /\ chunks \in Seq(ChunksOf(file))
        /\ pc = "pack" => sections # <<>>
        /\ pc = "rows" => tables # <<>>
    BY DEF TypeInv
  <1>2. /\ \A i \in ToCover : Accounted(i)
        /\ pc \in {"tables", "rows", "done"} => sections = <<>>
        /\ ~ fallback /\ BodyLines = {} => chunks = <<>> /\ sections = <<>> /\ tables = <<>>
        /\ pc = "done" /\ BodyLines = {} /\ ~ fallback => WholeFile(file) = <<>>
    BY DEF CoverInv
  <1>3. sections # <<>> =>
            /\ Head(sections) \in Parts(file)
            /\ Range(sections) = {Head(sections)} \cup Range(Tail(sections))
    BY <1>1, HeadAndTail
  <1>4. ToCover \subseteq DOMAIN file
    BY DEF ToCover, BodyLines
  <1>5. \A i \in ToCover :
            \/ LineWords(file, i) \subseteq before
            \/ \E p \in Range(SectionsToCome) : i \in LinesOf(p)
            \/ /\ pc = "pack"
               /\ LineWords(file, i) \subseteq before \cup WordsIn(pieces) \cup WordsIn(units)
    BY <1>2 DEF Accounted
  \* A step leaves every line accounted for if each one stays where it is, or moves on.
  <1>6. ASSUME file' = file, format' = format, fallback' = fallback,
               \A i \in ToCover :
                  \/ LineWords(file, i) \subseteq after
                  \/ \E p \in Range(SectionsToCome') : i \in LinesOf(p)
                  \/ /\ pc' = "pack"
                     /\ LineWords(file, i)
                            \subseteq after \cup WordsIn(pieces') \cup WordsIn(units')
        PROVE  \A i \in ToCover' : Accounted(i)'
    <2>1. ToCover' = ToCover
      BY <1>6 DEF ToCover, BodyLines
    <2> QED
      BY <1>6, <2>1 DEF Accounted, LineWords
  <1>7. ASSUME file' = file, format' = format
        PROVE  BodyLines' = BodyLines
    BY <1>7 DEF BodyLines
  <1>8. pc \in {"tables", "rows"} =>
            /\ sections = <<>>
            /\ \A i \in ToCover : LineWords(file, i) \subseteq before
    <2> SUFFICES ASSUME pc \in {"tables", "rows"}
                 PROVE  \A i \in ToCover : LineWords(file, i) \subseteq before
      BY <1>2
    <2>1. SectionsToCome = <<>> /\ Range(<<>>) = {}
      BY <1>2 DEF SectionsToCome, Range
    <2> QED
      BY <1>5, <2>1
  \* Steps among the tables: the chunks of sections stay.
  <1>9. ASSUME pc \in {"tables", "rows"}, tables # <<>>, before \subseteq after,
               pc' \in {"tables", "rows"},
               file' = file, format' = format, fallback' = fallback, sections' = sections
        PROVE  CoverInv'
    <2>1. \A i \in ToCover' : Accounted(i)'
      BY <1>6, <1>8, <1>9
    <2>2. BodyLines' = BodyLines
      BY <1>7, <1>9
    <2>3. sections' = <<>>
      BY <1>8, <1>9
    <2>4. ~ (~ fallback' /\ BodyLines' = {})
      BY <1>2, <1>9, <2>2
    <2> QED
      BY <1>9, <2>1, <2>3, <2>4 DEF CoverInv
  \* Steps among the sections.
  <1>10. ASSUME sections # <<>>, \A i \in ToCover' : Accounted(i)', pc' \in {"sections", "pack"},
                file' = file, format' = format, fallback' = fallback
         PROVE  CoverInv'
    <2>1. BodyLines' = BodyLines
      BY <1>7, <1>10
    <2>2. ~ (~ fallback' /\ BodyLines' = {})
      BY <1>2, <1>10, <2>1
    <2> QED
      BY <1>10, <2>2 DEF CoverInv
  <1>11. \A p \in Parts(file) : \A i \in LinesOf(p) :
             LineWords(file, i) \subseteq Range(WordsOf(file, p))
    <2>1. \A p \in Parts(file) : p \in Intervals(Len(file))
      BY DEF Parts
    <2> QED
      BY <1>0, <2>1, WordsOfFacts
  <1>12. CASE KeepSection
    <2> DEFINE h == Head(sections)
               u == Unit(WordsOf(file, h), TRUE)
               c == [kind |-> "section", part |-> h, pieces |-> <<u>>,
                     size |-> PartLen(file, h)]
    <2>1. /\ chunks' = Append(chunks, c) /\ pc = "sections" /\ pc' = "sections"
          /\ sections # <<>> /\ sections' = Tail(sections)
          /\ file' = file /\ format' = format /\ fallback' = fallback
      BY <1>12 DEF KeepSection
    <2>2. /\ c.kind = "section" /\ c.pieces = <<u>> /\ u.words = WordsOf(file, h)
      BY DEF Unit
    <2> HIDE DEF c, u, h
    <2>3. before \subseteq after /\ WordsIn(c.pieces) \subseteq after
      BY <1>1, <2>1, <2>2, SectionWordsFacts
    <2>4. Range(WordsOf(file, h)) \subseteq after
      <3>1. u \in Range(<<u>>)
        BY DEF Range
      <3> QED
        BY <2>2, <2>3, <3>1, WordsInElements
    <2>5. ASSUME NEW i \in ToCover
          PROVE  \/ LineWords(file, i) \subseteq after
                 \/ \E p \in Range(Tail(sections)) : i \in LinesOf(p)
      <3>1. \/ LineWords(file, i) \subseteq before
            \/ \E p \in Range(sections) : i \in LinesOf(p)
        BY <1>5, <2>1 DEF SectionsToCome
      <3>2. h \in Parts(file) /\ Range(sections) = {h} \cup Range(Tail(sections))
        BY <1>3, <2>1 DEF h
      <3> QED
        BY <1>11, <2>3, <2>4, <3>1, <3>2
    <2>6. SectionsToCome' = Tail(sections)
      BY <2>1 DEF SectionsToCome
    <2>7. \A i \in ToCover' : Accounted(i)'
      BY <1>6, <2>1, <2>5, <2>6
    <2> QED
      BY <1>10, <2>1, <2>7
  <1>13. CASE SplitSection
    <2> DEFINE h == Head(sections)
    <2>1. /\ chunks' = chunks /\ pc = "sections" /\ pc' = "pack"
          /\ sections # <<>> /\ sections' = sections /\ units' = UnitsOf(file, h)
          /\ file' = file /\ format' = format /\ fallback' = fallback
      BY <1>13 DEF SplitSection
    <2> HIDE DEF h
    <2>2. h \in Parts(file) /\ Range(sections) = {h} \cup Range(Tail(sections))
      BY <1>3, <2>1 DEF h
    <2>3. \A i \in LinesOf(h) : LineWords(file, i) \subseteq WordsIn(units')
      BY <1>0, <2>1, <2>2, UnitsFacts
    <2>4. ASSUME NEW i \in ToCover
          PROVE  \/ LineWords(file, i) \subseteq after
                 \/ \E p \in Range(Tail(sections)) : i \in LinesOf(p)
                 \/ LineWords(file, i)
                        \subseteq after \cup WordsIn(pieces') \cup WordsIn(units')
      <3>1. \/ LineWords(file, i) \subseteq before
            \/ \E p \in Range(sections) : i \in LinesOf(p)
        BY <1>5, <2>1 DEF SectionsToCome
      <3> QED
        BY <2>1, <2>2, <2>3, <3>1
    <2>5. SectionsToCome' = Tail(sections)
      BY <2>1 DEF SectionsToCome
    <2>6. \A i \in ToCover' : Accounted(i)'
      BY <1>6, <2>1, <2>4, <2>5
    <2> QED
      BY <1>10, <2>1, <2>6
  \* Steps of packing: words go from the units to the pieces and from these to a chunk.
  <1>14. ASSUME pc = "pack", pc' = "pack", before \subseteq after, sections' = sections,
                file' = file, format' = format, fallback' = fallback,
                WordsIn(pieces) \cup WordsIn(units)
                    \subseteq after \cup WordsIn(pieces') \cup WordsIn(units')
         PROVE  CoverInv'
    <2>1. SectionsToCome' = SectionsToCome
      BY <1>14 DEF SectionsToCome
    <2>2. ASSUME NEW i \in ToCover
          PROVE  \/ LineWords(file, i) \subseteq after
                 \/ \E p \in Range(SectionsToCome') : i \in LinesOf(p)
                 \/ LineWords(file, i)
                        \subseteq after \cup WordsIn(pieces') \cup WordsIn(units')
      BY <1>5, <1>14, <2>1
    <2>3. \A i \in ToCover' : Accounted(i)'
      BY <1>6, <1>14, <2>2
    <2> QED
      BY <1>1, <1>10, <1>14, <2>3
  <1>15. CASE AddUnit
    <2>1. /\ chunks' = chunks /\ pc = "pack" /\ pc' = "pack" /\ units # <<>>
          /\ pieces' = Append(pieces, Head(units)) /\ units' = Tail(units)
          /\ sections' = sections
          /\ file' = file /\ format' = format /\ fallback' = fallback
      BY <1>15 DEF AddUnit
    <2>2. /\ WordsIn(pieces') = WordsIn(pieces) \cup Range(Head(units).words)
          /\ WordsIn(units) = Range(Head(units).words) \cup WordsIn(units')
      BY <1>1, <2>1, WordsInFacts
    <2> QED
      BY <1>14, <2>1, <2>2
  <1>16. CASE CloseChunk
    <2> DEFINE c == ChunkOf("section", Head(sections), pieces, 2)
               o == OverlapPieces(pieces)
    <2>1. /\ chunks' = Append(chunks, c) /\ pc = "pack" /\ pc' = "pack" /\ units # <<>>
          /\ pieces' = Append(o, Head(units)) /\ units' = Tail(units)
          /\ sections' = sections
          /\ file' = file /\ format' = format /\ fallback' = fallback
      BY <1>16 DEF CloseChunk
    <2>2. c.kind = "section" /\ c.pieces = pieces
      BY DEF ChunkOf
    <2>3. o \in Seq(Units)
      <3>1. pieces \in Seq(Units)
        BY <2>1 DEF TypeInv
      <3> QED
        BY <3>1, OverlapUnits
    <2> HIDE DEF c, o
    <2>4. /\ WordsIn(pieces') = WordsIn(o) \cup Range(Head(units).words)
          /\ WordsIn(units) = Range(Head(units).words) \cup WordsIn(units')
      BY <1>1, <2>1, <2>3, WordsInFacts
    <2>5. before \subseteq after /\ WordsIn(pieces) \subseteq after
      BY <1>1, <2>1, <2>2, SectionWordsFacts
    <2> QED
      BY <1>14, <2>1, <2>4, <2>5
  <1>17. CASE EndSection
    <2> DEFINE s == Head(sections)
               last == ChunkOf("section", s, pieces, 2)
               merged == ChunkOf("section", s, Last(chunks).pieces \o pieces, 2)
    <2>1. /\ \/ chunks' = Append(chunks, last)
             \/ chunks # <<>> /\ chunks' = Append(Front(chunks), merged)
          /\ pc = "pack" /\ pc' = "sections" /\ units = <<>>
          /\ sections' = Tail(sections)
          /\ file' = file /\ format' = format /\ fallback' = fallback
      BY <1>17 DEF EndSection, InThisPart
    <2>2. /\ last.kind = "section" /\ last.pieces = pieces
          /\ merged.kind = "section" /\ merged.pieces = Last(chunks).pieces \o pieces
      BY DEF ChunkOf
    <2> HIDE DEF last, merged
    <2>3. before \cup WordsIn(pieces) \subseteq after
      <3>1. CASE chunks' = Append(chunks, last)
        BY <1>1, <2>2, <3>1, SectionWordsFacts
      <3>2. CASE chunks # <<>> /\ chunks' = Append(Front(chunks), merged)
        <4>1. Last(chunks) \in ChunksOf(file)
          BY <1>1, <3>2, HeadAndTail
        <4>2. Last(chunks).pieces \in Seq(Pieces)
          BY <4>1 DEF ChunksOf
        <4>3. WordsIn(merged.pieces) = WordsIn(Last(chunks).pieces) \cup WordsIn(pieces)
          BY <1>1, <2>2, <4>2, WordsInFacts
        <4>4. before \cup WordsIn(merged.pieces) \subseteq after
          BY <1>1, <2>2, <3>2, <4>3, SectionWordsFacts
        <4> QED
          BY <4>3, <4>4
      <3> QED
        BY <2>1, <3>1, <3>2
    <2>4. WordsIn(units) = {}
      BY <2>1 DEF WordsIn
    <2>5. SectionsToCome' = Tail(sections) /\ SectionsToCome = Tail(sections)
      BY <2>1 DEF SectionsToCome
    <2>6. ASSUME NEW i \in ToCover
          PROVE  \/ LineWords(file, i) \subseteq after
                 \/ \E p \in Range(SectionsToCome') : i \in LinesOf(p)
      BY <1>5, <2>3, <2>4, <2>5
    <2>7. \A i \in ToCover' : Accounted(i)'
      BY <1>6, <2>1, <2>6
    <2> QED
      BY <1>1, <1>10, <2>1, <2>7
  <1>18. CASE SectionsEnd
    <2>1. /\ chunks' = chunks /\ pc = "sections" /\ sections = <<>> /\ sections' = <<>>
          /\ pc' = (IF fallback THEN "done" ELSE "tables")
          /\ file' = file /\ format' = format /\ fallback' = fallback /\ tables' = tables
      BY <1>18 DEF SectionsEnd
    <2>2. SectionsToCome' = SectionsToCome
      BY <2>1 DEF SectionsToCome
    <2>3. \A i \in ToCover' : Accounted(i)'
      BY <1>5, <1>6, <2>1, <2>2
    <2>4. BodyLines' = BodyLines
      BY <1>7, <2>1
    <2> QED
      BY <1>2, <2>1, <2>3, <2>4 DEF CoverInv
  <1>19. CASE SkipTable
    BY <1>9, <1>19 DEF SkipTable
  <1>20. \A c : before \subseteq SectionWords(Append(chunks, c))
    BY <1>1, SectionWordsFacts
  <1>21. CASE KeepTable
    <2>1. before \subseteq after
      BY <1>20, <1>21 DEF KeepTable
    <2> QED
      BY <1>9, <1>21, <2>1 DEF KeepTable
  <1>22. CASE SplitTable
    BY <1>9, <1>22 DEF SplitTable
  <1>23. CASE AddRow
    BY <1>1, <1>9, <1>23 DEF AddRow
  <1>24. CASE CloseTableChunk
    <2>1. before \subseteq after
      BY <1>20, <1>24 DEF CloseTableChunk
    <2> QED
      BY <1>1, <1>9, <1>24, <2>1 DEF CloseTableChunk
  <1>25. CASE EndTable
    <2>1. before \subseteq after
      BY <1>20, <1>25 DEF EndTable
    <2> QED
      BY <1>1, <1>9, <1>25, <2>1 DEF EndTable
  <1>26. CASE FallBack
    <2>1. /\ chunks' = chunks /\ pc' = "sections" /\ fallback' = TRUE
          /\ sections' = WholeFile(file) /\ file' = file
      BY <1>26 DEF FallBack
    <2>2. SectionsToCome' = WholeFile(file) /\ ToCover' = DOMAIN file
      BY <2>1 DEF SectionsToCome, ToCover
    <2>3. ASSUME NEW i \in DOMAIN file
          PROVE  \/ LineWords(file, i) \subseteq after
                 \/ \E p \in Range(WholeFile(file)) : i \in LinesOf(p)
      <3>1. Blank(file, i) \/ \E p \in Range(WholeFile(file)) : i \in LinesOf(p)
        BY <1>0, WholeFileFacts
      <3>2. Blank(file, i) => LineWords(file, i) = {}
        BY <1>0, BlankLines
      <3> QED
        BY <3>1, <3>2
    <2>4. \A i \in ToCover' : Accounted(i)'
      BY <2>1, <2>2, <2>3 DEF Accounted, LineWords
    <2> QED
      BY <2>1, <2>4 DEF CoverInv
  <1>27. CASE TablesEnd
    <2>1. /\ chunks' = chunks /\ pc = "tables" /\ pc' = "done" /\ tables' = tables
          /\ sections' = sections
          /\ file' = file /\ format' = format /\ fallback' = fallback
          /\ chunks # <<>> \/ WholeFile(file) = <<>>
      BY <1>27 DEF TablesEnd
    <2>2. \A i \in ToCover' : Accounted(i)'
      BY <1>6, <1>8, <2>1
    <2>3. BodyLines' = BodyLines
      BY <1>7, <2>1
    <2> QED
      BY <1>2, <2>1, <2>2, <2>3 DEF CoverInv
  <1>28. CASE UNCHANGED vars
    <2>1. SectionsToCome' = SectionsToCome
      BY <1>28 DEF vars, SectionsToCome
    <2>2. \A i \in ToCover' : Accounted(i)'
      BY <1>5, <1>6, <1>28, <2>1 DEF vars
    <2>3. BodyLines' = BodyLines
      BY <1>7, <1>28 DEF vars
    <2> QED
      BY <1>2, <1>28, <2>2, <2>3 DEF vars, CoverInv
  <1> QED
    BY <1>12, <1>13, <1>15, <1>16, <1>17, <1>18, <1>19, <1>21, <1>22, <1>23, <1>24,
       <1>25, <1>26, <1>27, <1>28 DEF Next

\* Whatever the boundaries of lines, sentences and units are, every word of the file is
\* in some chunk, headings only if there is nothing else.
THEOREM EveryWordIsChunked == Spec => []TextIsCovered
  <1>1. TypeInv /\ CoverInv => TextIsCovered
    <2> SUFFICES ASSUME TypeInv, CoverInv, pc = "done",
                        NEW i \in IF BodyLines = {} THEN DOMAIN file ELSE BodyLines
                 PROVE  Range(Occurrences(file, i))
                            \subseteq Chunked("section") \cup Chunked("table")
      BY DEF TextIsCovered
    <2>1. IsFile(file) /\ i \in DOMAIN file
      BY FileFacts DEF TypeInv, BodyLines
    <2>2. SectionWords(chunks) = Chunked("section")
      BY DEF SectionWords, Chunked, Range
    <2>3. LineWords(file, i) \subseteq SectionWords(chunks)
      <3>1. CASE i \in ToCover
        <4>1. Accounted(i)
          BY <3>1 DEF CoverInv
        <4>2. SectionsToCome = <<>> /\ Range(<<>>) = {}
          BY DEF CoverInv, SectionsToCome, Range
        <4> QED
          BY <4>1, <4>2 DEF Accounted
      <3>2. CASE i \notin ToCover
        <4>1. ~ fallback /\ BodyLines = {}
          BY <2>1, <3>2 DEF ToCover
        <4>2. WholeFile(file) = <<>> /\ Range(<<>>) = {}
          BY <4>1 DEF CoverInv, Range
        <4>3. Blank(file, i)
          BY <2>1, <4>2, WholeFileFacts
        <4> QED
          BY <2>1, <4>3, BlankLines
      <3> QED
        BY <3>1, <3>2
    <2> QED
      BY <2>2, <2>3 DEF LineWords
  <1> QED
    BY <1>1, TypeInit, TypeNext, CoverInit, CoverNext, PTL DEF Spec
==============================================================================
