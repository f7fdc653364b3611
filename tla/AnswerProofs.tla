----------------------------- MODULE AnswerProofs -----------------------------
(***************************************************************************)
(* Theorems about Answer and the redaction it rests on, for every set of   *)
(* recognizers and patterns, every text and every stream of tokens.  First *)
(* what redaction leaves of a text, then how rehydration goes with the     *)
(* joining of a stream, and at last the invariant of a question.           *)
(***************************************************************************)
EXTENDS Answer, FoldLemmas, SequenceTheorems

-------------------------------------------------------------------------------
(* Types. *)

WordPieces == [is : {"word"}, word : STRING]
Placeholders == [is : {"placeholder"}, tag : STRING, n : Nat]
Values == Seq(WordPieces) \ {<<>>}
Mappings == UNION {[D -> Values] : D \in SUBSET Placeholders}

\* The kinds of pieces are told apart.
LEMMA PieceKinds ==
    /\ WordPieces \subseteq Atoms /\ Placeholders \subseteq Atoms /\ Atoms \subseteq Pieces
    /\ WordPieces \cap Placeholders = {}
    /\ \A p \in Atoms : p.is # "head" /\ p.is # "tail"
    /\ \A p \in Pieces : p.is = "word" => p \in WordPieces
  BY DEF WordPieces, Placeholders, Atoms, Pieces

\* The names of placeholders become the words of a text.
LEMMA MappingFacts ==
    /\ \A m \in Mappings :
          /\ DOMAIN m \subseteq Placeholders
          /\ \A p \in DOMAIN m : m[p] \in Values
    /\ \A D \in SUBSET Placeholders : \A m \in [D -> Values] : m \in Mappings
  BY DEF Mappings

-------------------------------------------------------------------------------
(* Spans. *)

Known == Recognizers \cup Range(Patterns)

Spans(n) ==
    {s \in [from : 1 .. n, to : 1 .. n, tag : STRING, score : 0 .. 100] : s.from <= s.to}

\* Spans are of words, from a first to a last one, and have the tag of a recognizer.
LEMMA SpanFacts ==
    ASSUME NEW text \in Seq(Pieces), NEW R \in SUBSET Known, NEW s \in SpansOf(text, R)
    PROVE  /\ s \in Spans(Len(text))
           /\ \A k \in s.from .. s.to : text[k] \in WordPieces
           /\ \E r \in R : s.tag = r.tag
  <1>1. PICK r \in R : s \in FoundBy(text, r)
    BY DEF SpansOf
  <1>2. r.tag \in STRING /\ r.score \in 0 .. 100
    BY RedactionAssumption DEF Known
  <1> DEFINE n == Len(text)
  <1>3. n \in Nat /\ DOMAIN text = 1 .. n /\ \A k \in 1 .. n : text[k] \in Pieces
    OBVIOUS
  <1>4. /\ s \in [from : 1 .. n, to : 1 .. n, tag : {r.tag}, score : {r.score}]
        /\ s.from <= s.to /\ \A k \in s.from .. s.to : text[k].is = "word"
    BY <1>1, <1>3 DEF FoundBy
  <1> HIDE DEF n
  <1>5. s \in Spans(n) /\ s.tag = r.tag
    BY <1>2, <1>4 DEF Spans
  <1>6. \A k \in s.from .. s.to : k \in 1 .. n
    BY <1>3, <1>4
  <1>7. \A k \in s.from .. s.to : text[k] \in WordPieces
    BY <1>3, <1>4, <1>6, PieceKinds
  <1> QED
    BY <1>5, <1>7 DEF n

\* Among spans there is one that sorts first.
LEMMA FirstOfFacts ==
    ASSUME NEW n \in Nat, NEW S \in SUBSET Spans(n), S # {}
    PROVE  FirstOf(S) \in S
  <1> DEFINE scores == {s.score + 1 : s \in S}
             best == {s \in S : s.score + 1 = Max(scores)}
             ends == {s.to : s \in best}
  <1>1. \A s \in S : s.score \in 0 .. 100 /\ s.to \in 1 .. n
    BY DEF Spans
  <1>2. scores \in SUBSET (1 .. 101) /\ scores # {}
    BY <1>1
  <1>3. Max(scores) \in scores /\ \A x \in scores : Max(scores) >= x
    <2> HIDE DEF scores
    <2> QED
      BY <1>2, GreatestPosition
  <1>4. best # {} /\ best \subseteq S
    BY <1>3
  <1> HIDE DEF best
  <1>5. ends \in SUBSET (1 .. n) /\ ends # {}
    BY <1>1, <1>4
  <1>6. Max(ends) \in ends /\ \A x \in ends : Max(ends) >= x
    <2> HIDE DEF ends
    <2> QED
      BY <1>5, GreatestPosition
  <1>7. PICK f \in best : f.to = Max(ends)
    BY <1>6
  <1>8. ASSUME NEW t \in S
        PROVE  SortsFirst(f, t)
    <2>1. f \in S /\ f.score + 1 = Max(scores) /\ t.score + 1 <= Max(scores)
      BY <1>2, <1>3, <1>4 DEF best
    <2>2. f.score \in 0 .. 100 /\ t.score \in 0 .. 100 /\ f.to \in 1 .. n /\ t.to \in 1 .. n
      BY <1>1, <2>1
    <2>3. f.score >= t.score
      <3> DEFINE a == f.score
                 b == t.score
                 m == Max(scores)
      <3>1. a \in Int /\ b \in Int /\ a + 1 = m /\ b + 1 <= m
        BY <2>1, <2>2
      <3> HIDE DEF a, b, m
      <3>2. a >= b
        BY <3>1
      <3> QED
        BY <3>2 DEF a, b
    <2>4. t.score = f.score => t \in best
      BY <2>1 DEF best
    <2>5. t.score = f.score => f.to >= t.to
      BY <1>6, <1>7, <2>4
    <2>6. f.score > t.score \/ f.score = t.score
      <3> DEFINE a == f.score
                 b == t.score
      <3>1. a \in Int /\ b \in Int /\ a >= b
        BY <2>2, <2>3
      <3> HIDE DEF a, b
      <3>2. a > b \/ a = b
        BY <3>1
      <3> QED
        BY <3>2 DEF a, b
    <2> QED
      BY <2>5, <2>6 DEF SortsFirst
  <1>9. \E s \in S : \A t \in S : SortsFirst(s, t)
    BY <1>4, <1>8
  <1> QED
    BY <1>9 DEF FirstOf

\* Overlaps are dropped place by place.
LEMMA FilteredRun ==
    ASSUME NEW text \in Seq(Pieces), NEW R \in SUBSET Known
    PROVE  \E g \in [0 .. Len(text) -> SUBSET SpansOf(text, R)] :
              /\ g[0] = {}
              /\ \A i \in 1 .. Len(text) : g[i] = Keep(SpansOf(text, R), g[i - 1], i)
              /\ Filtered(text, SpansOf(text, R)) = g[Len(text)]
  <1> DEFINE n == Len(text)
             spans == SpansOf(text, R)
             A == SUBSET spans
             x == [i \in DOMAIN text |-> i]
             f == [i \in 1 .. n |-> [kept \in A |-> Keep(spans, kept, i)]]
             IsKeeping(h) ==
                h = [S \in SUBSET (1 .. n) |->
                       IF S = {} THEN {} ELSE Keep(spans, h[S \ {Max(S)}], x[Max(S)])]
             keeping == CHOOSE h : IsKeeping(h)
  <1>1. n \in Nat /\ DOMAIN text = 1 .. n /\ DOMAIN x = 1 .. n /\ \A i \in 1 .. n : x[i] = i
    OBVIOUS
  <1>2. Filtered(text, spans) = keeping[1 .. n]
    BY <1>1 DEF Filtered, FoldLeft, MapThenFoldSet
  <1> HIDE DEF x
  <1>3. {} \in A
    OBVIOUS
  <1>4. \A kept \in A, i \in 1 .. n : Keep(spans, kept, i) \in A
    <2>1. spans \subseteq Spans(n)
      BY SpanFacts
    <2> HIDE DEF spans, n
    <2> SUFFICES ASSUME NEW kept \in A, NEW i \in 1 .. n PROVE Keep(spans, kept, i) \in A
      OBVIOUS
    <2> DEFINE starting == {s \in spans : s.from = i}
    <2>2. starting # {} => FirstOf(starting) \in starting
      <3>1. starting \in SUBSET Spans(n)
        BY <2>1
      <3> HIDE DEF starting
      <3> QED
        BY ONLY <1>1, <3>1, FirstOfFacts
    <2> QED
      BY <2>2 DEF Keep
  <1>5. \E h : IsKeeping(h)
    <2>1. f \in [1 .. n -> [A -> A]]
      <3> HIDE DEF A, n, spans
      <3> QED
        BY <1>1, <1>4
    <2>2. PICK h \in FoldsOver(A, {}, n, f) : TRUE
      <3> HIDE DEF n, f, A
      <3>1. FoldsOver(A, {}, n, f) # {}
        BY ONLY <1>1, <1>3, <2>1, FoldExists
      <3> QED
        BY <3>1
    <2> HIDE DEF A, spans
    <2>3. /\ h \in [SUBSET (1 .. n) -> A]
          /\ \A S \in SUBSET (1 .. n) :
                h[S] = IF S = {} THEN {} ELSE f[Max(S)][h[S \ {Max(S)}]]
      BY <2>2 DEF FoldsOver
    <2>4. ASSUME NEW S \in SUBSET (1 .. n), S # {}
          PROVE  f[Max(S)][h[S \ {Max(S)}]] = Keep(spans, h[S \ {Max(S)}], x[Max(S)])
      <3>1. Max(S) \in 1 .. n
        <4> HIDE DEF n, f
        <4> QED
          BY <1>1, <2>4, GreatestPosition
      <3>2. h[S \ {Max(S)}] \in A
        BY <2>3
      <3> HIDE DEF n
      <3> QED
        BY <1>1, <3>1, <3>2
    <2> HIDE DEF f, n
    <2>5. IsKeeping(h)
      BY <2>3, <2>4
    <2> QED
      BY <2>5
  <1>6. IsKeeping(keeping)
    <2> HIDE DEF IsKeeping
    <2> QED
      BY <1>5
  <1>7. f \in [1 .. n -> [A -> A]]
    <2> HIDE DEF A, n, spans
    <2> QED
      BY <1>4
  <1>8. \A i \in 1 .. n : \A kept \in A : f[i][kept] = Keep(spans, kept, i)
    <2> HIDE DEF A, n, spans
    <2> QED
      OBVIOUS
  <1> HIDE DEF A, spans, f, keeping
  <1>9. FollowsOver(A, {}, n, f, keeping)
    <2>1. ASSUME NEW S \in SUBSET (1 .. n), S # {}
          PROVE  Max(S) \in 1 .. n
      <3> HIDE DEF n
      <3> QED
        BY <1>1, <2>1, GreatestPosition
    <2> HIDE DEF n
    <2>2. keeping[{}] = {}
      <3>1. {} \in SUBSET (1 .. n)
        OBVIOUS
      <3> QED
        BY <1>6, <3>1
    <2>3. ASSUME NEW S \in SUBSET (1 .. n), S # {}, keeping[S \ {Max(S)}] \in A
          PROVE  keeping[S] = f[Max(S)][keeping[S \ {Max(S)}]]
      <3> DEFINE last == Max(S)
                 before == keeping[S \ {Max(S)}]
      <3>1. keeping[S] = Keep(spans, before, x[last])
        BY <1>6, <2>3
      <3>2. last \in 1 .. n /\ before \in A
        BY <2>1, <2>3
      <3> HIDE DEF last, before
      <3>3. keeping[S] = f[last][before]
        BY <1>1, <1>8, <3>1, <3>2
      <3> QED
        BY <3>3 DEF last, before
    <2> QED
      BY <2>2, <2>3 DEF FollowsOver
  <1> HIDE DEF n
  <1>10. PICK g \in RunsOver(A, {}, n, f) : g[n] = keeping[1 .. n]
    <2>1. [i \in 0 .. n |-> keeping[1 .. i]] \in RunsOver(A, {}, n, f)
      BY <1>1, <1>3, <1>7, <1>9, FoldRuns
    <2>2. n \in 0 .. n
      BY <1>1
    <2> QED
      BY <2>1, <2>2
  <1>11. g \in [0 .. n -> A] /\ g[0] = {} /\ \A i \in 1 .. n : g[i] = f[i][g[i - 1]]
    BY <1>10 DEF RunsOver
  <1>12. \A i \in 1 .. n : g[i] = Keep(spans, g[i - 1], i)
    <2>1. \A i \in 1 .. n : i - 1 \in 0 .. n
      BY <1>1
    <2> QED
      BY <1>8, <1>11, <2>1
  <1> QED
    BY <1>2, <1>10, <1>11, <1>12 DEF n, A, spans

Disjoint(s, t) == s.to < t.from \/ t.to < s.from

\* Of the spans that are found those are kept that overlap none kept before: kept spans
\* are disjoint, and every other span starts within one of them.
LEMMA FilteredFacts ==
    ASSUME NEW text \in Seq(Pieces), NEW R \in SUBSET Known
    PROVE  /\ Filtered(text, SpansOf(text, R)) \in SUBSET SpansOf(text, R)
           /\ IsFiniteSet(Filtered(text, SpansOf(text, R)))
           /\ \A s, t \in Filtered(text, SpansOf(text, R)) : s = t \/ Disjoint(s, t)
           /\ \A s \in SpansOf(text, R) : \E k \in Filtered(text, SpansOf(text, R)) :
                 k.from <= s.from /\ s.from <= k.to
  <1> DEFINE n == Len(text)
             spans == SpansOf(text, R)
             Apart(K) == \A s, t \in K : s = t \/ Disjoint(s, t)
             UpTo(K, i) == \A s \in K : s.from <= i
             Covers(K, i) == \A s \in spans :
                 s.from <= i => \E k \in K : k.from <= s.from /\ s.from <= k.to
  <1>1. n \in Nat /\ \A s \in spans : s \in Spans(n)
    BY SpanFacts
  <1>2. PICK g \in [0 .. n -> SUBSET spans] :
            /\ g[0] = {}
            /\ \A i \in 1 .. n : g[i] = Keep(spans, g[i - 1], i)
            /\ Filtered(text, spans) = g[n]
    BY FilteredRun
  <1> HIDE DEF n, spans
  <1>3. \A s \in spans : /\ s.from \in 1 .. n /\ s.to \in 1 .. n /\ s.from <= s.to
                         /\ s.from \in Nat /\ s.to \in Nat
    BY <1>1 DEF Spans
  <1> DEFINE Good == {i \in 0 .. n : /\ Apart(g[i]) /\ UpTo(g[i], i) /\ Covers(g[i], i)
                                /\ IsFiniteSet(g[i])}
  <1>4. 0 \in Good
    <2>1. \A s \in spans : ~ (s.from <= 0)
      BY <1>3
    <2>2. IsFiniteSet(g[0])
      BY <1>2, FS_EmptySet
    <2>3. Apart(g[0]) /\ UpTo(g[0], 0) /\ Covers(g[0], 0) /\ 0 \in 0 .. n
      BY <1>1, <1>2, <2>1
    <2> HIDE DEF Apart, UpTo, Covers
    <2> QED
      BY <2>2, <2>3
  <1>5. ASSUME NEW i \in 1 .. n, i - 1 \in Good
        PROVE  i \in Good
    <2> DEFINE K == g[i - 1]
               L == g[i]
               starting == {s \in spans : s.from = i}
               first == FirstOf(starting)
    <2>1. /\ i \in 0 .. n /\ i - 1 \in 0 .. n /\ i \in Nat /\ i - 1 \in Nat
          /\ K \subseteq spans /\ L \subseteq spans
      BY <1>1, <1>2
    <2>2. Apart(K) /\ UpTo(K, i - 1) /\ Covers(K, i - 1) /\ IsFiniteSet(K)
      BY <1>5
    <2>3. L = IF starting = {} \/ Overlaps(first, K) THEN K ELSE K \cup {first}
      <3>1. L = Keep(spans, K, i)
        BY <1>2
      <3> QED
        BY <3>1 DEF Keep
    <2>4. starting # {} => first \in starting
      <3>1. starting \in SUBSET Spans(n)
        BY <1>1
      <3> HIDE DEF starting
      <3> QED
        BY ONLY <1>1, <3>1, FirstOfFacts
    <2> HIDE DEF K, L, first
    <2>5. \A s \in spans : s.from <= i => s.from <= i - 1 \/ s.from = i
      BY <1>3, <2>1
    <2>6. UpTo(K, i)
      BY <1>3, <2>1, <2>2
    <2>7. CASE starting = {}
      <3>1. L = K
        BY <2>3, <2>7
      <3>2. Covers(K, i)
        BY <2>2, <2>5, <2>7
      <3> QED
        BY <2>1, <2>2, <2>6, <3>1, <3>2 DEF L
    <2>8. CASE starting # {} /\ Overlaps(first, K)
      <3>1. L = K
        BY <2>3, <2>8
      <3>2. PICK k \in K : first.from <= k.to
        BY <2>8 DEF Overlaps
      <3>3. k.from <= i /\ i <= k.to
        BY <2>4, <2>6, <2>8, <3>2
      <3>4. Covers(K, i)
        BY <2>2, <2>5, <3>3
      <3> QED
        BY <2>1, <2>2, <2>6, <3>1, <3>4 DEF L
    <2>9. CASE starting # {} /\ ~ Overlaps(first, K)
      <3>1. L = K \cup {first} /\ first \in spans /\ first.from = i
        BY <2>3, <2>4, <2>9
      <3>2. \A k \in K : k.to < first.from
        <4>1. \A k \in K : ~ (first.from <= k.to)
          BY <2>9 DEF Overlaps
        <4> QED
          BY <1>3, <2>1, <3>1, <4>1
      <3>3. Apart(L)
        BY <2>2, <3>1, <3>2 DEF Disjoint
      <3>4. UpTo(L, i)
        BY <2>1, <2>6, <3>1
      <3>5. Covers(L, i)
        <4>1. first.from <= i /\ i <= first.to
          BY <1>3, <3>1
        <4>2. ASSUME NEW s \in spans, s.from <= i
              PROVE  \E k \in L : k.from <= s.from /\ s.from <= k.to
          <5>1. CASE s.from = i
            BY <3>1, <4>1, <5>1
          <5>2. CASE s.from <= i - 1
            BY <2>2, <3>1, <5>2
          <5> QED
            BY <2>5, <4>2, <5>1, <5>2
        <4> QED
          BY <4>2
      <3>6. IsFiniteSet(L)
        BY <2>2, <3>1, FS_AddElement
      <3> QED
        BY <2>1, <3>3, <3>4, <3>5, <3>6 DEF L
    <2> QED
      BY <2>7, <2>8, <2>9
  <1>6. n \in Good
    <2>1. \A i \in 0 .. n : i \in Good
      <3> HIDE DEF Good
      <3> QED
        BY <1>1, <1>4, <1>5, IntervalInduction
    <2>2. n \in 0 .. n
      BY <1>1
    <2> QED
      BY <2>1, <2>2
  <1>7. \A s \in spans : s.from <= n
    BY <1>3
  <1>8. g[n] \in SUBSET spans
    BY <1>1, <1>2
  <1> QED
    BY <1>2, <1>6, <1>7, <1>8 DEF spans

-------------------------------------------------------------------------------
(* A text whose spans have been replaced. *)

Covered(K, i) == \E s \in K : s.from <= i /\ i <= s.to

\* What a piece of the text becomes.
Cell(text, names, i) ==
    LET covering == {s \in DOMAIN names : s.from <= i /\ i <= s.to}
    IN  CASE covering = {} -> <<text[i]>>
          [] \E s \in covering : s.from = i -> <<names[CHOOSE s \in covering : s.from = i]>>
          [] OTHER -> <<>>

\* Sequences of one element, and of none.
LEMMA OneElement ==
    ASSUME NEW T, NEW x \in T
    PROVE  <<x>> \in Seq(T) /\ Len(<<x>>) = 1 /\ <<x>>[1] = x
  OBVIOUS

LEMMA NoElement ==
    ASSUME NEW T
    PROVE  <<>> \in Seq(T) /\ Len(<<>>) = 0
  OBVIOUS

\* A piece stays, or is where a placeholder begins, or is within what it stands for.
LEMMA CellFacts ==
    ASSUME NEW text \in Seq(Pieces), NEW K \in SUBSET Spans(Len(text)),
           NEW names \in [K -> Placeholders], NEW i \in DOMAIN text
    PROVE  /\ Cell(text, names, i) \in Seq(Pieces)
           /\ Len(Cell(text, names, i)) \in {0, 1}
           /\ ~ Covered(K, i) => Cell(text, names, i) = <<text[i]>>
           /\ Covered(K, i) /\ Len(Cell(text, names, i)) = 1 =>
                 Cell(text, names, i)[1] \in Placeholders
           /\ Len(Cell(text, names, i)) = 0 => \E s \in K : s.from < i /\ i <= s.to
  <1> DEFINE covering == {s \in K : s.from <= i /\ i <= s.to}
             cell == Cell(text, names, i)
             start == CHOOSE s \in covering : s.from = i
  <1>1. /\ i \in Nat /\ text[i] \in Pieces /\ DOMAIN names = K
        /\ \A s \in K : s.from \in Nat /\ s.to \in Nat
    BY DEF Spans
  <1>2. cell = CASE covering = {} -> <<text[i]>>
                 [] \E s \in covering : s.from = i -> <<names[start]>>
                 [] OTHER -> <<>>
    BY <1>1 DEF Cell
  <1>3. Covered(K, i) <=> covering # {}
    BY DEF Covered
  <1> HIDE DEF cell
  <1>4. CASE covering = {}
    <2>1. cell = <<text[i]>>
      BY <1>2, <1>4
    <2> QED
      BY <1>1, <1>3, <1>4, <2>1 DEF cell
  <1>5. CASE \E s \in covering : s.from = i
    <2>1. start \in covering
      BY <1>5
    <2>2. names[start] \in Placeholders
      BY <2>1
    <2> HIDE DEF start
    <2>3. cell = <<names[start]>>
      BY <1>2, <1>5
    <2>4. names[start] \in Pieces
      BY <2>2, PieceKinds
    <2> QED
      BY <1>3, <1>5, <2>2, <2>3, <2>4 DEF cell
  <1>6. CASE covering # {} /\ ~ \E s \in covering : s.from = i
    <2>1. cell = <<>>
      BY <1>2, <1>6
    <2>2. PICK s \in covering : s.from # i
      BY <1>6
    <2>3. s \in K /\ s.from < i /\ i <= s.to
      BY <1>1, <2>2
    <2> QED
      BY <1>3, <1>6, <2>1, <2>3 DEF cell
  <1> QED
    BY <1>4, <1>5, <1>6

\* Spans of a text whose pieces have places, and placeholders for them.
IsNaming(text, places, K, names, zeros) ==
    /\ text \in Seq(Pieces) /\ places \in Seq(Nat) /\ Len(places) = Len(text)
    /\ K \in SUBSET Spans(Len(text)) /\ names \in [K -> Placeholders]
    /\ zeros = [s \in DOMAIN names |-> 0]

\* Where a piece of the text becomes one of the new text, its place goes with it.
LEMMA CellPlaces ==
    ASSUME NEW text, NEW places, NEW K, NEW names, NEW zeros,
           IsNaming(text, places, K, names, zeros), NEW i \in DOMAIN text
    PROVE  /\ Cell(places, zeros, i) \in Seq(Nat)
           /\ Len(Cell(places, zeros, i)) = Len(Cell(text, names, i))
           /\ Len(Cell(places, zeros, i)) = 1 =>
                 \/ /\ Covered(K, i)
                    /\ Cell(places, zeros, i)[1] = 0
                    /\ Cell(text, names, i)[1] \in Placeholders
                 \/ /\ ~ Covered(K, i)
                    /\ Cell(places, zeros, i)[1] = places[i]
                    /\ Cell(text, names, i)[1] = text[i]
  <1> DEFINE covering == {s \in K : s.from <= i /\ i <= s.to}
             start == CHOOSE s \in covering : s.from = i
             old == Cell(text, names, i)
             new == Cell(places, zeros, i)
  <1>1. DOMAIN names = K /\ DOMAIN zeros = K /\ places[i] \in Nat
        /\ \A s \in K : zeros[s] = 0 /\ names[s] \in Placeholders
    BY DEF IsNaming
  <1>2. /\ old = CASE covering = {} -> <<text[i]>>
                   [] \E s \in covering : s.from = i -> <<names[start]>>
                   [] OTHER -> <<>>
        /\ new = CASE covering = {} -> <<places[i]>>
                   [] \E s \in covering : s.from = i -> <<zeros[start]>>
                   [] OTHER -> <<>>
    BY <1>1 DEF Cell
  <1>3. Covered(K, i) <=> covering # {}
    BY DEF Covered
  <1> DEFINE Goes == /\ new \in Seq(Nat) /\ Len(new) = Len(old)
                     /\ Len(new) = 1 =>
                           \/ Covered(K, i) /\ new[1] = 0 /\ old[1] \in Placeholders
                           \/ ~ Covered(K, i) /\ new[1] = places[i] /\ old[1] = text[i]
  <1> SUFFICES Goes
    OBVIOUS
  <1> HIDE DEF old, new
  <1>4. CASE covering = {}
    <2>1. old = <<text[i]>> /\ new = <<places[i]>> /\ ~ Covered(K, i)
      BY <1>2, <1>3, <1>4
    <2>2. new \in Seq(Nat) /\ Len(new) = 1 /\ new[1] = places[i]
      BY <1>1, <2>1, OneElement
    <2>3. Len(old) = 1 /\ old[1] = text[i]
      BY <2>1, OneElement
    <2> QED
      BY ONLY <2>1, <2>2, <2>3
  <1>5. CASE \E s \in covering : s.from = i
    <2>1. start \in covering
      BY <1>5
    <2>2. /\ names[start] \in Placeholders /\ zeros[start] = 0 /\ covering # {}
          /\ Covered(K, i)
      BY <1>1, <1>3, <2>1
    <2> HIDE DEF start, covering
    <2>3. old = <<names[start]>> /\ new = <<0>>
      BY <1>2, <1>5, <2>2
    <2>4. new \in Seq(Nat) /\ Len(new) = 1 /\ new[1] = 0
      BY <2>3, OneElement
    <2>5. Len(old) = 1 /\ old[1] \in Placeholders
      BY <2>2, <2>3, OneElement
    <2> QED
      BY ONLY <2>2, <2>4, <2>5
  <1>6. CASE covering # {} /\ ~ \E s \in covering : s.from = i
    <2>1. old = <<>> /\ new = <<>>
      BY <1>2, <1>6
    <2>2. new \in Seq(Nat) /\ Len(new) = 0 /\ Len(old) = 0
      BY <2>1, NoElement
    <2> QED
      BY ONLY <2>2
  <1> QED
    BY ONLY <1>4, <1>5, <1>6

\* Each piece of the new text comes from a piece of the old one, no two from the same: it
\* is a placeholder where that was covered, and else that piece with its place.
LEMMA ReplacedPieces ==
    ASSUME NEW text, NEW places, NEW K, NEW names, NEW zeros,
           IsNaming(text, places, K, names, zeros),
           NEW new, new = Replaced(text, names),
           NEW kept, kept = Replaced(places, zeros)
    PROVE  /\ new \in Seq(Pieces) /\ kept \in Seq(Nat) /\ Len(kept) = Len(new)
           /\ \E from \in [1 .. Len(new) -> 1 .. Len(text)] :
                 /\ \A k, l \in 1 .. Len(new) : from[k] = from[l] => k = l
                 /\ \A k \in 1 .. Len(new) :
                       \/ Covered(K, from[k]) /\ kept[k] = 0 /\ new[k] \in Placeholders
                       \/ /\ ~ Covered(K, from[k])
                          /\ kept[k] = places[from[k]] /\ new[k] = text[from[k]]
  <1> DEFINE n == Len(text)
             seqs == [i \in DOMAIN text |-> Cell(text, names, i)]
             tags == [i \in DOMAIN places |-> Cell(places, zeros, i)]
  <1>1. n \in Nat /\ DOMAIN text = 1 .. n /\ DOMAIN places = 1 .. n
    BY DEF IsNaming
  <1>2. new = FlattenSeq(seqs) /\ kept = FlattenSeq(tags)
    BY DEF Replaced, Cell
  <1>3. \A i \in 1 .. n :
           /\ Cell(text, names, i) \in Seq(Pieces)
           /\ Len(Cell(text, names, i)) \in {0, 1}
           /\ Cell(places, zeros, i) \in Seq(Nat)
           /\ Len(Cell(places, zeros, i)) = Len(Cell(text, names, i))
           /\ Len(Cell(places, zeros, i)) = 1 =>
                 \/ /\ Covered(K, i)
                    /\ Cell(places, zeros, i)[1] = 0
                    /\ Cell(text, names, i)[1] \in Placeholders
                 \/ /\ ~ Covered(K, i)
                    /\ Cell(places, zeros, i)[1] = places[i]
                    /\ Cell(text, names, i)[1] = text[i]
    <2> SUFFICES ASSUME NEW i \in 1 .. n
                 PROVE  /\ Cell(text, names, i) \in Seq(Pieces)
                        /\ Len(Cell(text, names, i)) \in {0, 1}
                        /\ Cell(places, zeros, i) \in Seq(Nat)
                        /\ Len(Cell(places, zeros, i)) = Len(Cell(text, names, i))
                        /\ Len(Cell(places, zeros, i)) = 1 =>
                              \/ /\ Covered(K, i)
                                 /\ Cell(places, zeros, i)[1] = 0
                                 /\ Cell(text, names, i)[1] \in Placeholders
                              \/ /\ ~ Covered(K, i)
                                 /\ Cell(places, zeros, i)[1] = places[i]
                                 /\ Cell(text, names, i)[1] = text[i]
      OBVIOUS
    <2>1. i \in DOMAIN text
      BY <1>1
    <2>2. Cell(text, names, i) \in Seq(Pieces) /\ Len(Cell(text, names, i)) \in {0, 1}
      BY <2>1, CellFacts DEF IsNaming
    <2>3. /\ Cell(places, zeros, i) \in Seq(Nat)
          /\ Len(Cell(places, zeros, i)) = Len(Cell(text, names, i))
          /\ Len(Cell(places, zeros, i)) = 1 =>
                \/ /\ Covered(K, i)
                   /\ Cell(places, zeros, i)[1] = 0
                   /\ Cell(text, names, i)[1] \in Placeholders
                \/ /\ ~ Covered(K, i)
                   /\ Cell(places, zeros, i)[1] = places[i]
                   /\ Cell(text, names, i)[1] = text[i]
      BY <2>1, CellPlaces
    <2> QED
      BY ONLY <2>2, <2>3
  <1> HIDE DEF n
  <1>4. /\ seqs \in Seq(Seq(Pieces)) /\ Len(seqs) = n
        /\ tags \in Seq(Seq(Nat)) /\ Len(tags) = n
        /\ \A i \in 1 .. n : seqs[i] = Cell(text, names, i) /\ tags[i] = Cell(places, zeros, i)
    BY <1>1, <1>3
  <1> HIDE DEF seqs, tags
  <1>5. /\ \A i \in 1 .. n :
              /\ Len(seqs[i]) \in {0, 1} /\ Len(tags[i]) = Len(seqs[i])
              /\ Len(tags[i]) = 1 =>
                    \/ Covered(K, i) /\ tags[i][1] = 0 /\ seqs[i][1] \in Placeholders
                    \/ ~ Covered(K, i) /\ tags[i][1] = places[i] /\ seqs[i][1] = text[i]
        /\ Singles(seqs) /\ Singles(tags)
    <2>1. \A i \in 1 .. n :
             /\ Len(seqs[i]) \in {0, 1} /\ Len(tags[i]) = Len(seqs[i])
             /\ Len(tags[i]) = 1 =>
                   \/ Covered(K, i) /\ tags[i][1] = 0 /\ seqs[i][1] \in Placeholders
                   \/ ~ Covered(K, i) /\ tags[i][1] = places[i] /\ seqs[i][1] = text[i]
      BY <1>3, <1>4
    <2>2. \A x : x \in {0, 1} => x <= 1
      OBVIOUS
    <2> QED
      BY <1>4, <2>1, <2>2 DEF Singles
  <1>6. new \in Seq(Pieces) /\ kept \in Seq(Nat)
    BY <1>2, <1>4, FlattenElements
  <1>7. PICK at \in [0 .. n -> Nat] : IsPlacing(seqs, new, at)
    BY <1>2, <1>4, <1>5, FlattenSingles
  <1>8. PICK by \in [0 .. n -> Nat] : IsPlacing(tags, kept, by)
    BY <1>2, <1>4, <1>5, FlattenSingles
  <1>9. \A i \in 0 .. n : at[i] = by[i]
    <2>1. \A i \in 1 .. n : Len(tags[i]) = Len(seqs[i]) /\ Len(seqs[i]) \in Nat
      BY <1>5
    <2>2. at \in [0 .. n -> Nat] /\ by \in [0 .. n -> Nat]
          /\ IsPlacing(seqs, new, at) /\ IsPlacing(tags, kept, by)
      BY <1>7, <1>8
    <2>3. n \in Nat /\ Len(seqs) = n /\ Len(tags) = n
      BY <1>1, <1>4
    <2>4. /\ at[0] = by[0]
          /\ \A i \in 1 .. n : at[i] = at[i - 1] + Len(seqs[i]) /\ by[i] = by[i - 1] + Len(seqs[i])
      BY <2>1, <2>2, <2>3 DEF IsPlacing
    <2> DEFINE Good == {i \in 0 .. n : at[i] = by[i]}
    <2>5. 0 \in Good
      BY ONLY <2>3, <2>4
    <2>6. ASSUME NEW i \in 1 .. n, i - 1 \in Good
          PROVE  i \in Good
      <3>1. i \in 0 .. n /\ at[i - 1] = by[i - 1]
        BY ONLY <2>3, <2>6
      <3> QED
        BY ONLY <2>4, <3>1
    <2>7. \A i \in 0 .. n : i \in Good
      <3> HIDE DEF Good
      <3> QED
        BY <2>3, <2>5, <2>6, IntervalInduction
    <2> QED
      BY ONLY <2>7
  <1>10. /\ at[n] = Len(new) /\ at[n] = Len(kept)
         /\ \A i \in 1 .. n : Len(seqs[i]) = 1 =>
               new[at[i]] = seqs[i][1] /\ kept[at[i]] = tags[i][1]
         /\ \A k \in 1 .. Len(new) : \E i \in 1 .. n : Len(seqs[i]) = 1 /\ at[i] = k
    <2>1. /\ at[n] = Len(new) /\ by[n] = Len(kept)
          /\ \A i \in 1 .. n : Len(seqs[i]) = 1 => new[at[i]] = seqs[i][1]
          /\ \A i \in 1 .. n : Len(tags[i]) = 1 => kept[by[i]] = tags[i][1]
          /\ \A k \in 1 .. Len(new) : \E i \in 1 .. n : Len(seqs[i]) = 1 /\ at[i] = k
      BY <1>4, <1>7, <1>8 DEF IsPlacing
    <2>2. /\ n \in 0 .. n /\ \A i \in 1 .. n : i \in 0 .. n
          /\ \A i \in 1 .. n : Len(tags[i]) = Len(seqs[i])
      BY <1>1, <1>5
    <2> QED
      BY ONLY <1>9, <2>1, <2>2
  <1> DEFINE m == Len(new)
             from == [k \in 1 .. m |-> CHOOSE i \in 1 .. n : Len(seqs[i]) = 1 /\ at[i] = k]
  <1>11. \A k \in 1 .. m : from[k] \in 1 .. n /\ Len(seqs[from[k]]) = 1 /\ at[from[k]] = k
    <2> HIDE DEF m
    <2>1. \A k \in 1 .. m : \E i \in 1 .. n : Len(seqs[i]) = 1 /\ at[i] = k
      BY <1>10 DEF m
    <2> QED
      BY <2>1
  <1>12. from \in [1 .. m -> 1 .. n]
    <2> HIDE DEF m
    <2>1. \A k \in 1 .. m : from[k] \in 1 .. n
      BY <1>11
    <2>2. from = [k \in 1 .. m |-> from[k]]
      OBVIOUS
    <2> HIDE DEF from
    <2> QED
      BY <2>1, <2>2
  <1> HIDE DEF from, m
  <1>13. \A k, l \in 1 .. m : from[k] = from[l] => k = l
    BY <1>11
  <1>14. ASSUME NEW k \in 1 .. m
         PROVE  \/ Covered(K, from[k]) /\ kept[k] = 0 /\ new[k] \in Placeholders
                \/ /\ ~ Covered(K, from[k])
                   /\ kept[k] = places[from[k]] /\ new[k] = text[from[k]]
    <2> DEFINE i == from[k]
    <2>1. i \in 1 .. n /\ Len(seqs[i]) = 1 /\ at[i] = k
      BY <1>11
    <2> HIDE DEF i
    <2>2. new[k] = seqs[i][1] /\ kept[k] = tags[i][1] /\ Len(tags[i]) = 1
      BY <1>5, <1>10, <2>1
    <2> QED
      BY <1>5, <2>1, <2>2 DEF i
  <1>15. Len(kept) = m
    BY <1>10 DEF m
  <1> QED
    BY <1>6, <1>12, <1>13, <1>14, <1>15 DEF n, m


-------------------------------------------------------------------------------
(* What redaction makes of a text. *)

\* Spans are named with placeholders, from the start as from the end.
LEMMA NamesFacts ==
    ASSUME NEW n \in Nat, NEW K \in SUBSET Spans(n), IsFiniteSet(K)
    PROVE  FromStart(K) \in [K -> Placeholders] /\ FromEnd(K) \in [K -> Placeholders]
  <1>1. \A S \in SUBSET K : Cardinality(S) \in Nat
    BY FS_Subset, FS_CardinalityType
  <1>2. \A s \in K : s.tag \in STRING
    BY DEF Spans
  <1>3. \A s \in K, S \in SUBSET K : Placeholder(s.tag, Cardinality(S)) \in Placeholders
    BY <1>1, <1>2 DEF Placeholder, Placeholders
  <1> QED
    BY <1>3 DEF FromStart, FromEnd

\* What the placeholders of a text stand for: its words.
LEMMA ReverseMappingFacts ==
    ASSUME NEW text \in Seq(Pieces), NEW K \in SUBSET Spans(Len(text)),
           \A s \in K : \A k \in s.from .. s.to : text[k] \in WordPieces,
           NEW names \in [K -> Placeholders]
    PROVE  ReverseMapping(text, names) \in Mappings
  <1> DEFINE D == Range(names)
             spanOf(p) == CHOOSE x \in K : names[x] = p
  <1>1. DOMAIN names = K /\ D \in SUBSET Placeholders
    BY DEF Range
  <1>2. ReverseMapping(text, names) =
           [p \in D |-> SubSeq(text, spanOf(p).from, spanOf(p).to)]
    BY <1>1 DEF ReverseMapping
  <1>3. ASSUME NEW p \in D
        PROVE  SubSeq(text, spanOf(p).from, spanOf(p).to) \in Values
    <2>1. spanOf(p) \in K
      BY <1>1 DEF Range
    <2> DEFINE n == Len(text)
               a == spanOf(p).from
               b == spanOf(p).to
               value == SubSeq(text, a, b)
    <2>2. a \in 1 .. n /\ b \in 1 .. n /\ a <= b /\ n \in Nat
      BY <2>1 DEF Spans
    <2>3. \A k \in a .. b : text[k] \in WordPieces
      BY <2>1
    <2> HIDE DEF a, b, spanOf
    <2>4. /\ value \in Seq(Pieces) /\ Len(value) = b - a + 1
          /\ \A k \in 1 .. b - a + 1 : value[k] = text[a + k - 1]
      BY <2>2
    <2>5. b - a + 1 \in Nat /\ b - a + 1 > 0
          /\ \A k \in 1 .. b - a + 1 : a + k - 1 \in a .. b
      BY <2>2
    <2> DEFINE l == b - a + 1
    <2>6. l \in Nat /\ l > 0 /\ Len(value) = l /\ \A k \in 1 .. l : value[k] \in WordPieces
      BY <2>3, <2>4, <2>5
    <2> HIDE DEF value, l
    <2>7. value \in Seq(WordPieces) /\ value # <<>>
      BY <2>4, <2>6
    <2> QED
      BY <2>7 DEF value, a, b, Values
  <1> HIDE DEF D, spanOf
  <1>4. [p \in D |-> SubSeq(text, spanOf(p).from, spanOf(p).to)] \in [D -> Values]
    BY <1>3
  <1> QED
    BY <1>1, <1>2, <1>4, MappingFacts

Redactions ==
    {done \in [text : Seq(Pieces), places : Seq(Nat), mapping : Mappings] :
        Len(done.places) = Len(done.text)}

\* A mapping takes up another.
LEMMA UpdatedFacts ==
    ASSUME NEW old \in Mappings, NEW new \in Mappings
    PROVE  Updated(old, new) \in Mappings
  <1> DEFINE D == DOMAIN old \cup DOMAIN new
             up == Updated(old, new)
  <1>1. D \in SUBSET Placeholders
    BY MappingFacts
  <1>2. \A p \in D : (IF p \in DOMAIN new THEN new[p] ELSE old[p]) \in Values
    BY MappingFacts
  <1>3. up = [p \in D |-> IF p \in DOMAIN new THEN new[p] ELSE old[p]]
    BY DEF Updated
  <1> HIDE DEF D, up
  <1>4. up \in [D -> Values]
    BY <1>2, <1>3
  <1> QED
    BY <1>1, <1>4, MappingFacts DEF up

\* A redaction of a text has placeholders and pieces of that text, none of them twice.
IsOf(text, done) ==
    /\ \A k \in DOMAIN done.text :
          IF done.places[k] = 0
          THEN done.text[k] \in Placeholders
          ELSE done.places[k] \in DOMAIN text /\ done.text[k] = text[done.places[k]]
    /\ \A k, l \in DOMAIN done.text :
          done.places[k] # 0 /\ done.places[k] = done.places[l] => k = l

\* A step of the redaction, over spans that were kept of those that were found: what it
\* leaves was left before, and it leaves no beginning of a span.
Takes(old, spans, new) ==
    Remaining(new) \subseteq Remaining(old) /\ \A s \in spans : old.places[s.from] \notin Remaining(new)

LEMMA NamedFacts ==
    ASSUME NEW done \in Redactions, NEW R \in SUBSET Known, NEW names,
           names \in [Filtered(done.text, SpansOf(done.text, R)) -> Placeholders]
    PROVE  /\ WithNames(done, names) \in Redactions
           /\ WithNames(done, names).text = Replaced(done.text, names)
           /\ ReverseMapping(done.text, names) \in Mappings
           /\ WithNames(done, names).mapping
                 = Updated(done.mapping, ReverseMapping(done.text, names))
           /\ \A text : IsOf(text, done) =>
                 /\ IsOf(text, WithNames(done, names))
                 /\ Takes(done, SpansOf(done.text, R), WithNames(done, names))
  <1> DEFINE text == done.text
             places == done.places
             spans == SpansOf(text, R)
             K == Filtered(text, spans)
             n == Len(text)
             new == Replaced(text, names)
             zeros == [s \in DOMAIN names |-> 0]
             kept == Replaced(places, zeros)
             mine == ReverseMapping(text, names)
             up == Updated(done.mapping, mine)
             next == WithNames(done, names)
  <1>1. /\ text \in Seq(Pieces) /\ places \in Seq(Nat) /\ Len(places) = n
        /\ done.mapping \in Mappings /\ n \in Nat /\ DOMAIN text = 1 .. n
    BY DEF Redactions
  <1>2. next = [text |-> new, places |-> kept, mapping |-> up]
    BY DEF WithNames
  <1> HIDE DEF text, places, next
  <1>3. /\ K \in SUBSET spans
        /\ \A s \in spans : Covered(K, s.from)
    BY <1>1, FilteredFacts DEF Covered
  <1>4. /\ K \in SUBSET Spans(n)
        /\ \A s \in K : \A k \in s.from .. s.to : text[k] \in WordPieces
        /\ \A s \in spans : s.from \in 1 .. n
    <2>1. \A s \in spans : s \in Spans(n) /\ \A k \in s.from .. s.to : text[k] \in WordPieces
      BY <1>1, SpanFacts
    <2>2. \A s \in Spans(n) : s.from \in 1 .. n
      BY DEF Spans
    <2> HIDE DEF K, spans
    <2> QED
      BY <1>3, <2>1, <2>2
  <1>5. names \in [K -> Placeholders]
    BY DEF text
  <1> HIDE DEF K, n, spans, zeros, new, kept, mine, up
  <1>6. mine \in Mappings
    BY <1>1, <1>4, <1>5, ReverseMappingFacts DEF mine, n
  <1>7. up \in Mappings
    BY <1>1, <1>6, UpdatedFacts DEF up
  <1>8. /\ new \in Seq(Pieces) /\ kept \in Seq(Nat) /\ Len(kept) = Len(new)
        /\ \E from \in [1 .. Len(new) -> 1 .. n] :
              /\ \A k, l \in 1 .. Len(new) : from[k] = from[l] => k = l
              /\ \A k \in 1 .. Len(new) :
                    \/ Covered(K, from[k]) /\ kept[k] = 0 /\ new[k] \in Placeholders
                    \/ /\ ~ Covered(K, from[k])
                       /\ kept[k] = places[from[k]] /\ new[k] = text[from[k]]
    <2>1. IsNaming(text, places, K, names, zeros)
      BY <1>1, <1>4, <1>5 DEF IsNaming, zeros, n
    <2>2. new = Replaced(text, names) /\ kept = Replaced(places, zeros) /\ n = Len(text)
      BY DEF new, kept, n
    <2> QED
      BY ONLY <2>1, <2>2, ReplacedPieces, SMTT(30)
  <1>9. next \in Redactions
    BY <1>2, <1>7, <1>8 DEF Redactions
  <1>10. ASSUME NEW whole, IsOf(whole, done)
         PROVE  IsOf(whole, next) /\ Takes(done, spans, next)
    <2> DEFINE m == Len(new)
    <2>1. PICK from \in [1 .. m -> 1 .. n] :
             /\ \A k, l \in 1 .. m : from[k] = from[l] => k = l
             /\ \A k \in 1 .. m :
                   \/ Covered(K, from[k]) /\ kept[k] = 0 /\ new[k] \in Placeholders
                   \/ /\ ~ Covered(K, from[k])
                      /\ kept[k] = places[from[k]] /\ new[k] = text[from[k]]
      BY <1>8
    <2>2. /\ \A k \in 1 .. n :
                IF places[k] = 0
                THEN text[k] \in Placeholders
                ELSE places[k] \in DOMAIN whole /\ text[k] = whole[places[k]]
          /\ \A k, l \in 1 .. n : places[k] # 0 /\ places[k] = places[l] => k = l
      BY <1>1, <1>10 DEF IsOf, text, places
    <2>3. DOMAIN new = 1 .. m /\ DOMAIN kept = 1 .. m /\ m \in Nat
      BY <1>8
    <2>4. DOMAIN places = 1 .. n
      BY <1>1
    <2>5. next.text = new /\ next.places = kept
      BY <1>2
    <2> HIDE DEF m
    <2>6. \A k \in 1 .. m : from[k] \in 1 .. n
      BY <2>1
    <2>7. \A k \in 1 .. m :
             IF kept[k] = 0
             THEN new[k] \in Placeholders
             ELSE kept[k] \in DOMAIN whole /\ new[k] = whole[kept[k]]
      BY <2>1, <2>2, <2>6
    <2>8. \A k, l \in 1 .. m : kept[k] # 0 /\ kept[k] = kept[l] => k = l
      <3> SUFFICES ASSUME NEW k \in 1 .. m, NEW l \in 1 .. m, kept[k] # 0, kept[k] = kept[l]
                   PROVE  k = l
        OBVIOUS
      <3>1. kept[k] = places[from[k]] /\ kept[l] = places[from[l]]
        BY <2>1
      <3>2. from[k] = from[l]
        BY <2>2, <2>6, <3>1
      <3> QED
        BY <2>1, <3>2
    <2>9. IsOf(whole, next)
      BY <2>3, <2>5, <2>7, <2>8 DEF IsOf
    <2>10. \A x : x \in Remaining(next) =>
              \E i \in 1 .. n : ~ Covered(K, i) /\ x = places[i] /\ x # 0
      <3> SUFFICES ASSUME NEW x \in Remaining(next)
                   PROVE  \E i \in 1 .. n : ~ Covered(K, i) /\ x = places[i] /\ x # 0
        OBVIOUS
      <3>1. PICK k \in 1 .. m : x = kept[k] /\ x # 0
        BY <2>3, <2>5 DEF Remaining, Range
      <3> QED
        BY <2>1, <2>6, <3>1
    <2>11. Remaining(next) \subseteq Remaining(done)
      <3>1. \A i \in 1 .. n : places[i] # 0 => places[i] \in Remaining(done)
        BY <2>4 DEF Remaining, Range, places
      <3> QED
        BY <2>10, <3>1
    <2>12. ASSUME NEW s \in spans
           PROVE  places[s.from] \notin Remaining(next)
      <3> SUFFICES ASSUME places[s.from] \in Remaining(next) PROVE FALSE
        OBVIOUS
      <3>1. PICK i \in 1 .. n : ~ Covered(K, i) /\ places[s.from] = places[i] /\ places[i] # 0
        BY <2>10
      <3>2. s.from = i
        BY <1>4, <2>2, <3>1
      <3> QED
        BY <1>3, <3>1, <3>2
    <2> QED
      BY <2>9, <2>11, <2>12 DEF Takes, places
  <1> QED
    BY <1>2, <1>6, <1>9, <1>10 DEF new, up, mine, spans, text, next

\* Nothing has been taken out yet.
LEMMA UnredactedFacts ==
    ASSUME NEW text \in Seq(Pieces)
    PROVE  /\ Unredacted(text) \in Redactions /\ IsOf(text, Unredacted(text))
           /\ Remaining(Unredacted(text)) = DOMAIN text
           /\ \A i \in DOMAIN text : Unredacted(text).places[i] = i
  <1> DEFINE n == Len(text)
             places == [i \in DOMAIN text |-> i]
  <1>1. <<>> \in Mappings
    <2>1. <<>> \in [{} -> Values]
      OBVIOUS
    <2> QED
      BY <2>1, MappingFacts
  <1>2. Unredacted(text) = [text |-> text, places |-> places, mapping |-> <<>>]
    BY DEF Unredacted
  <1>3. n \in Nat /\ DOMAIN text = 1 .. n
    OBVIOUS
  <1> HIDE DEF n
  <1>4. places \in Seq(Nat) /\ Len(places) = n /\ DOMAIN places = 1 .. n
        /\ \A i \in 1 .. n : places[i] = i /\ i # 0
    BY <1>3
  <1> HIDE DEF places
  <1>5. Unredacted(text) \in Redactions
    BY <1>1, <1>2, <1>4 DEF Redactions, n
  <1>6. IsOf(text, Unredacted(text))
    BY <1>2, <1>3, <1>4 DEF IsOf
  <1>7. Remaining(Unredacted(text)) = DOMAIN text
    BY <1>2, <1>3, <1>4 DEF Remaining, Range
  <1> QED
    BY <1>2, <1>3, <1>4, <1>5, <1>6, <1>7

\* What Presidio keeps is named, and taken out.
LEMMA PresidioNames ==
    ASSUME NEW text \in Seq(Pieces)
    PROVE  /\ Recognizers \in SUBSET Known
           /\ FromStart(Filtered(text, SpansOf(text, Recognizers)))
                 \in [Filtered(text, SpansOf(text, Recognizers)) -> Placeholders]
  <1> DEFINE K == Filtered(text, SpansOf(text, Recognizers))
             n == Len(text)
  <1>1. Recognizers \in SUBSET Known
    BY DEF Known
  <1>2. K \in SUBSET SpansOf(text, Recognizers) /\ IsFiniteSet(K)
    BY <1>1, FilteredFacts
  <1>3. K \in SUBSET Spans(n) /\ n \in Nat
    BY <1>1, <1>2, SpanFacts
  <1>4. FromStart(K) \in [K -> Placeholders]
    <2> HIDE DEF K, n
    <2> QED
      BY <1>2, <1>3, NamesFacts
  <1> QED
    BY <1>1, <1>4

\* No span that Presidio finds is left whole.
LEMMA PresidioFacts ==
    ASSUME NEW text \in Seq(Pieces)
    PROVE  /\ RedactWithPresidio(text) \in Redactions
           /\ IsOf(text, RedactWithPresidio(text))
           /\ \A s \in SpansOf(text, Recognizers) :
                 s.from \in s.from .. s.to /\ s.from \notin Remaining(RedactWithPresidio(text))
  <1> DEFINE names == FromStart(Filtered(text, SpansOf(text, Recognizers)))
             start == Unredacted(text)
  <1>1. /\ start \in Redactions /\ IsOf(text, start) /\ start.text = text
        /\ \A i \in DOMAIN text : start.places[i] = i
    BY UnredactedFacts DEF Unredacted
  <1>2. names \in [Filtered(text, SpansOf(text, Recognizers)) -> Placeholders]
        /\ Recognizers \in SUBSET Known
    BY PresidioNames
  <1>3. RedactWithPresidio(text) = WithNames(start, names)
    BY DEF RedactWithPresidio
  <1> HIDE DEF names, start
  <1>4. /\ WithNames(start, names) \in Redactions
        /\ IsOf(text, WithNames(start, names))
        /\ Takes(start, SpansOf(text, Recognizers), WithNames(start, names))
    BY <1>1, <1>2, NamedFacts
  <1>5. ASSUME NEW s \in SpansOf(text, Recognizers)
        PROVE  s.from \in DOMAIN text /\ s.from \in s.from .. s.to
    <2>1. s \in Spans(Len(text))
      BY <1>2, SpanFacts
    <2> QED
      BY <2>1 DEF Spans
  <1> QED
    BY <1>1, <1>3, <1>4, <1>5 DEF Takes

\* What a pattern keeps is named.
LEMMA PatternNames ==
    ASSUME NEW text \in Seq(Pieces), NEW pattern \in Range(Patterns)
    PROVE  /\ {pattern} \in SUBSET Known
           /\ FromEnd(Filtered(text, SpansOf(text, {pattern})))
                 \in [Filtered(text, SpansOf(text, {pattern})) -> Placeholders]
  <1> DEFINE R == {pattern}
             K == Filtered(text, SpansOf(text, R))
             n == Len(text)
  <1>1. R \in SUBSET Known
    BY DEF Known
  <1> HIDE DEF R
  <1>2. K \in SUBSET SpansOf(text, R) /\ IsFiniteSet(K)
    BY <1>1, FilteredFacts
  <1>3. K \in SUBSET Spans(n) /\ n \in Nat
    BY <1>1, <1>2, SpanFacts
  <1>4. FromEnd(K) \in [K -> Placeholders]
    <2> HIDE DEF K, n
    <2> QED
      BY <1>2, <1>3, NamesFacts
  <1> QED
    BY <1>1, <1>4 DEF R

\* A pattern takes its own matches out.
LEMMA PatternFacts ==
    ASSUME NEW done \in Redactions, NEW pattern \in Range(Patterns)
    PROVE  /\ RedactPattern(done, pattern) \in Redactions
           /\ \A text : IsOf(text, done) =>
                 /\ IsOf(text, RedactPattern(done, pattern))
                 /\ Takes(done, SpansOf(done.text, {pattern}), RedactPattern(done, pattern))
  <1> DEFINE text == done.text
             names == FromEnd(Filtered(text, SpansOf(text, {pattern})))
  <1>1. text \in Seq(Pieces)
    BY DEF Redactions
  <1>2. names \in [Filtered(text, SpansOf(text, {pattern})) -> Placeholders]
        /\ {pattern} \in SUBSET Known
    BY <1>1, PatternNames
  <1>3. RedactPattern(done, pattern) = WithNames(done, names)
    BY DEF RedactPattern
  <1> HIDE DEF names
  <1> QED
    BY <1>2, <1>3, NamedFacts

\* The patterns are gone through in their order.
LEMMA RegexRun ==
    ASSUME NEW text \in Seq(Pieces)
    PROVE  \E g \in [0 .. Len(Patterns) -> Redactions] :
              /\ g[0] = Unredacted(text)
              /\ \A i \in 1 .. Len(Patterns) : g[i] = RedactPattern(g[i - 1], Patterns[i])
              /\ RedactWithRegex(text) = g[Len(Patterns)]
  <1> DEFINE n == Len(Patterns)
             A == Redactions
             a0 == Unredacted(text)
             f == [i \in 1 .. n |-> [done \in A |-> RedactPattern(done, Patterns[i])]]
             IsFold(h) ==
                h = [S \in SUBSET (1 .. n) |->
                       IF S = {} THEN a0 ELSE RedactPattern(h[S \ {Max(S)}], Patterns[Max(S)])]
             fold == CHOOSE h : IsFold(h)
  <1>1. /\ Patterns \in Seq(Range(Patterns)) /\ n \in Nat /\ DOMAIN Patterns = 1 .. n
        /\ \A i \in 1 .. n : Patterns[i] \in Range(Patterns)
    BY RedactionAssumption DEF Range
  <1>2. RedactWithRegex(text) = fold[1 .. n]
    BY <1>1 DEF RedactWithRegex, FoldLeft, MapThenFoldSet
  <1>3. a0 \in A
    BY UnredactedFacts
  <1>4. \A done \in A, i \in 1 .. n : RedactPattern(done, Patterns[i]) \in A
    BY <1>1, PatternFacts
  <1> HIDE DEF a0
  <1>5. f \in [1 .. n -> [A -> A]]
    <2> HIDE DEF A, n
    <2> QED
      BY <1>4
  <1>6. \A i \in 1 .. n : \A done \in A : f[i][done] = RedactPattern(done, Patterns[i])
    <2> HIDE DEF A, n
    <2> QED
      OBVIOUS
  <1>7. \E h : IsFold(h)
    <2>1. PICK h \in FoldsOver(A, a0, n, f) : TRUE
      <3> HIDE DEF n, f, A
      <3>1. FoldsOver(A, a0, n, f) # {}
        BY ONLY <1>1, <1>3, <1>5, FoldExists
      <3> QED
        BY <3>1
    <2> HIDE DEF A
    <2>2. /\ h \in [SUBSET (1 .. n) -> A]
          /\ \A S \in SUBSET (1 .. n) :
                h[S] = IF S = {} THEN a0 ELSE f[Max(S)][h[S \ {Max(S)}]]
      BY <2>1 DEF FoldsOver
    <2>3. ASSUME NEW S \in SUBSET (1 .. n), S # {}
          PROVE  f[Max(S)][h[S \ {Max(S)}]] = RedactPattern(h[S \ {Max(S)}], Patterns[Max(S)])
      <3>1. Max(S) \in 1 .. n
        <4> HIDE DEF n, f
        <4> QED
          BY <1>1, <2>3, GreatestPosition
      <3>2. h[S \ {Max(S)}] \in A
        BY <2>2
      <3> HIDE DEF n, f
      <3> QED
        BY <1>6, <3>1, <3>2
    <2> HIDE DEF f, n
    <2>4. IsFold(h)
      BY <2>2, <2>3
    <2> QED
      BY <2>4
  <1>8. IsFold(fold)
    <2> HIDE DEF IsFold
    <2> QED
      BY <1>7
  <1> HIDE DEF A, f, fold
  <1>9. FollowsOver(A, a0, n, f, fold)
    <2>1. ASSUME NEW S \in SUBSET (1 .. n), S # {}
          PROVE  Max(S) \in 1 .. n
      <3> HIDE DEF n
      <3> QED
        BY <1>1, <2>1, GreatestPosition
    <2> HIDE DEF n
    <2>2. fold[{}] = a0
      <3>1. {} \in SUBSET (1 .. n)
        OBVIOUS
      <3> QED
        BY <1>8, <3>1
    <2>3. ASSUME NEW S \in SUBSET (1 .. n), S # {}, fold[S \ {Max(S)}] \in A
          PROVE  fold[S] = f[Max(S)][fold[S \ {Max(S)}]]
      <3> DEFINE last == Max(S)
                 before == fold[S \ {Max(S)}]
      <3>1. fold[S] = RedactPattern(before, Patterns[last])
        BY <1>8, <2>3
      <3>2. last \in 1 .. n /\ before \in A
        BY <2>1, <2>3
      <3> HIDE DEF last, before
      <3>3. fold[S] = f[last][before]
        BY <1>6, <3>1, <3>2
      <3> QED
        BY <3>3 DEF last, before
    <2> QED
      BY <2>2, <2>3 DEF FollowsOver
  <1> HIDE DEF n
  <1>10. PICK g \in RunsOver(A, a0, n, f) : g[n] = fold[1 .. n]
    <2>1. [i \in 0 .. n |-> fold[1 .. i]] \in RunsOver(A, a0, n, f)
      BY <1>1, <1>3, <1>5, <1>9, FoldRuns
    <2>2. n \in 0 .. n
      BY <1>1
    <2> QED
      BY <2>1, <2>2
  <1>11. g \in [0 .. n -> A] /\ g[0] = a0 /\ \A i \in 1 .. n : g[i] = f[i][g[i - 1]]
    BY <1>10 DEF RunsOver
  <1>12. \A i \in 1 .. n : g[i] = RedactPattern(g[i - 1], Patterns[i])
    <2>1. \A i \in 1 .. n : i - 1 \in 0 .. n
      BY <1>1
    <2> QED
      BY <1>6, <1>11, <2>1
  <1> QED
    BY <1>2, <1>10, <1>11, <1>12 DEF n, A, a0

\* The runs of the fallback over a text.
RunsOf(text) ==
    {g \in [0 .. Len(Patterns) -> Redactions] :
        /\ g[0] = Unredacted(text)
        /\ \A i \in 1 .. Len(Patterns) : g[i] = RedactPattern(g[i - 1], Patterns[i])}

\* What is assumed of the patterns: one that matches in a text still matches from there on
\* when the patterns before it have taken out nothing of that match, whatever they have
\* taken out around it.  The four of the code do, on texts without a "|": a placeholder
\* begins and ends with a character that is not of a word and that no match takes, and
\* their matches begin and end with one that is where they ask for a \b.  (The class
\* [A-Z|a-z] lets an e-mail address end in "|".)
MatchesStay ==
    \A text \in Seq(Pieces) : \A g \in RunsOf(text) : \A i \in 1 .. Len(Patterns) :
        \A s \in FoundBy(text, Patterns[i]) :
            s.from .. s.to \subseteq Remaining(g[i - 1]) =>
                \E t \in FoundBy(g[i - 1].text, Patterns[i]) : g[i - 1].places[t.from] = s.from

\* No span that a pattern finds in a text is left whole by the fallback: an earlier pattern
\* has taken some of it, or the pattern finds it again and takes its first piece, or it
\* begins within another match that is taken.
LEMMA RegexFacts ==
    ASSUME NEW text \in Seq(Pieces)
    PROVE  /\ RedactWithRegex(text) \in Redactions
           /\ IsOf(text, RedactWithRegex(text))
           /\ MatchesStay => \A s \in SpansOf(text, Range(Patterns)) :
                 ~ (s.from .. s.to \subseteq Remaining(RedactWithRegex(text)))
  <1> DEFINE n == Len(Patterns)
  <1>1. n \in Nat /\ \A i \in 1 .. n : Patterns[i] \in Range(Patterns)
    BY RedactionAssumption DEF Range
  <1>2. \A r \in Range(Patterns) : \E i \in 1 .. n : r = Patterns[i]
    BY RedactionAssumption DEF Range
  <1>3. PICK g \in [0 .. n -> Redactions] :
           /\ g[0] = Unredacted(text)
           /\ \A i \in 1 .. n : g[i] = RedactPattern(g[i - 1], Patterns[i])
           /\ RedactWithRegex(text) = g[n]
    BY RegexRun
  <1>4. g \in RunsOf(text)
    BY <1>3 DEF RunsOf
  <1> HIDE DEF n
  <1>5. \A i \in 1 .. n : i \in 0 .. n /\ i - 1 \in 0 .. n
    BY <1>1
  <1> DEFINE Whole(i, s) == s.from .. s.to \subseteq Remaining(g[i])
             Clear(i, j) == \A s \in FoundBy(text, Patterns[j]) : ~ Whole(i, s)
             Good == {i \in 0 .. n :
                        IsOf(text, g[i]) /\ (MatchesStay => \A j \in 1 .. i : Clear(i, j))}
  <1>6. 0 \in Good
    <2>1. IsOf(text, g[0])
      BY <1>3, UnredactedFacts
    <2>2. 1 .. 0 = {} /\ 0 \in 0 .. n
      BY <1>1
    <2> HIDE DEF Clear
    <2> QED
      BY <2>1, <2>2
  <1>7. ASSUME NEW i \in 1 .. n, i - 1 \in Good
        PROVE  i \in Good
    <2> DEFINE done == g[i - 1]
               next == g[i]
               p == Patterns[i]
    <2>1. done \in Redactions /\ next = RedactPattern(done, p) /\ p \in Range(Patterns)
      BY <1>1, <1>3, <1>5
    <2>2. IsOf(text, done) /\ (MatchesStay => \A j \in 1 .. i - 1 : Clear(i - 1, j))
      BY <1>7
    <2>3. IsOf(text, next) /\ Takes(done, SpansOf(done.text, {p}), next)
      <3> HIDE DEF done, next, p
      <3> QED
        BY <2>1, <2>2, PatternFacts
    <2>4. Remaining(next) \subseteq Remaining(done)
      BY <2>3 DEF Takes
    <2>5. ASSUME MatchesStay, NEW s \in FoundBy(text, p)
          PROVE  ~ Whole(i, s)
      <3> SUFFICES ASSUME Whole(i, s) PROVE FALSE
        OBVIOUS
      <3>1. s.from .. s.to \subseteq Remaining(done)
        BY <2>4
      <3>2. PICK t \in FoundBy(done.text, p) : done.places[t.from] = s.from
        BY <1>4, <2>5, <3>1 DEF MatchesStay, n
      <3>3. t \in SpansOf(done.text, {p})
        BY <3>2 DEF SpansOf
      <3>4. s.from \notin Remaining(next)
        BY <2>3, <3>2, <3>3 DEF Takes
      <3>5. s.from \in s.from .. s.to
        <4>1. s.from \in DOMAIN text /\ s.to \in DOMAIN text /\ s.from <= s.to
          BY <2>5 DEF FoundBy
        <4>2. s.from \in Int /\ s.to \in Int
          BY <4>1
        <4> QED
          BY <4>1, <4>2
      <3> QED
        BY <3>4, <3>5
    <2>6. ASSUME MatchesStay, NEW j \in 1 .. i
          PROVE  Clear(i, j)
      <3>1. CASE j = i
        BY <2>5, <2>6, <3>1
      <3>2. CASE j # i
        <4>1. j \in 1 .. i - 1
          BY <1>1, <3>2
        <4>2. Clear(i - 1, j)
          BY <2>2, <2>6, <4>1
        <4> QED
          BY <2>4, <4>2
      <3> QED
        BY <3>1, <3>2
    <2> HIDE DEF Clear
    <2> QED
      BY <1>5, <2>3, <2>6
  <1>8. n \in Good
    <2>1. n \in 0 .. n
      BY <1>1
    <2> HIDE DEF Good
    <2> QED
      BY <1>1, <1>6, <1>7, <2>1, IntervalInduction
  <1>9. ASSUME MatchesStay, NEW s \in SpansOf(text, Range(Patterns))
        PROVE  ~ Whole(n, s)
    <2>1. PICK r \in Range(Patterns) : s \in FoundBy(text, r)
      BY <1>9 DEF SpansOf
    <2>2. PICK j \in 1 .. n : r = Patterns[j]
      BY <1>2
    <2>3. Clear(n, j)
      BY <1>8, <1>9, <2>2
    <2> QED
      BY <2>1, <2>2, <2>3
  <1>10. g[n] \in Redactions /\ IsOf(text, g[n])
    <2>1. n \in 0 .. n
      BY <1>1
    <2> QED
      BY <1>8, <2>1
  <1> QED
    BY <1>3, <1>9, <1>10

\* Whatever the engine, what it recognizes in a text it does not leave whole.
LEMMA RedactFacts ==
    ASSUME NEW e \in Engines, NEW text \in Seq(Pieces)
    PROVE  /\ Redact(e, text) \in Redactions
           /\ IsOf(text, Redact(e, text))
           /\ MatchesStay => \A s \in Recognized(e, text) :
                 ~ (s.from .. s.to \subseteq Remaining(Redact(e, text)))
  <1>1. CASE e = "presidio"
    BY <1>1, PresidioFacts DEF Redact, Recognized
  <1>2. CASE e = "regex"
    BY <1>2, RegexFacts DEF Redact, Recognized
  <1>3. CASE e = "off"
    BY <1>3, UnredactedFacts DEF Redact, Recognized
  <1> QED
    BY <1>1, <1>2, <1>3 DEF Engines

-------------------------------------------------------------------------------
(* Rehydration, and the joining of a stream. *)

\* What a piece becomes.
Back(m, p) == IF p \in DOMAIN m THEN m[p] ELSE <<p>>

\* What a piece becomes is a piece of text; what stands for nothing stays as it was.
LEMMA BackFacts ==
    ASSUME NEW m \in Mappings, NEW p \in Pieces
    PROVE  /\ Back(m, p) \in Seq(Pieces)
           /\ p \in DOMAIN m => p \in Placeholders /\ m[p] \in Values
           /\ p \in WordPieces \/ p.is = "head" \/ p.is = "tail" => p \notin DOMAIN m
  <1>1. p \in DOMAIN m => p \in Placeholders /\ m[p] \in Values
    BY MappingFacts
  <1>2. Values \subseteq Seq(Pieces)
    <2>1. WordPieces \subseteq Pieces
      BY PieceKinds
    <2> QED
      BY <2>1 DEF Values
  <1>3. p \in Placeholders => p \notin WordPieces /\ p.is # "head" /\ p.is # "tail"
    BY PieceKinds
  <1> QED
    BY <1>1, <1>2, <1>3 DEF Back

\* A text is rehydrated piece by piece.
LEMMA RehydrateFacts ==
    ASSUME NEW m \in Mappings
    PROVE  /\ Rehydrate(<<>>, m) = <<>>
           /\ \A text \in Seq(Pieces) :
                 /\ Rehydrate(text, m) \in Seq(Pieces)
                 /\ \A p \in Pieces :
                       Rehydrate(Append(text, p), m) = Rehydrate(text, m) \o Back(m, p)
  <1>1. \A text : Rehydrate(text, m) = FlattenSeq([i \in DOMAIN text |-> Back(m, text[i])])
    BY DEF Rehydrate, Back
  <1>2. Rehydrate(<<>>, m) = <<>>
    <2>1. [i \in DOMAIN <<>> |-> Back(m, <<>>[i])] = <<>>
      OBVIOUS
    <2> QED
      BY <1>1, <2>1, FlattenEmpty
  <1>3. ASSUME NEW text \in Seq(Pieces)
        PROVE  /\ Rehydrate(text, m) \in Seq(Pieces)
               /\ \A p \in Pieces :
                     Rehydrate(Append(text, p), m) = Rehydrate(text, m) \o Back(m, p)
    <2> DEFINE n == Len(text)
               cells == [i \in DOMAIN text |-> Back(m, text[i])]
    <2>1. n \in Nat /\ DOMAIN text = 1 .. n /\ \A i \in 1 .. n : text[i] \in Pieces
      OBVIOUS
    <2>2. \A p \in Pieces : Back(m, p) \in Seq(Pieces)
      BY BackFacts
    <2>3. cells \in Seq(Seq(Pieces)) /\ Len(cells) = n
      <3> HIDE DEF n
      <3> QED
        BY <2>1, <2>2
    <2>4. Rehydrate(text, m) = FlattenSeq(cells)
      BY <1>1
    <2>5. Rehydrate(text, m) \in Seq(Pieces)
      <3> HIDE DEF cells
      <3> QED
        BY <2>3, <2>4, FlattenElements
    <2>6. ASSUME NEW p \in Pieces
          PROVE  Rehydrate(Append(text, p), m) = Rehydrate(text, m) \o Back(m, p)
      <3> DEFINE longer == Append(text, p)
                 more == [i \in DOMAIN longer |-> Back(m, longer[i])]
                 last == Back(m, p)
      <3>1. DOMAIN longer = 1 .. n + 1 /\ longer[n + 1] = p /\ \A i \in 1 .. n : longer[i] = text[i]
        OBVIOUS
      <3> HIDE DEF longer
      <3>2. Append(cells, last) = [i \in 1 .. n + 1 |-> IF i \in 1 .. n THEN cells[i] ELSE last]
        <4>1. last \in Seq(Pieces)
          BY <2>2
        <4> DEFINE u == Append(cells, last)
        <4> HIDE DEF cells, last, n
        <4>2. /\ u \in Seq(Seq(Pieces)) /\ Len(u) = n + 1
              /\ \A i \in 1 .. n + 1 : u[i] = IF i \in 1 .. n THEN cells[i] ELSE last
          BY <2>1, <2>3, <4>1
        <4> HIDE DEF u
        <4>3. u = [i \in 1 .. n + 1 |-> IF i \in 1 .. n THEN cells[i] ELSE last]
          BY <2>1, <4>2
        <4> QED
          BY <4>3 DEF u
      <3>3. \A i \in 1 .. n + 1 : Back(m, longer[i]) = IF i \in 1 .. n THEN cells[i] ELSE last
        <4>1. \A i \in 1 .. n + 1 : i \in 1 .. n \/ i = n + 1
          BY <2>1
        <4> QED
          BY <2>1, <3>1, <4>1
      <3> HIDE DEF cells, last, n
      <3>4. more = Append(cells, last)
        BY <3>1, <3>2, <3>3
      <3>5. FlattenSeq(Append(cells, last)) = FlattenSeq(cells) \o last
        BY <2>2, <2>3, FlattenAppend DEF last
      <3>6. Rehydrate(longer, m) = FlattenSeq(more)
        BY <1>1
      <3> QED
        BY <2>4, <3>4, <3>5, <3>6 DEF longer, last
    <2> QED
      BY <2>5, <2>6
  <1> QED
    BY <1>2, <1>3

\* A text of two parts is rehydrated part by part.
LEMMA RehydrateConcat ==
    ASSUME NEW m \in Mappings, NEW s \in Seq(Pieces)
    PROVE  \A t \in Seq(Pieces) :
              Rehydrate(s \o t, m) = Rehydrate(s, m) \o Rehydrate(t, m)
  <1> DEFINE R(x) == Rehydrate(x, m)
             Good == {t \in Seq(Pieces) : R(s \o t) = R(s) \o R(t)}
  <1>1. /\ R(<<>>) = <<>>
        /\ \A x \in Seq(Pieces) : R(x) \in Seq(Pieces)
        /\ \A x \in Seq(Pieces), p \in Pieces : R(Append(x, p)) = R(x) \o Back(m, p)
    BY RehydrateFacts
  <1>2. \A p \in Pieces : Back(m, p) \in Seq(Pieces)
    BY BackFacts
  <1> HIDE DEF R
  <1>3. <<>> \in Good
    <2>1. s \o <<>> = s /\ R(s) \o <<>> = R(s) /\ <<>> \in Seq(Pieces)
      BY <1>1, ConcatEmptySeq
    <2> QED
      BY <1>1, <2>1
  <1>4. ASSUME NEW t \in Seq(Pieces), NEW p \in Pieces, t \in Good
        PROVE  Append(t, p) \in Good
    <2>1. s \o t \in Seq(Pieces) /\ Append(t, p) \in Seq(Pieces)
      OBVIOUS
    <2>2. s \o Append(t, p) = Append(s \o t, p)
      OBVIOUS
    <2>3. R(Append(s \o t, p)) = R(s \o t) \o Back(m, p)
      BY <1>1, <2>1
    <2>4. R(s \o t) = R(s) \o R(t)
      BY <1>4
    <2>5. (R(s) \o R(t)) \o Back(m, p) = R(s) \o (R(t) \o Back(m, p))
      <3> DEFINE a == R(s)
                 b == R(t)
                 c == Back(m, p)
      <3>1. a \in Seq(Pieces) /\ b \in Seq(Pieces) /\ c \in Seq(Pieces)
        BY <1>1, <1>2
      <3> HIDE DEF a, b, c
      <3>2. (a \o b) \o c = a \o (b \o c)
        BY ONLY <3>1, ConcatAssociative, SMTT(30)
      <3> QED
        BY <3>2 DEF a, b, c
    <2>6. R(Append(t, p)) = R(t) \o Back(m, p)
      BY <1>1
    <2> QED
      BY <2>1, <2>2, <2>3, <2>4, <2>5, <2>6
  <1>5. \A t \in Seq(Pieces) : t \in Good
    <2> HIDE DEF Good
    <2> QED
      BY <1>3, <1>4, AppendInduction
  <1> QED
    BY <1>5 DEF R

\* Words stay as they are.
LEMMA RehydrateWords ==
    ASSUME NEW m \in Mappings
    PROVE  \A ws \in Seq(WordPieces) : Rehydrate(ws, m) = ws
  <1> DEFINE Good == {ws \in Seq(WordPieces) : Rehydrate(ws, m) = ws}
  <1>1. WordPieces \subseteq Pieces /\ Seq(WordPieces) \subseteq Seq(Pieces)
    BY PieceKinds
  <1>2. <<>> \in Good
    BY RehydrateFacts
  <1>3. ASSUME NEW ws \in Seq(WordPieces), NEW w \in WordPieces, ws \in Good
        PROVE  Append(ws, w) \in Good
    <2>1. Rehydrate(Append(ws, w), m) = Rehydrate(ws, m) \o Back(m, w)
      BY <1>1, RehydrateFacts
    <2>2. Back(m, w) = <<w>>
      BY <1>1, BackFacts DEF Back
    <2>3. ws \o <<w>> = Append(ws, w)
      BY AppendIsConcat
    <2> QED
      BY <1>3, <2>1, <2>2, <2>3
  <1>4. \A ws \in Seq(WordPieces) : ws \in Good
    <2> HIDE DEF Good
    <2> QED
      BY <1>2, <1>3, AppendInduction
  <1> QED
    BY <1>4

\* The join of a stream of pieces.
Join(pieces) == FoldLeft(Joining, <<>>, pieces)

EndsWith(text, p) == text # <<>> /\ Last(text) = p

\* A sequence is all but its last element, and that one.
LEMMA FrontAndLast ==
    ASSUME NEW T, NEW s \in Seq(T), s # <<>>
    PROVE  Front(s) \in Seq(T) /\ Last(s) \in T /\ s = Append(Front(s), Last(s))
  <1> DEFINE n == Len(s)
             u == SubSeq(s, 1, n - 1)
             l == s[n]
             t == Append(u, l)
  <1>1. n \in Nat /\ n > 0 /\ \A i \in 1 .. n : s[i] \in T
    OBVIOUS
  <1>2. Front(s) = u /\ Last(s) = l
    BY DEF Front, Last
  <1>3. u \in Seq(T) /\ Len(u) = n - 1 /\ \A i \in 1 .. n - 1 : u[i] = s[i]
    <2> DEFINE k == n - 1
    <2>1. k \in Nat /\ k = n - 1 /\ \A i \in 1 .. k : s[i] \in T
      BY <1>1
    <2> HIDE DEF k, n
    <2>2. /\ SubSeq(s, 1, k) \in Seq(T)
          /\ Len(SubSeq(s, 1, k)) = IF 1 <= k THEN k - 1 + 1 ELSE 0
          /\ \A i \in 1 .. k - 1 + 1 : SubSeq(s, 1, k)[i] = s[1 + i - 1]
      BY <2>1, SubSeqProperties
    <2>3. /\ (IF 1 <= k THEN k - 1 + 1 ELSE 0) = k /\ k - 1 + 1 = k
          /\ \A i \in 1 .. k : 1 + i - 1 = i
      BY <2>1
    <2> HIDE DEF u
    <2>4. u = SubSeq(s, 1, k)
      BY DEF u, k
    <2> QED
      BY <2>1, <2>2, <2>3, <2>4
  <1>4. l \in T
    BY <1>1
  <1> HIDE DEF u, l
  <1>5. /\ t \in Seq(T) /\ Len(t) = n
        /\ \A i \in 1 .. n : t[i] = IF i \in 1 .. n - 1 THEN u[i] ELSE l
    BY <1>1, <1>3, <1>4
  <1>6. \A i \in 1 .. n : s[i] = IF i \in 1 .. n - 1 THEN u[i] ELSE l
    BY <1>1, <1>3 DEF l
  <1> HIDE DEF t
  <1>7. s = t
    BY <1>5, <1>6, SeqEqual
  <1> QED
    BY <1>2, <1>3, <1>4, <1>7 DEF t

\* One piece makes a text longer, or whole.
LEMMA JoiningFacts ==
    ASSUME NEW text \in Seq(Pieces), NEW p \in Pieces
    PROVE  /\ Joining(text, p) \in Seq(Pieces)
           /\ ~ (p.is = "tail" /\ EndsWith(text, HeadOf(p.of))) =>
                 Joining(text, p) = Append(text, p)
           /\ p.is = "tail" /\ EndsWith(text, HeadOf(p.of)) =>
                 /\ p.of \in Atoms /\ HeadOf(p.of) \in Pieces
                 /\ Front(text) \in Seq(Pieces)
                 /\ text = Append(Front(text), HeadOf(p.of))
                 /\ Joining(text, p) = Append(Front(text), p.of)
  <1>1. CASE ~ (p.is = "tail" /\ EndsWith(text, HeadOf(p.of)))
    <2>1. Joining(text, p) = Append(text, p)
      BY <1>1 DEF Joining, EndsWith
    <2> QED
      BY <1>1, <2>1
  <1>2. CASE p.is = "tail" /\ EndsWith(text, HeadOf(p.of))
    <2> DEFINE q == p.of
               u == Front(text)
               l == Last(text)
    <2>1. q \in Atoms
      BY <1>2, PieceKinds DEF Pieces
    <2>2. q \in Pieces /\ HeadOf(q) \in Pieces
      BY <2>1, PieceKinds DEF HeadOf, Pieces
    <2>5. u \in Seq(Pieces) /\ text = Append(u, l)
      BY <1>2, FrontAndLast DEF EndsWith
    <2>6. l = HeadOf(q)
      BY <1>2 DEF EndsWith
    <2>7. Joining(text, p) = Append(u, q)
      BY <1>2 DEF Joining, EndsWith
    <2> HIDE DEF u, l, q
    <2>8. Append(u, q) \in Seq(Pieces)
      BY <2>2, <2>5
    <2> QED
      BY <1>2, <2>1, <2>2, <2>5, <2>6, <2>7, <2>8 DEF q, u
  <1> QED
    BY <1>1, <1>2

\* Pieces are joined one after the other.
LEMMA JoinRun ==
    ASSUME NEW pieces \in Seq(Pieces)
    PROVE  \E g \in [0 .. Len(pieces) -> Seq(Pieces)] :
              /\ g[0] = <<>>
              /\ \A i \in 1 .. Len(pieces) : g[i] = Joining(g[i - 1], pieces[i])
              /\ Join(pieces) = g[Len(pieces)]
  <1> DEFINE n == Len(pieces)
             A == Seq(Pieces)
             a0 == <<>>
             f == [i \in 1 .. n |-> [text \in A |-> Joining(text, pieces[i])]]
             IsFold(h) ==
                h = [S \in SUBSET (1 .. n) |->
                       IF S = {} THEN a0 ELSE Joining(h[S \ {Max(S)}], pieces[Max(S)])]
             fold == CHOOSE h : IsFold(h)
  <1>1. /\ n \in Nat /\ DOMAIN pieces = 1 .. n
        /\ \A i \in 1 .. n : pieces[i] \in Pieces
    OBVIOUS
  <1>2. Join(pieces) = fold[1 .. n]
    BY <1>1 DEF Join, FoldLeft, MapThenFoldSet
  <1>3. a0 \in A
    OBVIOUS
  <1>4. \A text \in A, i \in 1 .. n : Joining(text, pieces[i]) \in A
    BY <1>1, JoiningFacts
  <1> HIDE DEF a0
  <1>5. f \in [1 .. n -> [A -> A]]
    <2> HIDE DEF A, n
    <2> QED
      BY <1>4
  <1>6. \A i \in 1 .. n : \A text \in A : f[i][text] = Joining(text, pieces[i])
    <2> HIDE DEF A, n
    <2> QED
      OBVIOUS
  <1>7. \E h : IsFold(h)
    <2>1. PICK h \in FoldsOver(A, a0, n, f) : TRUE
      <3> HIDE DEF n, f, A
      <3>1. FoldsOver(A, a0, n, f) # {}
        BY ONLY <1>1, <1>3, <1>5, FoldExists
      <3> QED
        BY <3>1
    <2> HIDE DEF A
    <2>2. /\ h \in [SUBSET (1 .. n) -> A]
          /\ \A S \in SUBSET (1 .. n) :
                h[S] = IF S = {} THEN a0 ELSE f[Max(S)][h[S \ {Max(S)}]]
      BY <2>1 DEF FoldsOver
    <2>3. ASSUME NEW S \in SUBSET (1 .. n), S # {}
          PROVE  f[Max(S)][h[S \ {Max(S)}]] = Joining(h[S \ {Max(S)}], pieces[Max(S)])
      <3>1. Max(S) \in 1 .. n
        <4> HIDE DEF n, f
        <4> QED
          BY <1>1, <2>3, GreatestPosition
      <3>2. h[S \ {Max(S)}] \in A
        BY <2>2
      <3> HIDE DEF n, f
      <3> QED
        BY <1>6, <3>1, <3>2
    <2> HIDE DEF f, n
    <2>4. IsFold(h)
      BY <2>2, <2>3
    <2> QED
      BY <2>4
  <1>8. IsFold(fold)
    <2> HIDE DEF IsFold
    <2> QED
      BY <1>7
  <1> HIDE DEF A, f, fold
  <1>9. FollowsOver(A, a0, n, f, fold)
    <2>1. ASSUME NEW S \in SUBSET (1 .. n), S # {}
          PROVE  Max(S) \in 1 .. n
      <3> HIDE DEF n
      <3> QED
        BY <1>1, <2>1, GreatestPosition
    <2> HIDE DEF n
    <2>2. fold[{}] = a0
      <3>1. {} \in SUBSET (1 .. n)
        OBVIOUS
      <3> QED
        BY <1>8, <3>1
    <2>3. ASSUME NEW S \in SUBSET (1 .. n), S # {}, fold[S \ {Max(S)}] \in A
          PROVE  fold[S] = f[Max(S)][fold[S \ {Max(S)}]]
      <3> DEFINE last == Max(S)
                 before == fold[S \ {Max(S)}]
      <3>1. fold[S] = Joining(before, pieces[last])
        BY <1>8, <2>3
      <3>2. last \in 1 .. n /\ before \in A
        BY <2>1, <2>3
      <3> HIDE DEF last, before
      <3>3. fold[S] = f[last][before]
        BY <1>6, <3>1, <3>2
      <3> QED
        BY <3>3 DEF last, before
    <2> QED
      BY <2>2, <2>3 DEF FollowsOver
  <1> HIDE DEF n
  <1>10. PICK g \in RunsOver(A, a0, n, f) : g[n] = fold[1 .. n]
    <2>1. [i \in 0 .. n |-> fold[1 .. i]] \in RunsOver(A, a0, n, f)
      BY <1>1, <1>3, <1>5, <1>9, FoldRuns
    <2>2. n \in 0 .. n
      BY <1>1
    <2> QED
      BY <2>1, <2>2
  <1>11. g \in [0 .. n -> A] /\ g[0] = a0 /\ \A i \in 1 .. n : g[i] = f[i][g[i - 1]]
    BY <1>10 DEF RunsOver
  <1>12. \A i \in 1 .. n : g[i] = Joining(g[i - 1], pieces[i])
    <2>1. \A i \in 1 .. n : i - 1 \in 0 .. n
      BY <1>1
    <2> QED
      BY <1>6, <1>11, <2>1
  <1> QED
    BY <1>2, <1>10, <1>11, <1>12 DEF n, A, a0

\* The last piece is joined to the join of those before it.
LEMMA JoinFacts ==
    /\ Join(<<>>) = <<>>
    /\ \A x \in Seq(Pieces) :
          /\ Join(x) \in Seq(Pieces)
          /\ \A p \in Pieces : Join(Append(x, p)) = Joining(Join(x), p)
  <1>1. Join(<<>>) = <<>>
    <2>1. <<>> \in Seq(Pieces) /\ Len(<<>>) = 0
      OBVIOUS
    <2> QED
      BY <2>1, JoinRun
  <1>2. ASSUME NEW x \in Seq(Pieces)
        PROVE  Join(x) \in Seq(Pieces)
    <2>1. Len(x) \in 0 .. Len(x)
      OBVIOUS
    <2> QED
      BY <2>1, JoinRun
  <1>3. ASSUME NEW x \in Seq(Pieces), NEW p \in Pieces
        PROVE  Join(Append(x, p)) = Joining(Join(x), p)
    <2> DEFINE n == Len(x)
               y == Append(x, p)
               m == Len(y)
    <2>1. n \in Nat /\ y \in Seq(Pieces) /\ m = n + 1 /\ y[n + 1] = p
          /\ \A i \in 1 .. n : y[i] = x[i]
      OBVIOUS
    <2>2. PICK g \in [0 .. n -> Seq(Pieces)] :
             /\ g[0] = <<>> /\ \A i \in 1 .. n : g[i] = Joining(g[i - 1], x[i])
             /\ Join(x) = g[n]
      BY JoinRun
    <2> HIDE DEF y
    <2>3. PICK h \in [0 .. m -> Seq(Pieces)] :
             /\ h[0] = <<>> /\ \A i \in 1 .. m : h[i] = Joining(h[i - 1], y[i])
             /\ Join(y) = h[m]
      BY <2>1, JoinRun
    <2> HIDE DEF n, m
    <2> DEFINE Good == {i \in 0 .. n : g[i] = h[i]}
    <2>4. 0 \in Good
      BY <2>1, <2>2, <2>3
    <2>5. ASSUME NEW i \in 1 .. n, i - 1 \in Good
          PROVE  i \in Good
      <3>1. i \in 0 .. n /\ i \in 1 .. m
        BY <2>1
      <3> QED
        BY <2>1, <2>2, <2>3, <2>5, <3>1
    <2>6. g[n] = h[n]
      <3>1. n \in 0 .. n
        BY <2>1
      <3>2. n \in Good
        <4> HIDE DEF Good
        <4> QED
          BY <2>1, <2>4, <2>5, <3>1, IntervalInduction
      <3> QED
        BY <3>2
    <2>7. h[m] = Joining(h[n], p)
      <3>1. m \in 1 .. m /\ m - 1 = n /\ y[m] = p
        BY <2>1
      <3>2. h[m] = Joining(h[m - 1], y[m])
        BY <2>3, <3>1
      <3> QED
        BY <3>1, <3>2
    <2> QED
      BY <2>2, <2>3, <2>6, <2>7 DEF y
  <1> QED
    BY <1>1, <1>2, <1>3

\* Words are joined by putting them after the rest.
LEMMA JoinWords ==
    ASSUME NEW x \in Seq(Pieces)
    PROVE  \A ws \in Seq(WordPieces) : Join(x \o ws) = Join(x) \o ws
  <1> DEFINE Good == {ws \in Seq(WordPieces) : Join(x \o ws) = Join(x) \o ws}
  <1>1. /\ WordPieces \subseteq Pieces /\ Seq(WordPieces) \subseteq Seq(Pieces)
        /\ \A w \in WordPieces : w.is # "tail"
    BY PieceKinds
  <1>2. <<>> \in Good
    <2>1. x \o <<>> = x /\ Join(x) \in Seq(Pieces)
      BY JoinFacts, ConcatEmptySeq
    <2>2. Join(x) \o <<>> = Join(x)
      BY <2>1, ConcatEmptySeq
    <2> QED
      BY <2>1, <2>2
  <1>3. ASSUME NEW ws \in Seq(WordPieces), NEW w \in WordPieces, ws \in Good
        PROVE  Append(ws, w) \in Good
    <2>1. x \o ws \in Seq(Pieces) /\ x \o Append(ws, w) = Append(x \o ws, w)
          /\ w \in Pieces /\ Append(ws, w) \in Seq(WordPieces)
      BY <1>1
    <2>2. Join(Append(x \o ws, w)) = Joining(Join(x \o ws), w)
      BY <2>1, JoinFacts
    <2>3. Joining(Join(x \o ws), w) = Append(Join(x \o ws), w)
      BY <1>1, <2>1, JoinFacts, JoiningFacts
    <2>4. Append(Join(x) \o ws, w) = Join(x) \o Append(ws, w)
      <3> DEFINE y == Join(x)
      <3>1. y \in Seq(Pieces) /\ ws \in Seq(Pieces)
        BY <1>1, JoinFacts
      <3> HIDE DEF y
      <3>2. y \o ws \in Seq(Pieces) /\ <<w>> \in Seq(Pieces)
        BY <2>1, <3>1
      <3>3. Append(y \o ws, w) = (y \o ws) \o <<w>> /\ Append(ws, w) = ws \o <<w>>
        BY <2>1, <3>1, <3>2, AppendIsConcat
      <3>4. (y \o ws) \o <<w>> = y \o (ws \o <<w>>)
        BY <3>1, <3>2, ConcatAssociative
      <3> QED
        BY <3>3, <3>4 DEF y
    <2> QED
      BY <1>3, <2>1, <2>2, <2>3, <2>4
  <1>4. \A ws \in Seq(WordPieces) : ws \in Good
    <2> HIDE DEF Good
    <2> QED
      BY <1>2, <1>3, AppendInduction
  <1> QED
    BY <1>4

\* Texts that rehydrate to the same, and end with the same half of a piece if they do.
Alike(m, y, z) ==
    /\ Rehydrate(y, m) = Rehydrate(z, m)
    /\ \A h : h.is = "head" => (EndsWith(y, h) <=> EndsWith(z, h))

\* What a text ends with after an append.
LEMMA AppendEnds ==
    ASSUME NEW T, NEW s \in Seq(T), NEW x \in T
    PROVE  \A p : EndsWith(Append(s, x), p) <=> p = x
  <1>1. Append(s, x) # <<>> /\ Len(Append(s, x)) = Len(s) + 1 /\ Append(s, x)[Len(s) + 1] = x
    OBVIOUS
  <1> QED
    BY <1>1 DEF EndsWith, Last

\* A piece that stands for nothing joins alike texts to alike texts.
LEMMA AlikeJoining ==
    ASSUME NEW m \in Mappings, NEW y \in Seq(Pieces), NEW z \in Seq(Pieces), Alike(m, y, z),
           NEW p \in Pieces, p \notin DOMAIN m
    PROVE  Alike(m, Joining(y, p), Joining(z, p))
  <1> DEFINE R(x) == Rehydrate(x, m)
             h == HeadOf(p.of)
  <1>1. /\ \A x \in Seq(Pieces) : R(x) \in Seq(Pieces)
        /\ \A x \in Seq(Pieces), q \in Pieces : R(Append(x, q)) = R(x) \o Back(m, q)
    BY RehydrateFacts
  <1>2. R(y) = R(z) /\ h.is = "head" /\ (EndsWith(y, h) <=> EndsWith(z, h))
    BY DEF Alike, HeadOf
  <1> HIDE DEF R
  <1>3. CASE ~ (p.is = "tail" /\ EndsWith(y, h))
    <2>1. Joining(y, p) = Append(y, p) /\ Joining(z, p) = Append(z, p)
      BY <1>2, <1>3, JoiningFacts
    <2>2. R(Append(y, p)) = R(Append(z, p))
      BY <1>1, <1>2
    <2>3. \A q : EndsWith(Append(y, p), q) <=> EndsWith(Append(z, p), q)
      BY AppendEnds
    <2> QED
      BY <2>1, <2>2, <2>3 DEF Alike, R
  <1>4. CASE p.is = "tail" /\ EndsWith(y, h)
    <2> DEFINE a == Front(y)
               b == Front(z)
               q == p.of
    <2>1. /\ q \in Atoms /\ h \in Pieces
          /\ a \in Seq(Pieces) /\ y = Append(a, h) /\ Joining(y, p) = Append(a, q)
      BY <1>4, JoiningFacts
    <2>2. b \in Seq(Pieces) /\ z = Append(b, h) /\ Joining(z, p) = Append(b, q)
      BY <1>2, <1>4, JoiningFacts
    <2>3. q \in Pieces /\ h \notin DOMAIN m
      BY <1>2, <2>1, BackFacts, PieceKinds
    <2> HIDE DEF a, b, q, h
    <2>4. R(y) = R(a) \o <<h>> /\ R(z) = R(b) \o <<h>>
      BY <1>1, <2>1, <2>2, <2>3 DEF Back
    <2>5. R(a) = R(b)
      <3> DEFINE s == R(a)
                 t == R(b)
      <3>1. s \in Seq(Pieces) /\ t \in Seq(Pieces)
        BY <1>1, <2>1, <2>2
      <3>5. s \o <<h>> = t \o <<h>>
        BY <1>2, <2>4
      <3>2. Append(s, h) = s \o <<h>> /\ Append(t, h) = t \o <<h>>
        <4> HIDE DEF s, t
        <4> QED
          BY <2>1, <3>1, AppendIsConcat
      <3> HIDE DEF s, t
      <3>4. Append(s, h) = Append(t, h)
        BY <3>2, <3>5
      <3>3. s = t
        BY <2>1, <3>1, <3>4, AppendInjective
      <3> QED
        BY <3>3 DEF s, t
    <2>6. R(Append(a, q)) = R(Append(b, q))
      <3>1. R(Append(a, q)) = R(a) \o Back(m, q)
        BY <1>1, <2>1, <2>3
      <3>2. R(Append(b, q)) = R(b) \o Back(m, q)
        BY <1>1, <2>2, <2>3
      <3> QED
        BY <2>5, <3>1, <3>2
    <2>7. \A x : EndsWith(Append(a, q), x) <=> EndsWith(Append(b, q), x)
      BY <2>1, <2>2, <2>3, AppendEnds
    <2> QED
      BY <2>1, <2>2, <2>6, <2>7 DEF Alike, R
  <1> QED
    BY <1>3, <1>4

\* A placeholder and what it stands for go after alike texts alike.
LEMMA AlikeValue ==
    ASSUME NEW m \in Mappings, NEW y \in Seq(Pieces), NEW z \in Seq(Pieces), Alike(m, y, z),
           NEW p \in Pieces, p \in DOMAIN m
    PROVE  Alike(m, Joining(y, p), z \o m[p])
  <1> DEFINE R(x) == Rehydrate(x, m)
             ws == m[p]
  <1>1. p \in Placeholders /\ ws \in Seq(WordPieces) /\ ws # <<>>
    BY BackFacts DEF Values
  <1>2. ws \in Seq(Pieces) /\ p.is # "tail" /\ p.is # "head"
        /\ \A w \in WordPieces : w.is # "head"
    <2>1. WordPieces \subseteq Pieces
      BY PieceKinds
    <2> QED
      BY <1>1, <2>1, PieceKinds
  <1> HIDE DEF ws
  <1>3. Joining(y, p) = Append(y, p)
    BY <1>2, JoiningFacts
  <1>4. R(Append(y, p)) = R(y) \o ws
    BY RehydrateFacts DEF Back, ws
  <1>5. R(z \o ws) = R(z) \o ws
    <2>1. R(z \o ws) = R(z) \o R(ws)
      BY <1>2, RehydrateConcat
    <2>2. R(ws) = ws
      BY <1>1, RehydrateWords
    <2> QED
      BY <2>1, <2>2
  <1>6. R(y) = R(z)
    BY DEF Alike
  <1>7. ASSUME NEW h, h.is = "head"
        PROVE  ~ EndsWith(Append(y, p), h) /\ ~ EndsWith(z \o ws, h)
    <2>1. ~ EndsWith(Append(y, p), h)
      BY <1>2, <1>7, AppendEnds
    <2>2. Last(z \o ws) \in WordPieces
      <3> DEFINE k == Len(ws)
                 l == Len(z)
      <3>1. k \in Nat /\ k > 0 /\ ws[k] \in WordPieces /\ l \in Nat
        BY <1>1
      <3>2. Len(z \o ws) = l + k /\ (z \o ws)[l + k] = ws[k]
        BY <1>2, <3>1
      <3> HIDE DEF k, l
      <3> QED
        BY <3>1, <3>2 DEF Last
    <2> QED
      BY <1>2, <1>7, <2>1, <2>2 DEF EndsWith
  <1> QED
    BY <1>3, <1>4, <1>5, <1>6, <1>7 DEF Alike, ws

\* A stream is joined alike before and after it is rehydrated.
LEMMA AlikeJoins ==
    ASSUME NEW m \in Mappings
    PROVE  \A x \in Seq(Pieces) : Alike(m, Join(x), Join(Rehydrate(x, m)))
  <1> DEFINE R(x) == Rehydrate(x, m)
             Good == {x \in Seq(Pieces) : Alike(m, Join(x), Join(R(x)))}
  <1>1. /\ R(<<>>) = <<>>
        /\ \A x \in Seq(Pieces) : R(x) \in Seq(Pieces)
        /\ \A x \in Seq(Pieces), q \in Pieces : R(Append(x, q)) = R(x) \o Back(m, q)
    BY RehydrateFacts
  <1> HIDE DEF R
  <1>2. <<>> \in Good
    BY <1>1, JoinFacts DEF Alike
  <1>3. ASSUME NEW x \in Seq(Pieces), NEW p \in Pieces, x \in Good
        PROVE  Append(x, p) \in Good
    <2> DEFINE y == Join(x)
               z == Join(R(x))
    <2>1. y \in Seq(Pieces) /\ z \in Seq(Pieces) /\ Alike(m, y, z)
      BY <1>1, <1>3, JoinFacts
    <2>2. Join(Append(x, p)) = Joining(y, p)
      BY JoinFacts
    <2> SUFFICES Alike(m, Join(Append(x, p)), Join(R(Append(x, p))))
      <3>1. Append(x, p) \in Seq(Pieces)
        OBVIOUS
      <3> QED
        BY <3>1
    <2> HIDE DEF Good
    <2>3. CASE p \notin DOMAIN m
      <3>1. R(Append(x, p)) = R(x) \o <<p>>
        BY <1>1, <2>3 DEF Back
      <3>2. R(x) \o <<p>> = Append(R(x), p)
        BY <1>1, AppendIsConcat
      <3>3. Join(Append(R(x), p)) = Joining(z, p)
        BY <1>1, JoinFacts
      <3> HIDE DEF y, z
      <3>4. Alike(m, Joining(y, p), Joining(z, p))
        BY <2>1, <2>3, AlikeJoining
      <3> QED
        BY <2>2, <3>1, <3>2, <3>3, <3>4
    <2>4. CASE p \in DOMAIN m
      <3>1. R(Append(x, p)) = R(x) \o m[p]
        BY <1>1, <2>4 DEF Back
      <3>2. m[p] \in Seq(WordPieces)
        BY <2>4, BackFacts DEF Values
      <3>3. Join(R(x) \o m[p]) = z \o m[p]
        BY <1>1, <3>2, JoinWords
      <3> HIDE DEF y, z
      <3>4. Alike(m, Joining(y, p), z \o m[p])
        BY <2>1, <2>4, AlikeValue
      <3> QED
        BY <2>2, <3>1, <3>3, <3>4
    <2> QED
      BY <2>3, <2>4
  <1>4. \A x \in Seq(Pieces) : x \in Good
    <2> HIDE DEF Good
    <2> QED
      BY <1>2, <1>3, AppendInduction
  <1> QED
    BY <1>4 DEF R

\* Tokens that are rehydrated one by one are the stream of tokens rehydrated.
LEMMA FlattenRehydrated ==
    ASSUME NEW m \in Mappings, NEW tokens \in Seq(Seq(Pieces))
    PROVE  LET hydrated == [i \in DOMAIN tokens |-> Rehydrate(tokens[i], m)]
           IN  /\ hydrated \in Seq(Seq(Pieces))
               /\ FlattenSeq(hydrated) = Rehydrate(FlattenSeq(tokens), m)
  <1> DEFINE n == Len(tokens)
             R(x) == Rehydrate(x, m)
             hydrated == [i \in DOMAIN tokens |-> R(tokens[i])]
  <1>1. n \in Nat /\ DOMAIN tokens = 1 .. n /\ \A i \in 1 .. n : tokens[i] \in Seq(Pieces)
    OBVIOUS
  <1>2. R(<<>>) = <<>> /\ \A x \in Seq(Pieces) : R(x) \in Seq(Pieces)
    BY RehydrateFacts
  <1>3. \A x, y \in Seq(Pieces) : R(x \o y) = R(x) \o R(y)
    BY RehydrateConcat
  <1> HIDE DEF R
  <1>4. /\ hydrated \in Seq(Seq(Pieces)) /\ Len(hydrated) = n
        /\ \A i \in 1 .. n : hydrated[i] = R(tokens[i])
    <2> HIDE DEF n
    <2> QED
      BY <1>1, <1>2
  <1>5. PICK g \in [0 .. n -> Seq(Pieces)] :
            /\ g[0] = <<>> /\ \A i \in 1 .. n : g[i] = g[i - 1] \o tokens[i]
            /\ FlattenSeq(tokens) = g[n]
    BY FlattenRun
  <1> DEFINE m2 == Len(hydrated)
  <1> HIDE DEF hydrated
  <1>6. PICK h \in [0 .. m2 -> Seq(Pieces)] :
            /\ h[0] = <<>> /\ \A i \in 1 .. m2 : h[i] = h[i - 1] \o hydrated[i]
            /\ FlattenSeq(hydrated) = h[m2]
    BY <1>4, FlattenRun
  <1>7. m2 = n
    BY <1>4
  <1> HIDE DEF n, m2
  <1> DEFINE Good == {i \in 0 .. n : h[i] = R(g[i])}
  <1>8. 0 \in Good
    BY <1>1, <1>2, <1>5, <1>6
  <1>9. ASSUME NEW i \in 1 .. n, i - 1 \in Good
        PROVE  i \in Good
    <2>1. i \in 0 .. n /\ i - 1 \in 0 .. n
      BY <1>1
    <2>2. h[i] = R(g[i - 1]) \o R(tokens[i])
      BY <1>4, <1>6, <1>7, <1>9
    <2>3. R(g[i - 1] \o tokens[i]) = R(g[i - 1]) \o R(tokens[i])
      BY <1>1, <1>3, <1>5, <2>1
    <2> QED
      BY <1>5, <2>1, <2>2, <2>3
  <1>10. h[n] = R(g[n])
    <2>1. n \in 0 .. n
      BY <1>1
    <2>2. n \in Good
      <3> HIDE DEF Good
      <3> QED
        BY <1>1, <1>8, <1>9, <2>1, IntervalInduction
    <2> QED
      BY <2>2
  <1> QED
    BY <1>4, <1>5, <1>6, <1>7, <1>10 DEF hydrated, R

\* To rehydrate what was sent, joined, is to rehydrate what was received, joined.
LEMMA RehydratedJoins ==
    ASSUME NEW m \in Mappings, NEW tokens \in Seq(Seq(Pieces))
    PROVE  Rehydrate(Joined([i \in DOMAIN tokens |-> Rehydrate(tokens[i], m)]), m)
              = Rehydrate(Joined(tokens), m)
  <1> DEFINE hydrated == [i \in DOMAIN tokens |-> Rehydrate(tokens[i], m)]
             x == FlattenSeq(tokens)
  <1>1. FlattenSeq(hydrated) = Rehydrate(x, m)
    BY FlattenRehydrated
  <1>2. x \in Seq(Pieces)
    BY FlattenElements
  <1> HIDE DEF hydrated, x
  <1>3. Alike(m, Join(x), Join(Rehydrate(x, m)))
    BY <1>2, AlikeJoins
  <1>4. Joined(tokens) = Join(x) /\ Joined(hydrated) = Join(FlattenSeq(hydrated))
    BY DEF Joined, Join, x
  <1> QED
    BY <1>1, <1>3, <1>4 DEF Alike, hydrated
-------------------------------------------------------------------------------
(* What rehydration gives back. *)

\* A mapping has all of another, and says the same.
GivesBack(m, own) == \A p \in DOMAIN own : p \in DOMAIN m /\ m[p] = own[p]

\* A text of which nothing stands for anything stays as it is.
LEMMA RehydrateUntouched ==
    ASSUME NEW m \in Mappings
    PROVE  \A text \in Seq(Pieces \ DOMAIN m) : Rehydrate(text, m) = text
  <1> DEFINE Left == Pieces \ DOMAIN m
             Good == {text \in Seq(Left) : Rehydrate(text, m) = text}
  <1>1. Left \subseteq Pieces /\ Seq(Left) \subseteq Seq(Pieces)
    OBVIOUS
  <1>2. \A p \in Left : p \in Pieces /\ Back(m, p) = <<p>>
    BY DEF Back
  <1> HIDE DEF Left
  <1>3. <<>> \in Good
    BY RehydrateFacts
  <1>4. ASSUME NEW text \in Seq(Left), NEW p \in Left, text \in Good
        PROVE  Append(text, p) \in Good
    <2>1. Rehydrate(Append(text, p), m) = Rehydrate(text, m) \o Back(m, p)
      BY <1>1, RehydrateFacts
    <2>2. text \o <<p>> = Append(text, p)
      BY AppendIsConcat
    <2> QED
      BY <1>2, <1>4, <2>1, <2>2
  <1>5. \A text \in Seq(Left) : text \in Good
    <2> HIDE DEF Good
    <2> QED
      BY <1>3, <1>4, AppendInduction
  <1> QED
    BY <1>5 DEF Left

\* Pieces that are not half of one that a mapping has, and those that are not of it at all.
NotSplit(m) == {p \in Pieces : p.is \in {"head", "tail"} => p.of \notin DOMAIN m}
LeftBy(m) == NotSplit(m) \ DOMAIN m

\* Rehydration leaves nothing of the mapping in a text that has no half of it.
LEMMA RehydratedIsLeft ==
    ASSUME NEW m \in Mappings, NEW x \in Seq(NotSplit(m))
    PROVE  Rehydrate(x, m) \in Seq(LeftBy(m))
  <1> DEFINE n == Len(x)
             seqs == [i \in DOMAIN x |-> Back(m, x[i])]
  <1>1. n \in Nat /\ DOMAIN x = 1 .. n /\ \A i \in 1 .. n : x[i] \in NotSplit(m)
    OBVIOUS
  <1>2. Rehydrate(x, m) = FlattenSeq(seqs)
    BY DEF Rehydrate, Back
  <1>3. WordPieces \subseteq LeftBy(m)
    <2>1. DOMAIN m \subseteq Placeholders
      BY MappingFacts
    <2> QED
      BY <2>1, PieceKinds DEF LeftBy, NotSplit
  <1>4. ASSUME NEW p \in NotSplit(m)
        PROVE  Back(m, p) \in Seq(LeftBy(m))
    <2>1. CASE p \in DOMAIN m
      <3>1. m[p] \in Seq(WordPieces)
        BY <2>1, MappingFacts DEF Values
      <3> QED
        BY <1>3, <2>1, <3>1 DEF Back
    <2>2. CASE p \notin DOMAIN m
      <3>1. p \in LeftBy(m)
        BY <2>2 DEF LeftBy
      <3> QED
        BY <2>2, <3>1, OneElement DEF Back
    <2> QED
      BY <2>1, <2>2
  <1> HIDE DEF n
  <1>5. seqs \in Seq(Seq(LeftBy(m)))
    BY <1>1, <1>4
  <1> HIDE DEF seqs
  <1> QED
    BY <1>2, <1>5, FlattenElements

\* Nor does the join of such a text, which is then what it rehydrates to.
LEMMA JoinIsLeft ==
    ASSUME NEW m \in Mappings, NEW x \in Seq(LeftBy(m))
    PROVE  Rehydrate(Join(x), m) = Join(x)
  <1> DEFINE L == LeftBy(m)
             Good == {y \in Seq(L) : Join(y) \in Seq(L)}
  <1>1. L \subseteq Pieces \ DOMAIN m /\ Seq(L) \subseteq Seq(Pieces)
        /\ Seq(L) \subseteq Seq(Pieces \ DOMAIN m)
    BY DEF LeftBy, NotSplit
  <1>2. ASSUME NEW p \in L, p.is = "tail", p.of \in Atoms
        PROVE  p.of \in L
    <2> DEFINE q == p.of
    <2>1. q \notin DOMAIN m
      BY <1>2 DEF LeftBy, NotSplit
    <2>2. q \in Pieces /\ q.is # "head" /\ q.is # "tail"
      BY <1>2, PieceKinds
    <2> HIDE DEF q
    <2>3. q \in NotSplit(m)
      BY <2>2 DEF NotSplit
    <2>4. q \in LeftBy(m)
      BY <2>1, <2>3 DEF LeftBy
    <2> QED
      BY <2>4 DEF q
  <1> HIDE DEF L
  <1>3. <<>> \in Good
    <2>1. <<>> \in Seq(L) /\ Join(<<>>) = <<>>
      BY JoinFacts, NoElement
    <2> QED
      BY ONLY <2>1
  <1>4. ASSUME NEW y \in Seq(L), NEW p \in L, y \in Good
        PROVE  Append(y, p) \in Good
    <2> DEFINE text == Join(y)
    <2>1. /\ text \in Seq(L) /\ text \in Seq(Pieces) /\ p \in Pieces
          /\ Append(y, p) \in Seq(L)
      BY <1>1, <1>4
    <2>2. Join(Append(y, p)) = Joining(text, p)
      BY <1>1, JoinFacts
    <2> HIDE DEF text
    <2>3. CASE ~ (p.is = "tail" /\ EndsWith(text, HeadOf(p.of)))
      <3>1. Joining(text, p) = Append(text, p)
        BY <2>1, <2>3, JoiningFacts
      <3>2. Append(text, p) \in Seq(L)
        BY <2>1
      <3>3. Join(Append(y, p)) \in Seq(L)
        BY ONLY <2>2, <3>1, <3>2
      <3> QED
        BY ONLY <2>1, <3>3
    <2>4. CASE p.is = "tail" /\ EndsWith(text, HeadOf(p.of))
      <3>1. p.of \in Atoms /\ Joining(text, p) = Append(Front(text), p.of) /\ text # <<>>
        <4>1. text # <<>>
          BY <2>4 DEF EndsWith
        <4>2. p.of \in Atoms /\ Joining(text, p) = Append(Front(text), p.of)
          BY <2>1, <2>4, JoiningFacts
        <4> QED
          BY <4>1, <4>2
      <3>2. p.of \in L
        BY <1>2, <2>4, <3>1
      <3>3. Front(text) \in Seq(L)
        BY <2>1, <3>1, FrontAndLast
      <3>4. Append(Front(text), p.of) \in Seq(L)
        BY <3>2, <3>3
      <3>5. Join(Append(y, p)) \in Seq(L)
        BY ONLY <2>2, <3>1, <3>4
      <3> QED
        BY ONLY <2>1, <3>5
    <2> QED
      BY <2>3, <2>4
  <1>5. \A y \in Seq(L) : y \in Good
    <2> HIDE DEF Good
    <2> QED
      BY <1>3, <1>4, AppendInduction
  <1>6. Join(x) \in Seq(Pieces \ DOMAIN m)
    BY <1>1, <1>5 DEF L
  <1> QED
    BY <1>6, RehydrateUntouched

\* No two spans begin together.
Apart(K) == \A s, t \in K : s = t \/ Disjoint(s, t)

\* Every name is the name of one span.
OneToOne(K, names) == \A s, t \in K : names[s] = names[t] => s = t

\* Spans that are apart have names of their own, from the start as from the end.
LEMMA NamesAreOneToOne ==
    ASSUME NEW n \in Nat, NEW K \in SUBSET Spans(n), IsFiniteSet(K), Apart(K)
    PROVE  OneToOne(K, FromStart(K)) /\ OneToOne(K, FromEnd(K))
  <1>1. \A s \in K : s.from \in Nat /\ s.to \in Nat /\ s.from <= s.to
    BY DEF Spans
  <1>2. \A s, t \in K : s = t \/ s.from < t.from \/ t.from < s.from
    BY <1>1 DEF Apart, Disjoint
  <1> DEFINE UpTo(s) == {t \in K : t.tag = s.tag /\ t.from <= s.from}
             After(s) == {t \in K : t.tag = s.tag /\ t.from >= s.from}
  <1>3. \A s \in K : /\ FromStart(K)[s] = Placeholder(s.tag, Cardinality(UpTo(s)))
                     /\ FromEnd(K)[s] = Placeholder(s.tag, Cardinality(After(s)))
    BY DEF FromStart, FromEnd
  <1>4. \A tag1, tag2, n1, n2 :
           Placeholder(tag1, n1) = Placeholder(tag2, n2) => tag1 = tag2 /\ n1 = n2
    BY DEF Placeholder
  <1>5. ASSUME NEW S \in SUBSET K, NEW T \in SUBSET K, S \subseteq T, NEW t \in T, t \notin S
        PROVE  Cardinality(S) # Cardinality(T)
    <2>1. IsFiniteSet(T)
      BY FS_Subset
    <2> QED
      BY <1>5, <2>1, FS_Subset
  <1>6. ASSUME NEW s \in K, NEW t \in K, s.tag = t.tag, s.from < t.from
        PROVE  /\ Cardinality(UpTo(s)) # Cardinality(UpTo(t))
               /\ Cardinality(After(s)) # Cardinality(After(t))
    <2>1. UpTo(s) \subseteq UpTo(t) /\ t \in UpTo(t) /\ t \notin UpTo(s)
      BY <1>1, <1>6
    <2>2. After(t) \subseteq After(s) /\ s \in After(s) /\ s \notin After(t)
      BY <1>1, <1>6
    <2>3. \A u \in K : UpTo(u) \in SUBSET K /\ After(u) \in SUBSET K
      OBVIOUS
    <2> HIDE DEF UpTo, After
    <2> QED
      BY <1>5, <2>1, <2>2, <2>3
  <1> HIDE DEF UpTo, After
  <1> QED
    BY <1>2, <1>3, <1>4, <1>6 DEF OneToOne

\* What the name of a span stands for is its part of the text.
LEMMA NameStandsForSpan ==
    ASSUME NEW text \in Seq(Pieces), NEW K \in SUBSET Spans(Len(text)),
           NEW names \in [K -> Placeholders], OneToOne(K, names), NEW s \in K
    PROVE  /\ names[s] \in DOMAIN ReverseMapping(text, names)
           /\ ReverseMapping(text, names)[names[s]] = SubSeq(text, s.from, s.to)
  <1> DEFINE D == Range(names)
             spanOf(p) == CHOOSE x \in K : names[x] = p
  <1>1. DOMAIN names = K /\ names[s] \in D
    BY DEF Range
  <1>2. ReverseMapping(text, names) =
           [p \in D |-> SubSeq(text, spanOf(p).from, spanOf(p).to)]
    BY <1>1 DEF ReverseMapping
  <1>3. spanOf(names[s]) = s
    BY DEF OneToOne
  <1> HIDE DEF D, spanOf
  <1> QED
    BY <1>1, <1>2, <1>3

\* The text up to a position.
TextTo(text, i) == SubSeq(text, 1, i)

\* It grows piece by piece, and span by span.
LEMMA TextToFacts ==
    ASSUME NEW text \in Seq(Pieces)
    PROVE  /\ TextTo(text, 0) = <<>>
           /\ TextTo(text, Len(text)) = text
           /\ \A i \in 0 .. Len(text) : TextTo(text, i) \in Seq(Pieces)
           /\ \A i, j \in 1 .. Len(text) : i <= j =>
                 /\ SubSeq(text, i, j) \in Seq(Pieces)
                 /\ TextTo(text, j) = TextTo(text, i - 1) \o SubSeq(text, i, j)
           /\ \A i \in 1 .. Len(text) : SubSeq(text, i, i) = <<text[i]>>
  <1> DEFINE n == Len(text)
  <1>1. n \in Nat /\ \A i \in 1 .. n : text[i] \in Pieces
    OBVIOUS
  <1>2. \A i \in 0 .. n : /\ TextTo(text, i) \in Seq(Pieces)
                          /\ Len(TextTo(text, i)) = i
                          /\ \A k \in 1 .. i : TextTo(text, i)[k] = text[k]
    BY DEF TextTo
  <1>3. TextTo(text, 0) = <<>>
    BY <1>1, <1>2
  <1>4. TextTo(text, n) = text
    <2> DEFINE all == TextTo(text, n)
    <2>1. all \in Seq(Pieces) /\ Len(all) = n /\ \A k \in 1 .. n : all[k] = text[k]
      BY <1>1, <1>2
    <2> HIDE DEF all
    <2> QED
      BY <2>1, SeqEqual DEF all
  <1>5. ASSUME NEW i \in 1 .. n, NEW j \in 1 .. n, i <= j
        PROVE  /\ SubSeq(text, i, j) \in Seq(Pieces)
               /\ TextTo(text, j) = TextTo(text, i - 1) \o SubSeq(text, i, j)
    <2> DEFINE a == TextTo(text, i - 1)
               b == SubSeq(text, i, j)
               c == TextTo(text, j)
               ab == a \o b
    <2>1. b \in Seq(Pieces) /\ Len(b) = j - i + 1
          /\ \A k \in 1 .. j - i + 1 : b[k] = text[i + k - 1]
      <3>1. i \in Int /\ j \in Int /\ i <= j /\ \A k \in i .. j : text[k] \in Pieces
        BY <1>1, <1>5
      <3>2. /\ SubSeq(text, i, j) \in Seq(Pieces)
            /\ Len(SubSeq(text, i, j)) = IF i <= j THEN j - i + 1 ELSE 0
            /\ \A k \in 1 .. j - i + 1 : SubSeq(text, i, j)[k] = text[i + k - 1]
        BY ONLY <3>1, SubSeqProperties
      <3> QED
        BY <3>1, <3>2
    <2>2. a \in Seq(Pieces) /\ Len(a) = i - 1 /\ \A k \in 1 .. i - 1 : a[k] = text[k]
      BY <1>1, <1>2, SMTT(30)
    <2>3. c \in Seq(Pieces) /\ Len(c) = j /\ \A k \in 1 .. j : c[k] = text[k]
      BY <1>1, <1>2
    <2> HIDE DEF a, b, c, n
    <2>4. ab \in Seq(Pieces) /\ Len(ab) = j
      <3>1. ab \in Seq(Pieces) /\ Len(ab) = Len(a) + Len(b)
        BY ONLY <2>1, <2>2, ConcatProperties
      <3> HIDE DEF ab
      <3> QED
        BY <1>1, <1>5, <2>1, <2>2, <3>1
    <2>5. ASSUME NEW k \in 1 .. j
          PROVE  ab[k] = text[k]
      <3>1. CASE k <= i - 1
        <4>1. ab[k] = a[k]
          BY <1>1, <1>5, <2>1, <2>2, <3>1
        <4> QED
          BY <1>1, <1>5, <2>2, <3>1, <4>1
      <3>2. CASE k > i - 1
        <4>1. ab[k] = b[k - (i - 1)]
          BY <1>1, <1>5, <2>1, <2>2, <3>2
        <4>2. k - (i - 1) \in 1 .. j - i + 1 /\ i + (k - (i - 1)) - 1 = k
          BY <1>1, <1>5, <3>2
        <4> QED
          BY <2>1, <4>1, <4>2
      <3>3. k <= i - 1 \/ k > i - 1
        BY <1>1
      <3> HIDE DEF ab
      <3> QED
        BY <3>1, <3>2, <3>3
    <2> HIDE DEF ab
    <2>6. c = ab
      BY <2>3, <2>4, <2>5, SeqEqual
    <2> QED
      BY <2>1, <2>6 DEF a, b, c, ab
  <1>6. ASSUME NEW i \in 1 .. n
        PROVE  SubSeq(text, i, i) = <<text[i]>>
    <2> DEFINE b == SubSeq(text, i, i)
               c == <<text[i]>>
    <2>1. b \in Seq(Pieces) /\ Len(b) = 1 /\ \A k \in 1 .. 1 : b[k] = text[i]
      BY <1>1
    <2>2. c \in Seq(Pieces) /\ Len(c) = 1 /\ \A k \in 1 .. 1 : c[k] = text[i]
      BY <1>1
    <2> HIDE DEF b, c
    <2> QED
      BY <2>1, <2>2, SeqEqual DEF b, c
  <1> QED
    BY <1>2, <1>3, <1>4, <1>5, <1>6

\* The first piece of a span becomes its placeholder, the others nothing.
LEMMA CellOfSpan ==
    ASSUME NEW text \in Seq(Pieces), NEW K \in SUBSET Spans(Len(text)), Apart(K),
           NEW names \in [K -> Placeholders], NEW i \in DOMAIN text,
           NEW s \in K, s.from <= i, i <= s.to
    PROVE  Cell(text, names, i) = IF s.from = i THEN <<names[s]>> ELSE <<>>
  <1>1. i \in Nat /\ DOMAIN names = K /\ \A t \in K : t.from \in Nat /\ t.to \in Nat
    BY DEF Spans
  <1>2. {t \in DOMAIN names : t.from <= i /\ i <= t.to} = {s}
    BY <1>1 DEF Apart, Disjoint
  <1>3. CASE s.from = i
    <2>1. (CHOOSE t \in {s} : t.from = i) = s
      BY <1>3
    <2> QED
      BY <1>2, <1>3, <2>1 DEF Cell
  <1>4. CASE s.from # i
    BY <1>2, <1>4 DEF Cell
  <1> QED
    BY <1>3, <1>4

\* A text whose spans are replaced comes back where the mapping knows their names: what
\* has been replaced up to a position comes back as the text up to there, or up to the end
\* of the span that covers it.
LEMMA ReplacedComesBack ==
    ASSUME NEW text \in Seq(Pieces), NEW K \in SUBSET Spans(Len(text)), Apart(K),
           \A s \in K : \A k \in s.from .. s.to : text[k] \in WordPieces,
           NEW names \in [K -> Placeholders], OneToOne(K, names),
           NEW m \in Mappings, GivesBack(m, ReverseMapping(text, names))
    PROVE  Rehydrate(Replaced(text, names), m) = Rehydrate(text, m)
  <1> DEFINE n == Len(text)
             R(x) == Rehydrate(x, m)
             To(i) == TextTo(text, i)
             Part(s) == SubSeq(text, s.from, s.to)
             seqs == [i \in DOMAIN text |-> Cell(text, names, i)]
  <1>1. n \in Nat /\ DOMAIN text = 1 .. n /\ \A i \in 1 .. n : text[i] \in Pieces
    OBVIOUS
  <1>2. \A s \in K : s.from \in 1 .. n /\ s.to \in 1 .. n /\ s.from <= s.to
    BY DEF Spans
  <1>3. Replaced(text, names) = FlattenSeq(seqs)
    BY DEF Replaced, Cell
  <1>4. seqs \in Seq(Seq(Pieces)) /\ Len(seqs) = n
        /\ \A i \in 1 .. n : seqs[i] = Cell(text, names, i)
    <2>1. \A i \in 1 .. n : Cell(text, names, i) \in Seq(Pieces)
      BY <1>1, CellFacts
    <2> HIDE DEF n
    <2> QED
      BY <1>1, <2>1
  <1> HIDE DEF seqs
  <1>5. PICK g \in [0 .. n -> Seq(Pieces)] :
           /\ g[0] = <<>> /\ \A i \in 1 .. n : g[i] = g[i - 1] \o seqs[i]
           /\ FlattenSeq(seqs) = g[n]
    <2> HIDE DEF n
    <2>1. PICK g \in [0 .. Len(seqs) -> Seq(Pieces)] :
             /\ g[0] = <<>> /\ \A i \in 1 .. Len(seqs) : g[i] = g[i - 1] \o seqs[i]
             /\ FlattenSeq(seqs) = g[Len(seqs)]
      BY <1>4, FlattenRun
    <2> QED
      BY <1>4, <2>1
  <1>6. \A x, y \in Seq(Pieces) : R(x \o y) = R(x) \o R(y)
    BY RehydrateConcat
  <1>7. R(<<>>) = <<>> /\ \A x \in Seq(Pieces) : R(x) \in Seq(Pieces)
    BY RehydrateFacts
  <1>8. \A s \in K : R(<<names[s]>>) = R(Part(s))
    <2> SUFFICES ASSUME NEW s \in K PROVE R(<<names[s]>>) = R(Part(s))
      OBVIOUS
    <2>1. names[s] \in DOMAIN m /\ m[names[s]] = Part(s)
      BY NameStandsForSpan DEF GivesBack
    <2>2. names[s] \in Pieces /\ Part(s) \in Seq(WordPieces)
      <3> DEFINE name == names[s]
                 part == Part(s)
      <3>1. name \in Placeholders /\ part \in Values
        BY <2>1, MappingFacts
      <3> HIDE DEF name, part
      <3>2. name \in Pieces /\ part \in Seq(WordPieces)
        BY <3>1, PieceKinds DEF Values
      <3> QED
        BY <3>2 DEF name, part
    <2>3. R(<<names[s]>>) = R(<<>>) \o Back(m, names[s])
      <3>1. Append(<<>>, names[s]) = <<names[s]>> /\ <<>> \in Seq(Pieces)
        BY <2>2
      <3>2. R(Append(<<>>, names[s])) = R(<<>>) \o Back(m, names[s])
        BY <2>2, <3>1, RehydrateFacts
      <3> QED
        BY <3>1, <3>2
    <2> HIDE DEF R, Part
    <2>4. R(<<names[s]>>) = <<>> \o Part(s)
      BY <1>7, <2>1, <2>3 DEF Back
    <2>5. <<>> \o Part(s) = Part(s)
      BY ONLY <2>2, ConcatEmptySeq
    <2>6. R(Part(s)) = Part(s)
      BY <2>2, RehydrateWords DEF R
    <2> QED
      BY <2>4, <2>5, <2>6
  <1>9. /\ To(0) = <<>> /\ To(n) = text
        /\ \A i \in 0 .. n : To(i) \in Seq(Pieces)
        /\ \A i \in 1 .. n : To(i) = To(i - 1) \o <<text[i]>>
        /\ \A s \in K : To(s.to) = To(s.from - 1) \o Part(s) /\ Part(s) \in Seq(Pieces)
    <2>1. \A i, j \in 1 .. n : i <= j =>
             /\ SubSeq(text, i, j) \in Seq(Pieces)
             /\ To(j) = To(i - 1) \o SubSeq(text, i, j)
      BY TextToFacts
    <2>2. \A i \in 1 .. n : SubSeq(text, i, i) = <<text[i]>>
      BY TextToFacts
    <2>3. \A i \in 1 .. n : To(i) = To(i - 1) \o <<text[i]>>
      <3> HIDE DEF To
      <3> QED
        BY <1>1, <2>1, <2>2
    <2>4. \A s \in K : To(s.to) = To(s.from - 1) \o Part(s) /\ Part(s) \in Seq(Pieces)
      <3> HIDE DEF To, n
      <3> QED
        BY <1>2, <2>1
    <2> QED
      BY <2>3, <2>4, TextToFacts
  <1> HIDE DEF n, R, To, Part
  <1> DEFINE Within(s, i) == s.from <= i /\ i <= s.to
             Good == {i \in 0 .. n :
                        /\ ~ Covered(K, i) => R(g[i]) = R(To(i))
                        /\ \A s \in K : Within(s, i) => R(g[i]) = R(To(s.to))}
  <1>10. 0 \in Good
    <2>1. \A s \in K : ~ Within(s, 0)
      BY <1>1, <1>2
    <2> QED
      BY <1>1, <1>5, <1>9, <2>1
  <1>11. ASSUME NEW i \in 1 .. n, i - 1 \in Good
         PROVE  i \in Good
    <2>1. i \in 0 .. n /\ i - 1 \in 0 .. n /\ i \in DOMAIN text /\ i \in Nat
      BY <1>1
    <2>2. g[i] = g[i - 1] \o Cell(text, names, i)
      BY <1>4, <1>5
    <2>3. g[i - 1] \in Seq(Pieces) /\ To(i - 1) \in Seq(Pieces)
      BY <1>5, <1>9, <2>1
    <2>4. (\A s \in K : ~ (Within(s, i - 1) /\ Within(s, i))) => R(g[i - 1]) = R(To(i - 1))
      <3> SUFFICES ASSUME \A s \in K : ~ (Within(s, i - 1) /\ Within(s, i))
                   PROVE  R(g[i - 1]) = R(To(i - 1))
        OBVIOUS
      <3>1. CASE ~ Covered(K, i - 1)
        BY <1>11, <3>1
      <3>2. CASE Covered(K, i - 1)
        <4>1. PICK s \in K : Within(s, i - 1)
          BY <3>2 DEF Covered
        <4>2. s.to = i - 1
          <5> DEFINE a == s.from
                     b == s.to
          <5>1. a \in 1 .. n /\ b \in 1 .. n
            BY <1>2
          <5>2. a <= i - 1 /\ i - 1 <= b /\ ~ (a <= i /\ i <= b)
            BY <4>1
          <5> HIDE DEF a, b
          <5>3. b = i - 1
            BY <1>1, <5>1, <5>2
          <5> QED
            BY <5>3 DEF b
        <4> QED
          BY <1>11, <4>1, <4>2
      <3> QED
        BY <3>1, <3>2
    <2>5. ASSUME ~ Covered(K, i)
          PROVE  R(g[i]) = R(To(i))
      <3>1. Cell(text, names, i) = <<text[i]>>
        BY <2>1, <2>5, CellFacts
      <3>2. R(g[i - 1]) = R(To(i - 1))
        BY <2>4, <2>5 DEF Covered
      <3>3. <<text[i]>> \in Seq(Pieces)
        BY <1>1
      <3>4. R(g[i]) = R(g[i - 1]) \o R(<<text[i]>>)
        <4>1. R(g[i - 1] \o <<text[i]>>) = R(g[i - 1]) \o R(<<text[i]>>)
          BY <1>6, <2>3, <3>3
        <4> QED
          BY <2>2, <3>1, <4>1
      <3>5. R(To(i)) = R(To(i - 1)) \o R(<<text[i]>>)
        BY <1>6, <1>9, <2>3, <3>3
      <3> QED
        BY <3>2, <3>4, <3>5
    <2>6. ASSUME NEW s \in K, Within(s, i)
          PROVE  R(g[i]) = R(To(s.to))
      <3>1. Cell(text, names, i) = IF s.from = i THEN <<names[s]>> ELSE <<>>
        BY <2>1, <2>6, CellOfSpan
      <3>2. CASE s.from = i
        <4>1. R(g[i - 1]) = R(To(i - 1))
          <5>1. ASSUME NEW t \in K
                PROVE  ~ (Within(t, i - 1) /\ Within(t, i))
            <6>1. t = s \/ t.to < s.from \/ s.to < t.from
              BY DEF Apart, Disjoint
            <6> DEFINE a == t.from
                       b == t.to
                       c == s.to
            <6>2. a \in 1 .. n /\ b \in 1 .. n /\ c \in 1 .. n
              BY <1>2
            <6>3. t = s => a = i
              BY <3>2
            <6>4. (t = s \/ b < i \/ c < a) /\ i <= c
              BY <2>6, <3>2, <6>1
            <6> HIDE DEF a, b, c
            <6>5. ~ ((a <= i - 1 /\ i - 1 <= b) /\ (a <= i /\ i <= b))
              BY <1>1, <6>2, <6>3, <6>4
            <6> QED
              BY <6>5 DEF a, b
          <5> QED
            BY <2>4, <5>1
        <4>2. names[s] \in Pieces
          BY PieceKinds
        <4>3. <<names[s]>> \in Seq(Pieces)
          BY <4>2
        <4>4. R(g[i]) = R(g[i - 1]) \o R(<<names[s]>>)
          <5>1. R(g[i - 1] \o <<names[s]>>) = R(g[i - 1]) \o R(<<names[s]>>)
            BY <1>6, <2>3, <4>3
          <5> QED
            BY <2>2, <3>1, <3>2, <5>1
        <4>5. R(To(s.to)) = R(To(i - 1)) \o R(Part(s))
          <5>1. To(s.to) = To(i - 1) \o Part(s) /\ Part(s) \in Seq(Pieces)
            BY <1>9, <3>2
          <5>2. R(To(i - 1) \o Part(s)) = R(To(i - 1)) \o R(Part(s))
            BY <1>6, <2>3, <5>1
          <5> QED
            BY <5>1, <5>2
        <4> QED
          BY <1>8, <4>1, <4>4, <4>5
      <3>3. CASE s.from # i
        <4>1. Within(s, i - 1)
          BY <1>2, <2>1, <2>6, <3>3
        <4>2. R(g[i - 1]) = R(To(s.to))
          BY <1>11, <4>1
        <4>3. g[i] = g[i - 1]
          BY <2>2, <2>3, <3>1, <3>3, ConcatEmptySeq
        <4> QED
          BY <4>2, <4>3
      <3> QED
        BY <3>2, <3>3
    <2> QED
      BY <2>1, <2>5, <2>6
  <1>12. n \in Good
    <2>1. n \in 0 .. n
      BY <1>1
    <2> HIDE DEF Good
    <2> QED
      BY <1>1, <1>10, <1>11, <2>1, IntervalInduction
  <1>13. R(g[n]) = R(text)
    <2>1. CASE ~ Covered(K, n)
      BY <1>9, <1>12, <2>1
    <2>2. CASE Covered(K, n)
      <3>1. PICK s \in K : Within(s, n)
        BY <2>2 DEF Covered
      <3>2. s.to = n
        BY <1>1, <1>2, <3>1
      <3> QED
        BY <1>9, <1>12, <3>1, <3>2
    <2> QED
      BY <2>1, <2>2
  <1> QED
    BY <1>3, <1>5, <1>13 DEF R

\* Once the spans that were kept are replaced by names of their own, they come back.
LEMMA NamedComesBack ==
    ASSUME NEW text \in Seq(Pieces), NEW R \in SUBSET Known, NEW names,
           names \in [Filtered(text, SpansOf(text, R)) -> Placeholders],
           OneToOne(Filtered(text, SpansOf(text, R)), names),
           NEW m \in Mappings, GivesBack(m, ReverseMapping(text, names))
    PROVE  Rehydrate(Replaced(text, names), m) = Rehydrate(text, m)
  <1> DEFINE K == Filtered(text, SpansOf(text, R))
  <1>1. K \in SUBSET SpansOf(text, R) /\ Apart(K)
    BY FilteredFacts DEF Apart
  <1>2. /\ K \in SUBSET Spans(Len(text))
        /\ \A s \in K : \A k \in s.from .. s.to : text[k] \in WordPieces
    BY <1>1, SpanFacts
  <1>3. names \in [K -> Placeholders] /\ OneToOne(K, names)
    OBVIOUS
  <1> HIDE DEF K
  <1> QED
    BY <1>1, <1>2, <1>3, ReplacedComesBack

\* What Presidio has redacted comes back.
LEMMA PresidioComesBack ==
    ASSUME NEW text \in Seq(Pieces), NEW m \in Mappings,
           GivesBack(m, RedactWithPresidio(text).mapping)
    PROVE  Rehydrate(RedactWithPresidio(text).text, m) = Rehydrate(text, m)
  <1> DEFINE R == Recognizers
             K == Filtered(text, SpansOf(text, R))
             n == Len(text)
             names == FromStart(K)
             own == ReverseMapping(text, names)
             start == Unredacted(text)
  <1>1. R \in SUBSET Known
    BY DEF Known
  <1>2. K \in SUBSET SpansOf(text, R) /\ IsFiniteSet(K) /\ Apart(K)
    BY <1>1, FilteredFacts DEF Apart
  <1>3. K \in SUBSET Spans(n) /\ n \in Nat
    BY <1>1, <1>2, SpanFacts
  <1>4. names \in [K -> Placeholders] /\ OneToOne(K, names)
    <2> HIDE DEF K, n
    <2> QED
      BY <1>2, <1>3, NamesFacts, NamesAreOneToOne
  <1>5. start \in Redactions /\ start.text = text /\ start.mapping = <<>>
    BY UnredactedFacts DEF Unredacted
  <1>6. RedactWithPresidio(text) = WithNames(start, names)
    BY DEF RedactWithPresidio
  <1> HIDE DEF R, names, start
  <1>7. /\ RedactWithPresidio(text).text = Replaced(text, names)
        /\ RedactWithPresidio(text).mapping = Updated(<<>>, own)
    BY <1>1, <1>4, <1>5, <1>6, NamedFacts
  <1>8. GivesBack(m, own)
    BY <1>7 DEF GivesBack, Updated
  <1> QED
    BY <1>1, <1>4, <1>7, <1>8, NamedComesBack

\* The names that spans are given have their tags.
LEMMA TagsOfNames ==
    ASSUME NEW text \in Seq(Pieces), NEW pattern \in Range(Patterns),
           NEW K \in SUBSET SpansOf(text, {pattern})
    PROVE  \A p \in DOMAIN ReverseMapping(text, FromEnd(K)) : p.tag = pattern.tag
  <1>1. \A s \in K : s.tag = pattern.tag
    <2>1. {pattern} \in SUBSET Known
      BY DEF Known
    <2> QED
      BY <2>1, SpanFacts
  <1>2. DOMAIN FromEnd(K) = K /\ \A s \in K : FromEnd(K)[s].tag = s.tag
    BY DEF FromEnd, Placeholder
  <1>3. DOMAIN ReverseMapping(text, FromEnd(K)) = {FromEnd(K)[s] : s \in DOMAIN FromEnd(K)}
    BY DEF ReverseMapping, Range
  <1> QED
    BY <1>1, <1>2, <1>3

\* What one pattern has taken out comes back, and is called by the pattern's tag.
LEMMA PatternComesBack ==
    ASSUME NEW done \in Redactions, NEW pattern \in Range(Patterns)
    PROVE  \E own \in Mappings :
              /\ RedactPattern(done, pattern).mapping = Updated(done.mapping, own)
              /\ \A p \in DOMAIN own : p.tag = pattern.tag
              /\ \A m \in Mappings : GivesBack(m, own) =>
                    Rehydrate(RedactPattern(done, pattern).text, m) = Rehydrate(done.text, m)
  <1> DEFINE text == done.text
             R == {pattern}
             K == Filtered(text, SpansOf(text, R))
             n == Len(text)
             names == FromEnd(K)
             own == ReverseMapping(text, names)
  <1>1. R \in SUBSET Known /\ text \in Seq(Pieces)
    BY DEF Known, Redactions
  <1>2. RedactPattern(done, pattern) = WithNames(done, names)
    BY DEF RedactPattern
  <1> HIDE DEF text
  <1>3. K \in SUBSET SpansOf(text, R) /\ IsFiniteSet(K) /\ Apart(K)
    BY <1>1, FilteredFacts DEF Apart
  <1>4. K \in SUBSET Spans(n) /\ n \in Nat
    <2> HIDE DEF R, K
    <2>1. \A s \in SpansOf(text, R) : s \in Spans(n)
      BY <1>1, SpanFacts
    <2> QED
      BY <1>1, <1>3, <2>1
  <1>5. names \in [K -> Placeholders] /\ OneToOne(K, names)
    <2> HIDE DEF K, n
    <2> QED
      BY <1>3, <1>4, NamesFacts, NamesAreOneToOne
  <1>6. \A p \in DOMAIN own : p.tag = pattern.tag
    BY <1>1, <1>3, TagsOfNames
  <1> HIDE DEF names, R
  <1>7. /\ own \in Mappings
        /\ WithNames(done, names).text = Replaced(text, names)
        /\ WithNames(done, names).mapping = Updated(done.mapping, own)
    BY <1>1, <1>5, NamedFacts DEF text
  <1>8. \A m \in Mappings : GivesBack(m, own) =>
           Rehydrate(Replaced(text, names), m) = Rehydrate(text, m)
    BY <1>1, <1>5, NamedComesBack
  <1> HIDE DEF own
  <1> QED
    BY <1>2, <1>6, <1>7, <1>8 DEF text

\* The tags of the patterns up to one.
TagsTo(i) == {Patterns[j].tag : j \in 1 .. i}

\* What the fallback has redacted comes back: each pattern names with a tag of its own, so
\* that none takes the place of what another has put into the mapping.
LEMMA RegexComesBack ==
    ASSUME NEW text \in Seq(Pieces), NEW m \in Mappings,
           GivesBack(m, RedactWithRegex(text).mapping)
    PROVE  Rehydrate(RedactWithRegex(text).text, m) = Rehydrate(text, m)
  <1> DEFINE n == Len(Patterns)
  <1>1. /\ n \in Nat /\ \A i \in 1 .. n : Patterns[i] \in Range(Patterns)
        /\ \A i, j \in 1 .. n : Patterns[i].tag = Patterns[j].tag => i = j
    BY RedactionAssumption DEF Range
  <1>2. PICK g \in [0 .. n -> Redactions] :
           /\ g[0] = Unredacted(text)
           /\ \A i \in 1 .. n : g[i] = RedactPattern(g[i - 1], Patterns[i])
           /\ RedactWithRegex(text) = g[n]
    BY RegexRun
  <1> HIDE DEF n
  <1> DEFINE Good == {i \in 0 .. n :
                        /\ \A p \in DOMAIN g[i].mapping : p.tag \in TagsTo(i)
                        /\ GivesBack(m, g[i].mapping) =>
                              Rehydrate(g[i].text, m) = Rehydrate(text, m)}
  <1>3. 0 \in Good
    BY <1>1, <1>2 DEF Unredacted
  <1>4. ASSUME NEW i \in 1 .. n, i - 1 \in Good
        PROVE  i \in Good
    <2> DEFINE done == g[i - 1]
               next == g[i]
    <2>1. i \in 0 .. n /\ i - 1 \in 0 .. n /\ done \in Redactions
      BY <1>1, <1>2
    <2>2. next = RedactPattern(done, Patterns[i])
      BY <1>2
    <2>3. /\ \A p \in DOMAIN done.mapping : p.tag \in TagsTo(i - 1)
          /\ GivesBack(m, done.mapping) => Rehydrate(done.text, m) = Rehydrate(text, m)
      BY <1>4
    <2> HIDE DEF done, next
    <2>4. PICK own \in Mappings :
              /\ next.mapping = Updated(done.mapping, own)
              /\ \A p \in DOMAIN own : p.tag = Patterns[i].tag
              /\ GivesBack(m, own) => Rehydrate(next.text, m) = Rehydrate(done.text, m)
      BY <1>1, <2>1, <2>2, PatternComesBack
    <2>5. /\ DOMAIN next.mapping = DOMAIN done.mapping \cup DOMAIN own
          /\ \A p \in DOMAIN own : next.mapping[p] = own[p]
          /\ \A p \in DOMAIN done.mapping \ DOMAIN own : next.mapping[p] = done.mapping[p]
      BY <2>4 DEF Updated
    <2>6. TagsTo(i) = TagsTo(i - 1) \cup {Patterns[i].tag} /\ Patterns[i].tag \notin TagsTo(i - 1)
      BY <1>1 DEF TagsTo
    <2>7. \A p \in DOMAIN next.mapping : p.tag \in TagsTo(i)
      BY <2>3, <2>4, <2>5, <2>6
    <2>8. DOMAIN done.mapping \cap DOMAIN own = {}
      BY <2>3, <2>4, <2>6
    <2>9. ASSUME GivesBack(m, next.mapping)
          PROVE  Rehydrate(next.text, m) = Rehydrate(text, m)
      <3>1. GivesBack(m, own) /\ GivesBack(m, done.mapping)
        BY <2>5, <2>8, <2>9 DEF GivesBack
      <3> QED
        BY <2>3, <2>4, <3>1
    <2> QED
      BY <2>1, <2>7, <2>9 DEF next
  <1>5. n \in Good
    <2>1. n \in 0 .. n
      BY <1>1
    <2> HIDE DEF Good
    <2> QED
      BY <1>1, <1>3, <1>4, <2>1, IntervalInduction
  <1> QED
    BY <1>2, <1>5

\* Whatever the engine, what it has redacted comes back as it was, where the mapping
\* knows the names and nothing that was in the text before is one.
LEMMA RedactComesBack ==
    ASSUME NEW e \in Engines, NEW text \in Seq(Pieces), NEW m \in Mappings,
           GivesBack(m, Redact(e, text).mapping), Range(text) \cap DOMAIN m = {}
    PROVE  Rehydrate(Redact(e, text).text, m) = text
  <1>1. Rehydrate(text, m) = text
    <2>1. \A i \in 1 .. Len(text) : text[i] \in Pieces \ DOMAIN m
      BY DEF Range
    <2>2. text \in Seq(Pieces \ DOMAIN m)
      BY <2>1
    <2> QED
      BY <2>2, RehydrateUntouched
  <1>2. CASE e = "presidio"
    BY <1>1, <1>2, PresidioComesBack DEF Redact
  <1>3. CASE e = "regex"
    BY <1>1, <1>3, RegexComesBack DEF Redact
  <1>4. CASE e = "off"
    BY <1>1, <1>4 DEF Redact, Unredacted
  <1> QED
    BY <1>2, <1>3, <1>4 DEF Engines


-------------------------------------------------------------------------------
(* What the handler makes of chunks and of an answer. *)

\* The mappings are taken up one after the other.
LEMMA MergedRun ==
    ASSUME NEW m \in Mappings, NEW redactions \in Seq(Redactions)
    PROVE  \E g \in [0 .. Len(redactions) -> Mappings] :
              /\ g[0] = m
              /\ \A i \in 1 .. Len(redactions) : g[i] = Updated(g[i - 1], redactions[i].mapping)
              /\ Merged(m, redactions) = g[Len(redactions)]
  <1> DEFINE n == Len(redactions)
             A == Mappings
             f == [i \in 1 .. n |-> [old \in A |-> Updated(old, redactions[i].mapping)]]
             IsFold(h) ==
                h = [S \in SUBSET (1 .. n) |->
                       IF S = {} THEN m
                       ELSE Updated(h[S \ {Max(S)}], redactions[Max(S)].mapping)]
             fold == CHOOSE h : IsFold(h)
  <1>1. /\ n \in Nat /\ DOMAIN redactions = 1 .. n
        /\ \A i \in 1 .. n : redactions[i] \in Redactions
    OBVIOUS
  <1>2. Merged(m, redactions) = fold[1 .. n]
    BY <1>1 DEF Merged, FoldLeft, MapThenFoldSet
  <1>3. m \in A
    OBVIOUS
  <1>4. \A old \in A, i \in 1 .. n : Updated(old, redactions[i].mapping) \in A
    <2>1. \A i \in 1 .. n : redactions[i].mapping \in Mappings
      BY <1>1 DEF Redactions
    <2> HIDE DEF n
    <2> QED
      BY <2>1, UpdatedFacts
  <1>5. f \in [1 .. n -> [A -> A]]
    <2> HIDE DEF A, n
    <2> QED
      BY <1>4
  <1>6. \A i \in 1 .. n : \A old \in A : f[i][old] = Updated(old, redactions[i].mapping)
    <2> HIDE DEF A, n
    <2> QED
      OBVIOUS
  <1>7. \E h : IsFold(h)
    <2>1. PICK h \in FoldsOver(A, m, n, f) : TRUE
      <3> HIDE DEF n, f, A
      <3>1. FoldsOver(A, m, n, f) # {}
        BY ONLY <1>1, <1>3, <1>5, FoldExists
      <3> QED
        BY <3>1
    <2> HIDE DEF A
    <2>2. /\ h \in [SUBSET (1 .. n) -> A]
          /\ \A S \in SUBSET (1 .. n) :
                h[S] = IF S = {} THEN m ELSE f[Max(S)][h[S \ {Max(S)}]]
      BY <2>1 DEF FoldsOver
    <2>3. ASSUME NEW S \in SUBSET (1 .. n), S # {}
          PROVE  f[Max(S)][h[S \ {Max(S)}]]
                    = Updated(h[S \ {Max(S)}], redactions[Max(S)].mapping)
      <3>1. Max(S) \in 1 .. n
        <4> HIDE DEF n, f
        <4> QED
          BY <1>1, <2>3, GreatestPosition
      <3>2. h[S \ {Max(S)}] \in A
        BY <2>2
      <3> HIDE DEF n, f
      <3> QED
        BY <1>6, <3>1, <3>2
    <2> HIDE DEF f, n
    <2>4. IsFold(h)
      BY <2>2, <2>3
    <2> QED
      BY <2>4
  <1>8. IsFold(fold)
    <2> HIDE DEF IsFold
    <2> QED
      BY <1>7
  <1> HIDE DEF A, f, fold
  <1>9. FollowsOver(A, m, n, f, fold)
    <2>1. ASSUME NEW S \in SUBSET (1 .. n), S # {}
          PROVE  Max(S) \in 1 .. n
      <3> HIDE DEF n
      <3> QED
        BY <1>1, <2>1, GreatestPosition
    <2> HIDE DEF n
    <2>2. fold[{}] = m
      <3>1. {} \in SUBSET (1 .. n)
        OBVIOUS
      <3> QED
        BY <1>8, <3>1
    <2>3. ASSUME NEW S \in SUBSET (1 .. n), S # {}, fold[S \ {Max(S)}] \in A
          PROVE  fold[S] = f[Max(S)][fold[S \ {Max(S)}]]
      <3> DEFINE last == Max(S)
                 before == fold[S \ {Max(S)}]
      <3>1. fold[S] = Updated(before, redactions[last].mapping)
        BY <1>8, <2>3
      <3>2. last \in 1 .. n /\ before \in A
        BY <2>1, <2>3
      <3> HIDE DEF last, before
      <3>3. fold[S] = f[last][before]
        BY <1>6, <3>1, <3>2
      <3> QED
        BY <3>3 DEF last, before
    <2> QED
      BY <2>2, <2>3 DEF FollowsOver
  <1> HIDE DEF n
  <1>10. PICK g \in RunsOver(A, m, n, f) : g[n] = fold[1 .. n]
    <2>1. [i \in 0 .. n |-> fold[1 .. i]] \in RunsOver(A, m, n, f)
      BY <1>1, <1>3, <1>5, <1>9, FoldRuns
    <2>2. n \in 0 .. n
      BY <1>1
    <2> QED
      BY <2>1, <2>2
  <1>11. g \in [0 .. n -> A] /\ g[0] = m /\ \A i \in 1 .. n : g[i] = f[i][g[i - 1]]
    BY <1>10 DEF RunsOver
  <1>12. \A i \in 1 .. n : g[i] = Updated(g[i - 1], redactions[i].mapping)
    <2>1. \A i \in 1 .. n : i - 1 \in 0 .. n
      BY <1>1
    <2> QED
      BY <1>6, <1>11, <2>1
  <1> QED
    BY <1>2, <1>10, <1>11, <1>12 DEF n, A

\* They are a mapping in the end, which knows every name as one of them does, and no other.
LEMMA MergedFacts ==
    ASSUME NEW m \in Mappings, NEW redactions \in Seq(Redactions)
    PROVE  /\ Merged(m, redactions) \in Mappings
           /\ DOMAIN m \subseteq DOMAIN Merged(m, redactions)
           /\ \A i \in 1 .. Len(redactions) :
                 DOMAIN redactions[i].mapping \subseteq DOMAIN Merged(m, redactions)
           /\ \A p \in DOMAIN Merged(m, redactions) :
                 \/ p \in DOMAIN m /\ Merged(m, redactions)[p] = m[p]
                 \/ \E i \in 1 .. Len(redactions) :
                       /\ p \in DOMAIN redactions[i].mapping
                       /\ Merged(m, redactions)[p] = redactions[i].mapping[p]
  <1> DEFINE n == Len(redactions)
             own(i) == redactions[i].mapping
  <1>1. n \in Nat
    OBVIOUS
  <1>2. PICK g \in [0 .. n -> Mappings] :
           /\ g[0] = m
           /\ \A i \in 1 .. n : g[i] = Updated(g[i - 1], own(i))
           /\ Merged(m, redactions) = g[n]
    BY MergedRun
  <1> HIDE DEF n, own
  <1>3. \A i \in 1 .. n :
           /\ DOMAIN g[i] = DOMAIN g[i - 1] \cup DOMAIN own(i)
           /\ \A p \in DOMAIN g[i] :
                 g[i][p] = IF p \in DOMAIN own(i) THEN own(i)[p] ELSE g[i - 1][p]
    <2>1. SUFFICES ASSUME NEW i \in 1 .. n
                   PROVE  /\ DOMAIN g[i] = DOMAIN g[i - 1] \cup DOMAIN own(i)
                          /\ \A p \in DOMAIN g[i] :
                                g[i][p] = IF p \in DOMAIN own(i) THEN own(i)[p] ELSE g[i - 1][p]
      OBVIOUS
    <2> DEFINE old == g[i - 1]
               new == own(i)
               now == g[i]
    <2>2. now = Updated(old, new)
      BY <1>2
    <2> HIDE DEF old, new, now
    <2>3. /\ DOMAIN now = DOMAIN old \cup DOMAIN new
          /\ \A p \in DOMAIN now : now[p] = IF p \in DOMAIN new THEN new[p] ELSE old[p]
      BY ONLY <2>2 DEF Updated
    <2> QED
      BY <2>3 DEF old, new, now
  <1> DEFINE Good == {i \in 0 .. n :
                        /\ DOMAIN m \subseteq DOMAIN g[i]
                        /\ \A j \in 1 .. i : DOMAIN own(j) \subseteq DOMAIN g[i]
                        /\ \A p \in DOMAIN g[i] :
                              \/ p \in DOMAIN m /\ g[i][p] = m[p]
                              \/ \E j \in 1 .. i : p \in DOMAIN own(j) /\ g[i][p] = own(j)[p]}
  <1>4. 0 \in Good
    BY <1>1, <1>2
  <1>5. ASSUME NEW i \in 1 .. n, i - 1 \in Good
        PROVE  i \in Good
    <2>1. i \in 0 .. n /\ i \in 1 .. i /\ \A j \in 1 .. i : j \in 1 .. i - 1 \/ j = i
      BY <1>1
    <2>2. \A j \in 1 .. i - 1 : j \in 1 .. i
      BY <1>1
    <2>3. DOMAIN m \subseteq DOMAIN g[i]
      BY <1>3, <1>5
    <2>4. \A j \in 1 .. i : DOMAIN own(j) \subseteq DOMAIN g[i]
      BY <1>3, <1>5, <2>1
    <2>5. ASSUME NEW p \in DOMAIN g[i]
          PROVE  \/ p \in DOMAIN m /\ g[i][p] = m[p]
                 \/ \E j \in 1 .. i : p \in DOMAIN own(j) /\ g[i][p] = own(j)[p]
      <3>1. CASE p \in DOMAIN own(i)
        BY <1>3, <2>1, <2>5, <3>1
      <3>2. CASE p \notin DOMAIN own(i)
        <4>1. p \in DOMAIN g[i - 1] /\ g[i][p] = g[i - 1][p]
          BY <1>3, <2>5, <3>2
        <4> QED
          BY <1>5, <2>2, <4>1
      <3> QED
        BY <3>1, <3>2
    <2> QED
      BY <2>1, <2>3, <2>4, <2>5
  <1>6. n \in Good
    <2>1. n \in 0 .. n
      BY <1>1
    <2> HIDE DEF Good
    <2> QED
      BY <1>1, <1>4, <1>5, <2>1, IntervalInduction
  <1>7. g[n] \in Mappings
    BY <1>1, <1>2
  <1> QED
    BY <1>2, <1>6, <1>7 DEF n, own

\* The chunks that are taken up are among those found.
LEMMA TopChunksFacts ==
    ASSUME NEW found \in SUBSET Chunks
    PROVE  TopChunks(found) \in Seq(Chunks)
  <1> DEFINE c == Cardinality(found)
             n == Min({TopN, c})
             k == [x \in found |-> - x.similarity]
             Better(x) == {d \in found : d.similarity > x.similarity}
             nth(i) == CHOOSE x \in found : Cardinality(Better(x)) = i - 1
  <1>1. IsFiniteSet(found) /\ c \in Nat /\ TopN \in Nat
    BY AnswerAssumption, FS_Subset, FS_CardinalityType
  <1>2. n \in Nat /\ n <= c
    <2> HIDE DEF c
    <2>1. \E x \in {TopN, c} : \A y \in {TopN, c} : x <= y
      BY <1>1
    <2>2. n \in {TopN, c} /\ \A y \in {TopN, c} : n <= y
      BY <2>1 DEF Min
    <2> QED
      BY <1>1, <2>2
  <1>3. \A x \in found : x.similarity \in Int /\ k[x] = - x.similarity
    BY AnswerAssumption
  <1>4. k \in [found -> Int] /\ \A x, y \in found : k[x] = k[y] => x = y
    <2>1. \A x, y \in found : x.similarity = y.similarity => x = y
      BY AnswerAssumption
    <2> QED
      BY <1>3, <2>1
  <1>5. \A x \in found : Cardinality(Better(x)) = Rank(found, k, x)
    <2> SUFFICES ASSUME NEW x \in found PROVE Better(x) = Below(found, k, x)
      BY DEF Rank
    <2> HIDE DEF k
    <2>1. \A d \in found : d.similarity > x.similarity <=> k[d] < k[x]
      BY <1>3
    <2> QED
      BY <2>1 DEF Below
  <1>6. ASSUME NEW i \in 1 .. n
        PROVE  nth(i) \in found
    <2>1. i \in 1 .. c
      BY <1>1, <1>2
    <2> HIDE DEF c, n, k, Better
    <2>2. \E x \in found : Rank(found, k, x) = i - 1
      BY <1>1, <1>4, <2>1, RankIsTaken DEF c
    <2> QED
      BY <1>5, <2>2
  <1>7. TopChunks(found) = [i \in 1 .. n |-> nth(i)]
    BY DEF TopChunks
  <1> HIDE DEF n, nth
  <1> QED
    BY <1>2, <1>6, <1>7

\* The numbers that an answer cites.
Cited(text) == {p.n : p \in {q \in Range(text) : IsCitation(q)}}

\* Pieces stay unless they are dropped.
LEMMA KeptPieces ==
    ASSUME NEW text \in Seq(Pieces)
    PROVE  \A p : p \in Range(Sanitized(text)) <=>
                     p \in Range(text) /\ ~ IsDropped(p)
  <1> DEFINE n == Len(text)
             cell(p) == IF IsDropped(p) THEN <<>> ELSE <<p>>
             seqs == [i \in DOMAIN text |-> cell(text[i])]
  <1>1. n \in Nat /\ DOMAIN text = 1 .. n /\ \A i \in 1 .. n : text[i] \in Pieces
    OBVIOUS
  <1>2. Sanitized(text) = FlattenSeq(seqs)
    BY DEF Sanitized
  <1>3. seqs \in Seq(Seq(Pieces)) /\ DOMAIN seqs = 1 .. n
        /\ \A i \in 1 .. n : seqs[i] = cell(text[i])
    <2>1. \A p \in Pieces : cell(p) \in Seq(Pieces)
      OBVIOUS
    <2> HIDE DEF n, cell
    <2> QED
      BY <1>1, <2>1
  <1>4. \A p, q : q \in Range(cell(p)) <=> q = p /\ ~ IsDropped(p)
    <2> SUFFICES ASSUME NEW p, NEW q
                 PROVE  q \in Range(cell(p)) <=> q = p /\ ~ IsDropped(p)
      OBVIOUS
    <2>1. Range(<<>>) = {} /\ Range(<<p>>) = {p}
      BY DEF Range
    <2> QED
      BY <2>1
  <1> HIDE DEF seqs, cell
  <1>5. \A q : q \in Range(FlattenSeq(seqs)) <=> \E i \in 1 .. n : q \in Range(seqs[i])
    BY <1>3, FlattenElements
  <1>6. \A q : q \in Range(text) <=> \E i \in 1 .. n : q = text[i]
    BY <1>1 DEF Range
  <1> DEFINE kept(p) == p \in Range(text) /\ ~ IsDropped(p)
  <1>7. ASSUME NEW p
        PROVE  p \in Range(FlattenSeq(seqs)) <=> kept(p)
    <2>1. ASSUME p \in Range(FlattenSeq(seqs))
          PROVE  kept(p)
      <3>1. PICK i \in 1 .. n : p \in Range(seqs[i])
        BY <1>5, <2>1
      <3>2. p \in Range(cell(text[i]))
        BY <1>3, <3>1
      <3> QED
        BY <1>4, <1>6, <3>2
    <2>2. ASSUME kept(p)
          PROVE  p \in Range(FlattenSeq(seqs))
      <3>1. PICK i \in 1 .. n : p = text[i]
        BY <1>6, <2>2
      <3>2. p \in Range(cell(text[i]))
        BY <1>4, <2>2, <3>1
      <3>3. p \in Range(seqs[i])
        BY <1>3, <3>2
      <3> QED
        BY <1>5, <3>3
    <2> QED
      BY <2>1, <2>2
  <1> QED
    BY <1>2, <1>7

\* The citations of a text are of the numbers it cites, each once and in order.
LEMMA CitationsFacts ==
    ASSUME NEW text \in Seq(Pieces), NEW n \in Nat, DOMAIN prompt.context = 1 .. n
    PROVE  LET citations == CitationsIn(text)
           IN  /\ \A i \in DOMAIN citations :
                     /\ citations[i].index \in Cited(text)
                     /\ citations[i].chunk = sources[citations[i].index].id
               /\ \A x \in Cited(text) : \E i \in DOMAIN citations : citations[i].index = x
               /\ \A i, j \in DOMAIN citations :
                     i < j => citations[i].index < citations[j].index
  <1> DEFINE S == Cited(text)
             N == Cardinality(S)
             k == [x \in S |-> x]
             nth(i) == CHOOSE x \in S : Cardinality({y \in S : y < x}) = i - 1
             number == [i \in 1 .. N |-> nth(i)]
             citations == CitationsIn(text)
  <1>1. S \in SUBSET (1 .. n)
    BY DEF Cited, IsCitation
  <1>13. \A x \in S : x \in Int
    <2> HIDE DEF S
    <2> QED
      BY <1>1
  <1>2. IsFiniteSet(S) /\ N \in Nat
    <2> HIDE DEF S
    <2>1. IsFiniteSet(1 .. n)
      <3>1. 1 \in Int /\ n \in Int
        OBVIOUS
      <3> QED
        BY <3>1, FS_Interval, Zenon
    <2>2. IsFiniteSet(S)
      BY <1>1, <2>1, FS_Subset
    <2> QED
      BY <2>2, FS_CardinalityType
  <1>3. citations = [i \in 1 .. N |-> [index |-> nth(i), chunk |-> sources[nth(i)].id]]
    BY DEF CitationsIn, Cited
  <1> HIDE DEF S
  <1>4. k \in [S -> Int] /\ \A x, y \in S : k[x] = k[y] => x = y
    BY <1>1
  <1>5. ASSUME NEW x \in S
        PROVE  Cardinality({y \in S : y < x}) = Rank(S, k, x)
    <2>1. {y \in S : y < x} = Below(S, k, x)
      BY DEF Below
    <2> QED
      BY <2>1 DEF Rank
  <1>6. ASSUME NEW i \in 1 .. N
        PROVE  nth(i) \in S /\ Rank(S, k, nth(i)) = i - 1
    <2> HIDE DEF k, N
    <2>1. \E x \in S : Rank(S, k, x) = i - 1
      BY <1>2, <1>4, <1>6, RankIsTaken DEF N
    <2> QED
      BY <1>5, <2>1
  <1> HIDE DEF k, nth
  <1>7. \A i \in 1 .. N : number[i] \in S /\ Rank(S, k, number[i]) = i - 1
    <2> HIDE DEF N
    <2> QED
      BY <1>6
  <1>8. \A x \in S : Rank(S, k, x) \in 0 .. N - 1 /\
           \A y \in S : x < y => Rank(S, k, x) < Rank(S, k, y)
    <2>1. \A x \in S : k[x] = x
      BY DEF k
    <2> QED
      BY <1>2, <1>4, <2>1, RankOrder
  <1> HIDE DEF N, number
  <1>9. ASSUME NEW i \in 1 .. N, NEW j \in 1 .. N, i < j
        PROVE  number[i] < number[j]
    <2> DEFINE a == number[i]
               b == number[j]
    <2>1. a \in S /\ b \in S /\ Rank(S, k, a) = i - 1 /\ Rank(S, k, b) = j - 1
      BY <1>7
    <2>2. a \in Int /\ b \in Int
      BY <1>13, <2>1
    <2> HIDE DEF a, b
    <2>3. ~ (b < a)
      <3> SUFFICES ASSUME b < a PROVE FALSE
        OBVIOUS
      <3>1. Rank(S, k, b) < Rank(S, k, a)
        BY <1>8, <2>1
      <3>2. j - 1 < i - 1
        BY <2>1, <3>1
      <3> QED
        BY <1>2, <1>9, <3>2
    <2>4. a # b
      <3> SUFFICES ASSUME a = b PROVE FALSE
        OBVIOUS
      <3>1. i - 1 = j - 1
        BY <2>1
      <3> QED
        BY <1>2, <1>9, <3>1
    <2>5. a < b
      BY <2>2, <2>3, <2>4
    <2> QED
      BY <2>5 DEF a, b
  <1>10. ASSUME NEW x \in S
         PROVE  \E i \in 1 .. N : number[i] = x
    <2> DEFINE r == Rank(S, k, x)
               i == r + 1
    <2>1. r \in 0 .. N - 1
      BY <1>8
    <2>2. i \in 1 .. N /\ i - 1 = r
      <3> HIDE DEF r
      <3> QED
        BY <1>2, <2>1
    <2> DEFINE y == number[i]
    <2>3. y \in S /\ Rank(S, k, y) = r
      BY <1>7, <2>2
    <2>4. x \in Int /\ y \in Int
      BY <1>13, <2>3
    <2>5. r \in Int
      BY <1>2, <2>1
    <2> HIDE DEF y, i
    <2>6. ~ (x < y) /\ ~ (y < x)
      <3>1. x < y => r < r
        BY <1>8, <2>3
      <3>2. y < x => r < r
        BY <1>8, <2>3
      <3> HIDE DEF r
      <3>3. ~ (r < r)
        BY <2>5
      <3> QED
        BY <3>1, <3>2, <3>3
    <2>7. x = y
      BY <2>4, <2>6
    <2> QED
      BY <2>2, <2>7 DEF y
  <1>11. /\ DOMAIN citations = 1 .. N
         /\ \A i \in 1 .. N : /\ citations[i].index = number[i]
                              /\ citations[i].chunk = sources[number[i]].id
    BY <1>3 DEF number
  <1> HIDE DEF citations
  <1>12. /\ \A i \in DOMAIN citations :
               /\ citations[i].index \in S
               /\ citations[i].chunk = sources[citations[i].index].id
         /\ \A x \in S : \E i \in DOMAIN citations : citations[i].index = x
         /\ \A i, j \in DOMAIN citations :
               i < j => citations[i].index < citations[j].index
    BY <1>7, <1>9, <1>10, <1>11
  <1> QED
    BY <1>12 DEF S, citations

-------------------------------------------------------------------------------
(* The invariant of a question. *)

Before == {"rewrite", "redact", "embed", "retrieve", "ground"}
Streams == {"stream", "finish"}

Types ==
    /\ engine \in Engines
    /\ query \in Seq(Atoms) /\ effective \in Seq(Atoms)
    /\ pc \in Before \cup Streams \cup {"ended"}
    /\ asked \in Seq(Pieces)
    /\ mapping \in Mappings
    /\ sources \in Seq(Chunks)
    /\ raw \in Seq(Seq(Pieces))

\* Nothing is prompted, streamed or answered before the prompt is made.
Order ==
    /\ pc \in Before => prompt = None /\ raw = <<>> /\ shown = <<>>
    /\ outcome = "answered" => pc = "ended"

\* The prompt shows the chunks that were taken up, under their numbers: the title of each as
\* it is, and the content redacted.
PromptIsMade ==
    /\ prompt.query = asked
    /\ DOMAIN prompt.context = DOMAIN sources
    /\ \A i \in DOMAIN sources :
          /\ prompt.context[i].title = sources[i].title
          /\ prompt.context[i].content = Redact(engine, sources[i].text).text

\* The client has been sent what was received, rehydrated token by token.
ShownIsRehydrated == shown = [i \in DOMAIN raw |-> Rehydrate(raw[i], mapping)]

StoredIsFinished ==
    stored = [text |-> Sanitized(FullResponse), citations |-> CitationsIn(FullResponse)]

\* It is inductive: what an answer rests on is settled when the prompt is made.
AnswerInv ==
    /\ Types
    /\ Order
    /\ prompt # None \/ pc \in Streams \/ outcome = "answered" => PromptIsMade
    /\ pc \in Streams \/ outcome = "answered" => ShownIsRehydrated
    /\ outcome = "answered" => StoredIsFinished

\* What the handler goes on with is what the invariant is about.
settled == <<engine, query, asked, mapping, sources, prompt, raw, shown>>

\* The answer is made of what is settled.
LEMMA SettledAnswer ==
    ASSUME UNCHANGED settled
    PROVE  /\ Sanitized(FullResponse)' = Sanitized(FullResponse)
           /\ CitationsIn(FullResponse)' = CitationsIn(FullResponse)
  BY DEF settled, Sanitized, CitationsIn, FullResponse, IsCitation, IsDropped

\* A step that settles nothing new, and answers nothing, keeps the invariant.
LEMMA SettledStep ==
    ASSUME AnswerInv, UNCHANGED settled, effective' \in Seq(Atoms),
           pc' \in Before \cup Streams \cup {"ended"},
           pc' \in Before => pc \in Before,
           pc' \in Streams => pc \in Streams,
           outcome' # "answered"
    PROVE  AnswerInv'
  <1>1. Types'
    BY DEF AnswerInv, Types, settled
  <1>2. Order'
    BY DEF AnswerInv, Order, settled
  <1>3. prompt' # None \/ pc' \in Streams => PromptIsMade'
    BY DEF AnswerInv, PromptIsMade, settled
  <1>4. pc' \in Streams => ShownIsRehydrated'
    BY DEF AnswerInv, ShownIsRehydrated, settled
  <1> QED
    BY <1>1, <1>2, <1>3, <1>4 DEF AnswerInv

\* Queries and rewrites are texts of atoms.
LEMMA RewriteStep ==
    ASSUME AnswerInv, KeepQuery \/ RewriteQuery \/ RewriteRetried \/ RewriteFails
    PROVE  AnswerInv'
  <1>1. pc = "rewrite" =>
            query \in Seq(Atoms) /\ effective \in Seq(Atoms) /\ outcome # "answered"
    BY DEF AnswerInv, Types, Order
  <1>2. pc = "rewrite"
    BY DEF KeepQuery, RewriteQuery, RewriteRetried, RewriteFails, Retry, GivesUp
  <1>3. effective' \in Seq(Atoms)
    <2>1. CASE KeepQuery \/ RewriteFails
      BY <1>1, <1>2, <2>1 DEF KeepQuery, RewriteFails, Rewritten
    <2>2. CASE RewriteQuery
      <3>1. PICK text \in Rewrites : effective' = IF text = <<>> THEN query ELSE text
        BY <2>2 DEF RewriteQuery, Rewritten
      <3>2. text \in Seq(Atoms)
        BY AnswerAssumption
      <3> QED
        BY <1>1, <1>2, <3>1, <3>2
    <2>3. CASE RewriteRetried
      BY <1>1, <1>2, <2>3 DEF RewriteRetried, Retry
    <2> QED
      BY <2>1, <2>2, <2>3
  <1>4. UNCHANGED settled /\ outcome' = outcome
    BY DEF KeepQuery, RewriteQuery, RewriteRetried, RewriteFails, Rewritten, Retry,
           settled, inputVars
  <1>5. pc' \in {"rewrite", "redact"}
    BY <1>2 DEF KeepQuery, RewriteQuery, RewriteRetried, RewriteFails, Rewritten, Retry, GoOn
  <1> QED
    BY <1>1, <1>2, <1>3, <1>4, <1>5, SettledStep DEF Before, Streams

\* The embedding and the end of the stream settle nothing, nor does a failure.
LEMMA GoingOnStep ==
    ASSUME AnswerInv, EmbedQuery \/ EmbedRetried \/ EmbedFails \/ StreamEnds \/ Interrupt
    PROVE  AnswerInv'
  <1>1. UNCHANGED settled /\ effective' = effective
    BY DEF EmbedQuery, EmbedRetried, EmbedFails, StreamEnds, Interrupt, Retry, Fail, settled,
           inputVars
  <1>2. effective \in Seq(Atoms)
    BY DEF AnswerInv, Types
  <1>3. pc # "ended" => outcome # "answered"
    BY DEF AnswerInv, Order
  <1>4. CASE EmbedQuery \/ EmbedRetried
    <2>1. pc = "embed" /\ pc' \in {"embed", "retrieve"} /\ outcome' = outcome
      BY <1>4 DEF EmbedQuery, EmbedRetried, Retry, GoOn
    <2> QED
      BY <1>1, <1>2, <1>3, <2>1, SettledStep DEF Before, Streams
  <1>5. CASE StreamEnds
    <2>1. pc = "stream" /\ pc' = "finish" /\ outcome' = outcome
      BY <1>5 DEF StreamEnds, GoOn
    <2> QED
      BY <1>1, <1>2, <1>3, <2>1, SettledStep DEF Before, Streams
  <1>6. CASE EmbedFails \/ Interrupt
    <2>1. pc' = "ended" /\ outcome' = "failed"
      BY <1>6 DEF EmbedFails, Interrupt, Fail, End, GoOn
    <2> QED
      BY <1>1, <1>2, <2>1, SettledStep DEF Before, Streams
  <1> QED
    BY <1>4, <1>5, <1>6

\* The query is redacted for what follows.
LEMMA RedactQueryStep ==
    ASSUME AnswerInv, RedactQuery
    PROVE  AnswerInv'
  <1>1. /\ Types /\ Order /\ pc = "redact"
        /\ asked' = Redact(engine, effective).text
        /\ mapping' = Redact(engine, effective).mapping
        /\ pc' = "embed"
        /\ UNCHANGED <<engine, query, effective, sources, prompt, raw, shown, stored, outcome>>
    BY DEF RedactQuery, AnswerInv, GoOn, inputVars
  <1>2. engine \in Engines /\ effective \in Seq(Pieces)
    <2>1. Atoms \subseteq Pieces
      BY PieceKinds
    <2> QED
      BY <1>1, <2>1 DEF Types
  <1>3. asked' \in Seq(Pieces) /\ mapping' \in Mappings
    BY <1>1, <1>2, RedactFacts DEF Redactions
  <1>4. Types'
    BY <1>1, <1>3 DEF Types, Before
  <1>5. Order' /\ prompt' = None /\ outcome' # "answered"
    BY <1>1 DEF Order, Before
  <1> QED
    BY <1>1, <1>4, <1>5 DEF AnswerInv, Streams

\* Chunks are taken up before there is a prompt.
LEMMA RetrieveStep ==
    ASSUME AnswerInv, RetrieveAndRerank
    PROVE  AnswerInv'
  <1>1. /\ Types /\ Order /\ pc = "retrieve" /\ pc' = "ground"
        /\ UNCHANGED <<engine, query, effective, asked, mapping, prompt, raw, shown, stored,
                       outcome>>
    BY DEF RetrieveAndRerank, AnswerInv, GoOn, inputVars
  <1>2. sources' \in Seq(Chunks)
    BY TopChunksFacts DEF RetrieveAndRerank
  <1>3. Types'
    BY <1>1, <1>2 DEF Types, Before
  <1>4. Order' /\ prompt' = None /\ outcome' # "answered"
    BY <1>1 DEF Order, Before
  <1> QED
    BY <1>1, <1>3, <1>4 DEF AnswerInv, Streams

\* A refusal is shown and stored without a prompt.
LEMMA RefuseStep ==
    ASSUME AnswerInv, Refuse
    PROVE  AnswerInv'
  <1>1. /\ Types /\ Order /\ pc = "ground" /\ pc' = "ended" /\ outcome' = "refused"
        /\ UNCHANGED <<engine, query, effective, asked, mapping, sources, prompt, raw>>
    BY DEF Refuse, AnswerInv, End, GoOn, inputVars
  <1>2. Types'
    BY <1>1 DEF Types
  <1>3. Order' /\ prompt' = None
    BY <1>1 DEF Order, Before
  <1> QED
    BY <1>1, <1>2, <1>3 DEF AnswerInv, Streams

\* The prompt is made of redacted texts.
LEMMA BuildPromptStep ==
    ASSUME AnswerInv, BuildPrompt
    PROVE  AnswerInv'
  <1> DEFINE redactions == [i \in DOMAIN sources |-> Redact(engine, sources[i].text)]
  <1>1. /\ Types /\ Order /\ pc = "ground" /\ pc' = "stream"
        /\ mapping' = Merged(mapping, redactions)
        /\ prompt' = [query |-> asked, context |-> Numbered(redactions), history |-> history]
        /\ UNCHANGED <<engine, query, effective, asked, sources, raw, shown, stored, outcome>>
    BY DEF BuildPrompt, AnswerInv, GoOn, inputVars
  <1>2. redactions \in Seq(Redactions)
    <2>1. Atoms \subseteq Pieces
      BY PieceKinds
    <2>2. \A c \in Chunks : c.text \in Seq(Pieces)
      BY <2>1, AnswerAssumption
    <2>3. sources \in Seq(Chunks) /\ engine \in Engines
      BY <1>1 DEF Types
    <2> DEFINE n == Len(sources)
    <2>4. n \in Nat /\ DOMAIN sources = 1 .. n /\ \A i \in 1 .. n : sources[i] \in Chunks
      BY <2>3
    <2>5. \A i \in 1 .. n : Redact(engine, sources[i].text) \in Redactions
      BY <2>2, <2>3, <2>4, RedactFacts
    <2> HIDE DEF n
    <2> QED
      BY <2>4, <2>5
  <1>3. DOMAIN redactions = DOMAIN sources
        /\ \A i \in DOMAIN sources : redactions[i] = Redact(engine, sources[i].text)
    OBVIOUS
  <1> HIDE DEF redactions
  <1>4. mapping' \in Mappings
    BY <1>1, <1>2, MergedFacts DEF Types
  <1>5. Types'
    BY <1>1, <1>4 DEF Types, Streams
  <1>6. Order' /\ outcome' # "answered" /\ raw = <<>> /\ shown = <<>>
    BY <1>1 DEF Order, Before
  <1>7. PromptIsMade'
    <2>1. /\ DOMAIN Numbered(redactions) = DOMAIN sources
          /\ \A i \in DOMAIN sources :
                /\ Numbered(redactions)[i].title = sources[i].title
                /\ Numbered(redactions)[i].content = Redact(engine, sources[i].text).text
      BY <1>3 DEF Numbered
    <2> DEFINE context == Numbered(redactions)
    <2> HIDE DEF context
    <2>2. prompt'.query = asked /\ prompt'.context = context
      BY <1>1 DEF context
    <2> QED
      BY <1>1, <2>1, <2>2 DEF PromptIsMade, context
  <1>8. ShownIsRehydrated'
    <2>1. raw' = <<>> /\ shown' = <<>>
      BY <1>1, <1>6
    <2> QED
      BY <2>1 DEF ShownIsRehydrated
  <1> QED
    BY <1>1, <1>5, <1>6, <1>7, <1>8 DEF AnswerInv

\* A token is received, rehydrated and sent.
LEMMA StreamStep ==
    ASSUME AnswerInv, StreamToken
    PROVE  AnswerInv'
  <1>1. PICK token \in Tokens :
           raw' = Append(raw, token) /\ shown' = Append(shown, Rehydrate(token, mapping))
    BY DEF StreamToken, Hydrated
  <1>2. /\ Types /\ Order /\ PromptIsMade /\ ShownIsRehydrated
        /\ pc = "stream" /\ pc' = "stream"
        /\ UNCHANGED <<engine, query, effective, asked, mapping, sources, prompt, outcome>>
    BY DEF StreamToken, AnswerInv, Streams, inputVars, promptVars
  <1>3. token \in Seq(Pieces)
    BY AnswerAssumption
  <1>4. Types'
    BY <1>1, <1>2, <1>3 DEF Types
  <1>5. Order' /\ outcome' # "answered"
    BY <1>2 DEF Order, Before
  <1>6. PromptIsMade'
    BY <1>2 DEF PromptIsMade
  <1>7. ShownIsRehydrated'
    <2> DEFINE n == Len(raw)
               R(x) == Rehydrate(x, mapping)
               s == [i \in DOMAIN raw |-> R(raw[i])]
    <2>1. raw \in Seq(Seq(Pieces)) /\ shown = s /\ mapping' = mapping /\ mapping \in Mappings
      BY <1>2 DEF Types, ShownIsRehydrated
    <2>2. n \in Nat /\ DOMAIN raw = 1 .. n /\ \A i \in 1 .. n : raw[i] \in Seq(Pieces)
      BY <2>1
    <2>3. \A x \in Seq(Pieces) : R(x) \in Seq(Pieces)
      BY <2>1, RehydrateFacts
    <2>4. DOMAIN raw' = 1 .. n + 1 /\ raw'[n + 1] = token /\ \A i \in 1 .. n : raw'[i] = raw[i]
      BY <1>1, <1>3, <2>1
    <2> HIDE DEF R, n
    <2>5. s \in Seq(Seq(Pieces)) /\ Len(s) = n /\ \A i \in 1 .. n : s[i] = R(raw[i])
      BY <2>2, <2>3
    <2> DEFINE t == Append(s, R(token))
    <2> HIDE DEF s
    <2>6. t \in Seq(Seq(Pieces)) /\ Len(t) = n + 1
          /\ \A i \in 1 .. n + 1 : t[i] = IF i \in 1 .. n THEN s[i] ELSE R(token)
      BY <1>3, <2>2, <2>3, <2>5
    <2>7. shown' = t
      BY <1>1, <2>1 DEF R
    <2> HIDE DEF t
    <2>8. \A i \in 1 .. n + 1 : t[i] = R(raw'[i])
      <3>1. \A i \in 1 .. n + 1 : i \in 1 .. n \/ i = n + 1
        BY <2>2
      <3>2. n + 1 \notin 1 .. n
        BY <2>2
      <3> QED
        BY <2>2, <2>4, <2>5, <2>6, <3>1, <3>2
    <2>9. t = [i \in 1 .. n + 1 |-> R(raw'[i])]
      BY <2>2, <2>6, <2>8
    <2> QED
      BY <2>1, <2>4, <2>7, <2>9 DEF ShownIsRehydrated, R
  <1> QED
    BY <1>4, <1>5, <1>6, <1>7 DEF AnswerInv

\* The answer is stored as a whole.
LEMMA FinishStep ==
    ASSUME AnswerInv, Finish
    PROVE  AnswerInv'
  <1>1. /\ Types /\ Order /\ PromptIsMade /\ ShownIsRehydrated
        /\ pc = "finish" /\ pc' = "ended"
        /\ UNCHANGED <<engine, query, effective, asked, mapping, sources, prompt, raw, shown>>
    BY DEF Finish, AnswerInv, Streams, End, GoOn, inputVars
  <1>2. Types'
    BY <1>1 DEF Types
  <1>3. Order'
    BY <1>1 DEF Order, Before
  <1>4. PromptIsMade'
    BY <1>1 DEF PromptIsMade
  <1>5. ShownIsRehydrated'
    BY <1>1 DEF ShownIsRehydrated
  <1>6. StoredIsFinished'
    <2>1. UNCHANGED settled
      BY <1>1 DEF settled
    <2>2. stored' = [text |-> Sanitized(FullResponse),
                     citations |-> CitationsIn(FullResponse)]
      BY DEF Finish
    <2> QED
      BY <2>1, <2>2, SettledAnswer DEF StoredIsFinished
  <1> QED
    BY <1>2, <1>3, <1>4, <1>5, <1>6 DEF AnswerInv

\* Nothing happens.
LEMMA IdleStep ==
    ASSUME AnswerInv, UNCHANGED vars
    PROVE  AnswerInv'
  <1>1. UNCHANGED settled /\ pc' = pc /\ outcome' = outcome /\ stored' = stored
        /\ effective' = effective
    BY DEF vars, settled, inputVars, promptVars
  <1>2. effective \in Seq(Atoms) /\ pc \in Before \cup Streams \cup {"ended"}
    BY DEF AnswerInv, Types
  <1>3. CASE outcome # "answered"
    BY <1>1, <1>2, <1>3, SettledStep
  <1>4. CASE outcome = "answered"
    <2>1. Types' /\ Order'
      BY <1>1 DEF AnswerInv, Types, Order, settled
    <2>2. PromptIsMade'
      BY <1>1, <1>4 DEF AnswerInv, PromptIsMade, settled
    <2>3. ShownIsRehydrated'
      BY <1>1, <1>4 DEF AnswerInv, ShownIsRehydrated, settled
    <2>4. StoredIsFinished'
      BY <1>1, <1>4, SettledAnswer DEF AnswerInv, StoredIsFinished
    <2> QED
      BY <2>1, <2>2, <2>3, <2>4 DEF AnswerInv
  <1> QED
    BY <1>3, <1>4

\* Every question is in a state of the invariant.
THEOREM AnswerInvariant == Spec => []AnswerInv
  <1>1. Init => AnswerInv
    <2> SUFFICES ASSUME Init PROVE AnswerInv
      OBVIOUS
    <2>1. query \in Seq(Atoms) /\ <<>> \in Seq(Atoms) /\ <<>> \in Seq(Pieces)
          /\ <<>> \in Seq(Chunks) /\ <<>> \in Seq(Seq(Pieces))
      BY AnswerAssumption DEF Init
    <2>2. <<>> \in Mappings
      <3>1. <<>> \in [{} -> Values]
        OBVIOUS
      <3> QED
        BY <3>1, MappingFacts
    <2>3. Types
      BY <2>1, <2>2 DEF Init, Types, Before
    <2>4. Order /\ prompt = None /\ pc \notin Streams /\ outcome # "answered"
      BY DEF Init, Order, Streams, Before
    <2> QED
      BY <2>3, <2>4 DEF AnswerInv
  <1>2. AnswerInv /\ [Next]_vars => AnswerInv'
    <2> SUFFICES ASSUME AnswerInv, [Next]_vars PROVE AnswerInv'
      OBVIOUS
    <2>1. CASE KeepQuery \/ RewriteQuery \/ RewriteRetried \/ RewriteFails
      BY <2>1, RewriteStep
    <2>2. CASE EmbedQuery \/ EmbedRetried \/ EmbedFails \/ StreamEnds \/ Interrupt
      BY <2>2, GoingOnStep
    <2>3. CASE RedactQuery
      BY <2>3, RedactQueryStep
    <2>4. CASE RetrieveAndRerank
      BY <2>4, RetrieveStep
    <2>5. CASE Refuse
      BY <2>5, RefuseStep
    <2>6. CASE BuildPrompt
      BY <2>6, BuildPromptStep
    <2>7. CASE StreamToken
      BY <2>7, StreamStep
    <2>8. CASE Finish
      BY <2>8, FinishStep
    <2>9. CASE UNCHANGED vars
      BY <2>9, IdleStep
    <2> QED
      BY <2>1, <2>2, <2>3, <2>4, <2>5, <2>6, <2>7, <2>8, <2>9 DEF Next, Serve
  <1> QED
    BY <1>1, <1>2, PTL DEF Spec

\* What the client was sent is the answer that is stored, but for what is taken out of it,
\* when no placeholder of the mapping was split: rehydrating what was sent again changes
\* nothing, as nothing of the mapping is in it, nor comes into it by joining.
THEOREM ShownAnswerIsStored == Spec => []ShownIsStored
  <1>1. AnswerInv => ShownIsStored
    <2> SUFFICES ASSUME AnswerInv, outcome = "answered", NoneIsSplit
                 PROVE  stored.text = Sanitized(Joined(shown))
      BY DEF ShownIsStored
    <2>1. /\ raw \in Seq(Seq(Pieces)) /\ mapping \in Mappings
          /\ shown = [i \in DOMAIN raw |-> Rehydrate(raw[i], mapping)]
          /\ stored.text = Sanitized(FullResponse)
      BY DEF AnswerInv, Types, ShownIsRehydrated, StoredIsFinished
    <2>2. Rehydrate(Joined(shown), mapping) = FullResponse
      BY <2>1, RehydratedJoins DEF FullResponse
    <2>3. FlattenSeq(shown) = Rehydrate(FlattenSeq(raw), mapping)
          /\ FlattenSeq(raw) \in Seq(Pieces)
      BY <2>1, FlattenRehydrated, FlattenElements
    <2>4. FlattenSeq(raw) \in Seq(NotSplit(mapping))
      <3> DEFINE x == FlattenSeq(raw)
      <3>1. x \in Seq(Pieces)
            /\ \A p \in Range(x) : p.is \in {"head", "tail"} => p.of \notin DOMAIN mapping
        BY <2>3 DEF NoneIsSplit
      <3> HIDE DEF x
      <3>2. \A i \in 1 .. Len(x) : x[i] \in NotSplit(mapping)
        BY <3>1 DEF Range, NotSplit
      <3>3. x \in Seq(NotSplit(mapping))
        BY <3>1, <3>2
      <3> QED
        BY <3>3 DEF x
    <2>5. FlattenSeq(shown) \in Seq(LeftBy(mapping))
      BY <2>1, <2>3, <2>4, RehydratedIsLeft
    <2>6. Rehydrate(Join(FlattenSeq(shown)), mapping) = Join(FlattenSeq(shown))
      BY <2>1, <2>5, JoinIsLeft
    <2> QED
      BY <2>1, <2>2, <2>6 DEF Joined, Join
  <1> QED
    BY <1>1, AnswerInvariant, PTL

\* A stored answer cites what its text marks, each once and in order, and the chunk it
\* cites is the one the prompt showed under that number.
THEOREM CitationsNameTheirSources == Spec => []CitationsAreSources
  <1>1. AnswerInv => CitationsAreSources
    <2> SUFFICES ASSUME AnswerInv, outcome = "answered" PROVE CitationsAreSources
      BY DEF CitationsAreSources
    <2> DEFINE text == FullResponse
               citations == stored.citations
               marked == {p.n : p \in {q \in Range(stored.text) : q.is = "marker"}}
               n == Len(sources)
    <2>1. /\ Types /\ PromptIsMade
          /\ stored.text = Sanitized(text)
          /\ citations = CitationsIn(text)
      BY DEF AnswerInv, StoredIsFinished
    <2>2. text \in Seq(Pieces)
      <3>1. raw \in Seq(Seq(Pieces)) /\ mapping \in Mappings
        BY <2>1 DEF Types
      <3>2. FlattenSeq(raw) \in Seq(Pieces)
        BY <3>1, FlattenElements
      <3>3. Joined(raw) \in Seq(Pieces)
        BY <3>2, JoinFacts DEF Joined, Join
      <3> QED
        BY <3>1, <3>3, RehydrateFacts DEF FullResponse
    <2>3. sources \in Seq(Chunks) /\ n \in Nat /\ DOMAIN sources = 1 .. n
          /\ DOMAIN prompt.context = 1 .. n
      BY <2>1 DEF Types, PromptIsMade
    <2> HIDE DEF text, n
    <2>4. /\ \A i \in DOMAIN citations :
                /\ citations[i].index \in Cited(text)
                /\ citations[i].chunk = sources[citations[i].index].id
          /\ \A x \in Cited(text) : \E i \in DOMAIN citations : citations[i].index = x
          /\ \A i, j \in DOMAIN citations : i < j => citations[i].index < citations[j].index
      BY <2>1, <2>2, <2>3, CitationsFacts
    <2>5. marked = Cited(text)
      BY <2>1, <2>2, KeptPieces DEF Cited, IsCitation, IsDropped
    <2> HIDE DEF citations, marked
    <2>6. {c.index : c \in Range(citations)} = marked
      BY <2>4, <2>5 DEF Range
    <2>7. ASSUME NEW c \in Range(citations)
          PROVE  \E s \in Chunks :
                    /\ s.id = c.chunk /\ s.title = prompt.context[c.index].title
                    /\ Redact(engine, s.text).text = prompt.context[c.index].content
      <3>1. PICK i \in DOMAIN citations : c = citations[i]
        BY <2>7 DEF Range
      <3>2. c.index \in 1 .. n
        BY <2>3, <2>4, <3>1 DEF Cited, IsCitation
      <3>3. sources[c.index] \in Chunks /\ sources[c.index].id = c.chunk
        BY <2>3, <2>4, <3>1, <3>2
      <3>4. /\ prompt.context[c.index].title = sources[c.index].title
            /\ prompt.context[c.index].content = Redact(engine, sources[c.index].text).text
        BY <2>1, <2>3, <3>2 DEF PromptIsMade
      <3> QED
        BY <3>3, <3>4
    <2> QED
      BY <2>4, <2>6, <2>7 DEF CitationsAreSources, citations, marked
  <1> QED
    BY <1>1, AnswerInvariant, PTL

-------------------------------------------------------------------------------
(* What comes back. *)

\* The redactions of the texts of the prompt.
QueryRedaction == Redact(engine, effective)
ChunkRedactions == [i \in DOMAIN sources |-> Redact(engine, sources[i].text)]

\* The prompt and the mapping are made of them, and stay.
TextsAreRedacted ==
    /\ pc \in {"embed", "retrieve", "ground"} \/ prompt # None => asked = QueryRedaction.text
    /\ pc \in {"embed", "retrieve", "ground"} => mapping = QueryRedaction.mapping
    /\ prompt # None => mapping = Merged(QueryRedaction.mapping, ChunkRedactions)

\* The texts of the prompt are texts.
LEMMA OriginalText ==
    ASSUME Types, NEW i \in Texts
    PROVE  Original(i) \in Seq(Pieces)
  <1> DEFINE n == Len(sources)
  <1>1. n \in Nat /\ i \in 0 .. n /\ \A j \in 1 .. n : sources[j] \in Chunks
    BY DEF Types, Texts
  <1>2. Atoms \subseteq Pieces
    BY PieceKinds
  <1>3. effective \in Seq(Pieces)
    BY <1>2 DEF Types
  <1>4. \A c \in Chunks : c.text \in Seq(Pieces)
    BY <1>2, AnswerAssumption
  <1> HIDE DEF n
  <1>5. i = 0 \/ i \in 1 .. n
    BY <1>1
  <1> QED
    BY <1>1, <1>3, <1>4, <1>5 DEF Original

\* The prompt has the redaction of each.
LEMMA TextInPrompt ==
    ASSUME Types, PromptIsMade, asked = QueryRedaction.text, NEW i \in Texts
    PROVE  InPrompt(i) = Redact(engine, Original(i)).text
  <1> DEFINE n == Len(sources)
  <1>1. n \in Nat /\ i \in 0 .. n /\ DOMAIN sources = 1 .. n
    BY DEF Types, Texts
  <1> HIDE DEF n
  <1>2. i = 0 \/ i \in DOMAIN sources
    BY <1>1
  <1> QED
    BY <1>1, <1>2 DEF InPrompt, Original, PromptIsMade, QueryRedaction

\* A step that leaves them alone keeps it.
LEMMA SameTexts ==
    ASSUME TextsAreRedacted, UNCHANGED <<engine, effective, asked, mapping, sources, prompt>>,
           pc' \in {"embed", "retrieve", "ground"} => pc \in {"embed", "retrieve", "ground"}
    PROVE  TextsAreRedacted'
  BY DEF TextsAreRedacted, QueryRedaction, ChunkRedactions

\* Texts and mapping are what redaction has made of them.
LEMMA RedactedInvariant == Spec => []TextsAreRedacted
  <1>1. Init => TextsAreRedacted
    BY DEF Init, TextsAreRedacted
  <1>2. AnswerInv /\ TextsAreRedacted /\ [Next]_vars => TextsAreRedacted'
    <2> SUFFICES ASSUME AnswerInv, TextsAreRedacted, [Next]_vars PROVE TextsAreRedacted'
      OBVIOUS
    <2>1. pc \in Before => prompt = None
      BY DEF AnswerInv, Order
    <2>2. CASE KeepQuery \/ RewriteQuery \/ RewriteRetried \/ RewriteFails
      <3>1. pc = "rewrite" /\ pc' \in {"rewrite", "redact"} /\ UNCHANGED prompt
        BY <2>2 DEF KeepQuery, RewriteQuery, RewriteRetried, RewriteFails, Rewritten, Retry,
                    GivesUp, GoOn
      <3> QED
        BY <2>1, <3>1 DEF TextsAreRedacted, Before
    <2>3. CASE RedactQuery
      <3>1. /\ pc = "redact" /\ UNCHANGED <<engine, effective, prompt>>
            /\ asked' = QueryRedaction.text /\ mapping' = QueryRedaction.mapping
        BY <2>3 DEF RedactQuery, QueryRedaction, inputVars
      <3>2. prompt' = None /\ QueryRedaction' = QueryRedaction
        BY <2>1, <3>1 DEF Before, QueryRedaction
      <3> QED
        BY <3>1, <3>2 DEF TextsAreRedacted
    <2>4. CASE RetrieveAndRerank
      <3>1. /\ pc = "retrieve"
            /\ UNCHANGED <<engine, effective, asked, mapping, prompt>>
        BY <2>4 DEF RetrieveAndRerank, inputVars
      <3>2. prompt' = None /\ QueryRedaction' = QueryRedaction
        BY <2>1, <3>1 DEF Before, QueryRedaction
      <3> QED
        BY <3>1, <3>2 DEF TextsAreRedacted
    <2>5. CASE BuildPrompt
      <3>1. /\ pc = "ground" /\ pc' = "stream"
            /\ UNCHANGED <<engine, effective, asked, sources>>
            /\ mapping' = Merged(mapping, ChunkRedactions)
        BY <2>5 DEF BuildPrompt, GoOn, ChunkRedactions, inputVars
      <3>2. QueryRedaction' = QueryRedaction /\ ChunkRedactions' = ChunkRedactions
        BY <3>1 DEF QueryRedaction, ChunkRedactions
      <3>3. asked = QueryRedaction.text /\ mapping = QueryRedaction.mapping
        BY <3>1 DEF TextsAreRedacted
      <3> QED
        BY <3>1, <3>2, <3>3 DEF TextsAreRedacted
    <2>6. CASE \/ EmbedQuery \/ EmbedRetried \/ EmbedFails \/ Refuse \/ StreamToken
               \/ StreamEnds \/ Finish \/ Interrupt
      <3>1. UNCHANGED <<engine, effective, asked, mapping, sources, prompt>>
        BY <2>6 DEF EmbedQuery, EmbedRetried, EmbedFails, Refuse, StreamToken, StreamEnds,
                    Finish, Interrupt, Retry, Fail, inputVars, promptVars
      <3>2. pc' \in {"embed", "retrieve", "ground"} => pc \in {"embed", "retrieve", "ground"}
        BY <2>6 DEF EmbedQuery, EmbedRetried, EmbedFails, Refuse, StreamToken, StreamEnds,
                    Finish, Interrupt, Retry, Fail, End, GoOn
      <3> QED
        BY <3>1, <3>2, SameTexts
    <2>7. CASE UNCHANGED vars
      BY <2>7, SameTexts DEF vars, inputVars, promptVars
    <2> QED
      BY <2>2, <2>3, <2>4, <2>5, <2>6, <2>7 DEF Next, Serve
  <1> QED
    BY <1>1, <1>2, AnswerInvariant, PTL DEF Spec

\* Nothing that the engine recognizes in a query or in a chunk's content goes to the model
\* whole: the prompt has what the redaction of each makes of it, which is made of pieces of
\* that text, each in its place, and of placeholders, and has not all of any span that was
\* recognized.  Presidio's spans are taken out or begin within one that is; the fallback's
\* need that its patterns still match what the others have left of a text.
THEOREM PromptsAreRedacted ==
    ASSUME MatchesStay
    PROVE  Spec => []PromptIsRedacted
  <1>1. AnswerInv /\ TextsAreRedacted => PromptIsRedacted
    <2> DEFINE done(i) == Redact(engine, Original(i))
    <2> SUFFICES ASSUME AnswerInv, TextsAreRedacted, prompt # None, NEW i \in Texts
                 PROVE  /\ InPrompt(i) = done(i).text
                        /\ \A k \in DOMAIN done(i).text :
                              IF done(i).places[k] = 0
                              THEN done(i).text[k].is = "placeholder"
                              ELSE done(i).text[k] = Original(i)[done(i).places[k]]
                        /\ \A s \in Recognized(engine, Original(i)) :
                              ~ (s.from .. s.to \subseteq Remaining(done(i)))
      BY DEF PromptIsRedacted
    <2>1. Types /\ PromptIsMade /\ asked = QueryRedaction.text
      BY DEF AnswerInv, TextsAreRedacted
    <2>2. Original(i) \in Seq(Pieces) /\ engine \in Engines
      BY <2>1, OriginalText DEF Types
    <2>3. /\ IsOf(Original(i), done(i))
          /\ \A s \in Recognized(engine, Original(i)) :
                ~ (s.from .. s.to \subseteq Remaining(done(i)))
      BY <2>2, RedactFacts
    <2>4. \A k \in DOMAIN done(i).text :
             IF done(i).places[k] = 0
             THEN done(i).text[k].is = "placeholder"
             ELSE done(i).text[k] = Original(i)[done(i).places[k]]
      BY <2>3 DEF IsOf, Placeholders
    <2>5. InPrompt(i) = done(i).text
      BY <2>1, TextInPrompt
    <2> QED
      BY <2>3, <2>4, <2>5
  <1> QED
    BY <1>1, AnswerInvariant, RedactedInvariant, PTL

\* The mapping of the request gives back every text of the prompt whose placeholders stand
\* for nothing else in another text, and that had none of its own: for each name the
\* merged mapping says what one of the texts says, and this one says the same.
THEOREM UnsharedTextsAreRestored == Spec => []UnsharedIsRestored
  <1>1. AnswerInv /\ TextsAreRedacted => UnsharedIsRestored
    <2> SUFFICES ASSUME AnswerInv, TextsAreRedacted, prompt # None,
                        NEW i \in Texts, \A j \in Texts : ~ Clash(i, j)
                 PROVE  Rehydrate(InPrompt(i), mapping) = Original(i)
      BY DEF UnsharedIsRestored
    <2> DEFINE n == Len(sources)
               reds == ChunkRedactions
    <2>1. /\ Types /\ PromptIsMade
          /\ asked = QueryRedaction.text
          /\ mapping = Merged(QueryRedaction.mapping, reds)
      BY DEF AnswerInv, TextsAreRedacted
    <2>2. n \in Nat /\ DOMAIN sources = 1 .. n /\ Texts = 0 .. n
          /\ \A j \in 1 .. n : sources[j] \in Chunks
      BY <2>1 DEF Types, Texts
    <2>3. \A j \in Texts : Original(j) \in Seq(Pieces)
      BY <2>1, OriginalText
    <2>4. \A j \in Texts : Redact(engine, Original(j)) \in Redactions
      BY <2>1, <2>3, RedactFacts DEF Types
    <2>5. QueryRedaction = Redact(engine, Original(0))
      BY DEF QueryRedaction, Original
    <2>6. DOMAIN reds = 1 .. n
          /\ \A j \in 1 .. n : reds[j] = Redact(engine, Original(j))
      BY <2>2 DEF ChunkRedactions, Original
    <2> HIDE DEF n, reds
    <2>7. reds \in Seq(Redactions) /\ Len(reds) = n
      <3>1. \A j \in 1 .. n : reds[j] \in Redactions
        BY <2>2, <2>4, <2>6
      <3>2. reds = [j \in 1 .. n |-> reds[j]]
        BY <2>6 DEF reds, ChunkRedactions
      <3> QED
        BY <2>2, <3>1, <3>2
    <2>8. /\ mapping \in Mappings
          /\ \A j \in Texts : DOMAIN MappingOf(j) \subseteq DOMAIN mapping
          /\ \A p \in DOMAIN mapping : \E j \in Texts :
                p \in DOMAIN MappingOf(j) /\ mapping[p] = MappingOf(j)[p]
      <3> DEFINE m == MappingOf(0)
      <3>1. m = QueryRedaction.mapping /\ m \in Mappings
        BY <2>2, <2>4, <2>5 DEF MappingOf, Redactions
      <3>2. \A j \in 1 .. n : reds[j].mapping = MappingOf(j)
        BY <2>6 DEF MappingOf
      <3>3. mapping = Merged(m, reds)
        BY <2>1, <3>1
      <3> HIDE DEF m
      <3>4. /\ mapping \in Mappings
            /\ DOMAIN m \subseteq DOMAIN mapping
            /\ \A j \in 1 .. n : DOMAIN reds[j].mapping \subseteq DOMAIN mapping
            /\ \A p \in DOMAIN mapping :
                  \/ p \in DOMAIN m /\ mapping[p] = m[p]
                  \/ \E j \in 1 .. n :
                        p \in DOMAIN reds[j].mapping /\ mapping[p] = reds[j].mapping[p]
        BY <2>7, <3>1, <3>3, MergedFacts
      <3>5. 0 \in Texts /\ \A j \in 1 .. n : j \in Texts
        BY <2>2
      <3>6. \A j \in Texts : j = 0 \/ j \in 1 .. n
        BY <2>2
      <3> QED
        BY <3>2, <3>4, <3>5, <3>6 DEF m
    <2>9. InPrompt(i) = Redact(engine, Original(i)).text
      BY <2>1, TextInPrompt
    <2>10. GivesBack(mapping, MappingOf(i))
      BY <2>8 DEF GivesBack, Clash
    <2>11. Range(Original(i)) \cap DOMAIN mapping = {}
      BY <2>8 DEF Clash
    <2> QED
      BY <2>1, <2>3, <2>8, <2>9, <2>10, <2>11, RedactComesBack DEF Types, MappingOf
  <1> QED
    BY <1>1, AnswerInvariant, RedactedInvariant, PTL
================================================================================
