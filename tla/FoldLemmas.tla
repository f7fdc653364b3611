------------------------------ MODULE FoldLemmas ------------------------------
(***************************************************************************)
(* What the recursive definitions of the models compute, one step at a     *)
(* time: that a recursion over 0 .. n, or over the sets of numbers up to n *)
(* as FoldLeft runs it, has a solution; how FlattenSeq grows; and that the *)
(* elements of a finite set can be counted off in the order of a key.      *)
(* Induction is a least counterexample in a set of numbers.                *)
(***************************************************************************)
EXTENDS Integers, SequencesExt, FiniteSetTheorems, WellFoundedInduction, TLAPS

-------------------------------------------------------------------------------
(* Induction and recursion over an interval. *)

\* A set of numbers that is not empty has a least element.
LEMMA LeastElement ==
    ASSUME NEW T \in SUBSET Nat, T # {}
    PROVE  \E x \in T : \A y \in T : x <= y
  <1> DEFINE R == OpToRel(<, Nat)
  <1>1. IsWellFoundedOn(R, Nat)
    BY NatLessThanWellFounded
  <1>2. \A x, y \in Nat : y < x => <<y, x>> \in R
    BY DEF OpToRel
  <1> HIDE DEF R
  <1>3. PICK x \in T : \A y \in T : ~ (<<y, x>> \in R)
    BY <1>1, WFMin
  <1>4. ASSUME NEW y \in T
        PROVE  x <= y
    <2>1. x \in Nat /\ y \in Nat /\ ~ (y < x)
      BY <1>2, <1>3
    <2> QED
      BY <2>1
  <1> QED
    BY <1>4

\* A set of positions that holds the first and with each the next holds them all.
LEMMA IntervalInduction ==
    ASSUME NEW n \in Nat, NEW Good, 0 \in Good,
           \A i \in 1 .. n : i - 1 \in Good => i \in Good
    PROVE  \A i \in 0 .. n : i \in Good
  <1> DEFINE Bad == (0 .. n) \ Good
  <1> SUFFICES ASSUME Bad # {} PROVE FALSE
    OBVIOUS
  <1>1. Bad \in SUBSET Nat
    OBVIOUS
  <1>2. PICK x \in Bad : \A y \in Bad : x <= y
    <2> HIDE DEF Bad
    <2> QED
      BY <1>1, LeastElement
  <1>3. x \in 1 .. n /\ x - 1 \in 0 .. n /\ x - 1 \notin Bad
    BY <1>2
  <1> QED
    BY <1>2, <1>3

\* The runs over n positions that start with a value and go on by a function.
RunsOver(A, a0, n, f) ==
    {g \in [0 .. n -> A] : g[0] = a0 /\ \A i \in 1 .. n : g[i] = f[i][g[i - 1]]}

\* Functions of values can be run over any number of positions.
LEMMA RunExists ==
    ASSUME NEW A, NEW a0 \in A, NEW n \in Nat, NEW f \in [1 .. n -> [A -> A]]
    PROVE  RunsOver(A, a0, n, f) # {}
  <1> DEFINE Runs(m) == {g \in [0 .. m -> A] :
                            g[0] = a0 /\ \A i \in 1 .. m : g[i] = f[i][g[i - 1]]}
             Bad == {m \in 0 .. n : Runs(m) = {}}
  <1>1. 0 \notin Bad
    <2> DEFINE g == [i \in 0 .. 0 |-> a0]
    <2>1. g \in Runs(0)
      OBVIOUS
    <2> QED
      BY <2>1
  <1>2. ASSUME NEW m \in 1 .. n, m - 1 \notin Bad
        PROVE  m \notin Bad
    <2>1. m - 1 \in 0 .. n /\ m - 1 + 1 = m
      OBVIOUS
    <2>2. PICK g \in [0 .. m - 1 -> A] :
              g[0] = a0 /\ \A i \in 1 .. m - 1 : g[i] = f[i][g[i - 1]]
      BY <1>2, <2>1
    <2> DEFINE h == [i \in 0 .. m |-> IF i = m THEN f[m][g[m - 1]] ELSE g[i]]
    <2>3. f[m][g[m - 1]] \in A
      OBVIOUS
    <2>4. h \in [0 .. m -> A]
      BY <2>3
    <2>5. h[0] = a0 /\ h[m] = f[m][h[m - 1]]
      <3>1. 0 \in 0 .. m /\ m \in 0 .. m /\ m - 1 \in 0 .. m /\ m # 0 /\ m - 1 # m
        OBVIOUS
      <3> QED
        BY <2>2, <3>1
    <2>6. \A i \in 1 .. m - 1 : h[i] = f[i][h[i - 1]]
      BY <2>2
    <2> HIDE DEF h
    <2>7. \A i \in 1 .. m : h[i] = f[i][h[i - 1]]
      <3>1. \A i \in 1 .. m : i = m \/ i \in 1 .. m - 1
        OBVIOUS
      <3> QED
        BY <2>5, <2>6, <3>1
    <2> QED
      BY <2>4, <2>5, <2>7
  <1>3. Bad = {}
    <2> SUFFICES ASSUME Bad # {} PROVE FALSE
      OBVIOUS
    <2>1. Bad \in SUBSET Nat
      OBVIOUS
    <2> HIDE DEF Bad
    <2>2. PICK m \in Bad : \A k \in Bad : m <= k
      BY <2>1, LeastElement
    <2>3. m \in 0 .. n
      BY DEF Bad
    <2>4. m \in 1 .. n /\ m - 1 \notin Bad
      BY <1>1, <2>2, <2>3
    <2> QED
      BY <1>2, <2>2, <2>4
  <1>4. n \notin Bad
    BY <1>3
  <1> QED
    BY <1>4 DEF RunsOver

-------------------------------------------------------------------------------
(* FoldLeft: a recursion over sets of positions that takes out the greatest. *)

\* The greatest position of a set of positions is one of them.
LEMMA GreatestPosition ==
    ASSUME NEW n \in Nat, NEW S \in SUBSET (1 .. n), S # {}
    PROVE  /\ Max(S) \in S
           /\ \A y \in S : Max(S) >= y
  <1> DEFINE T == {n - x : x \in S}
  <1>1. T \in SUBSET Nat /\ T # {}
    <2>1. \A x \in S : x \in 1 .. n /\ n - x \in Nat
      OBVIOUS
    <2> QED
      BY <2>1
  <1>2. PICK t \in T : \A y \in T : t <= y
    <2> HIDE DEF T
    <2> QED
      BY <1>1, LeastElement
  <1>3. PICK x \in S : t = n - x
    BY <1>2
  <1>4. \A y \in S : x >= y
    <2> SUFFICES ASSUME NEW y \in S PROVE x >= y
      OBVIOUS
    <2>1. n - y \in T
      OBVIOUS
    <2>2. x \in 1 .. n /\ y \in 1 .. n
      OBVIOUS
    <2> QED
      BY <1>2, <1>3, <2>1, <2>2
  <1> QED
    BY <1>4 DEF Max

\* The solutions of the recursion that FoldLeft runs over n positions.
FoldsOver(A, a0, n, f) ==
    {h \in [SUBSET (1 .. n) -> A] :
       \A S \in SUBSET (1 .. n) :
          h[S] = IF S = {} THEN a0 ELSE f[Max(S)][h[S \ {Max(S)}]]}

\* There is one.
LEMMA FoldExists ==
    ASSUME NEW A, NEW a0 \in A, NEW n \in Nat, NEW f \in [1 .. n -> [A -> A]]
    PROVE  FoldsOver(A, a0, n, f) # {}
  <1> DEFINE Folds(m) ==
                {h \in [SUBSET (1 .. m) -> A] :
                   \A S \in SUBSET (1 .. m) :
                      h[S] = IF S = {} THEN a0 ELSE f[Max(S)][h[S \ {Max(S)}]]}
             Bad == {m \in 0 .. n : Folds(m) = {}}
  <1>1. 0 \notin Bad
    <2> DEFINE h == [S \in SUBSET (1 .. 0) |-> a0]
    <2>1. \A S \in SUBSET (1 .. 0) : S = {}
      OBVIOUS
    <2>2. h \in [SUBSET (1 .. 0) -> A]
      OBVIOUS
    <2>3. h \in Folds(0)
      BY <2>1, <2>2
    <2> QED
      BY <2>3
  <1>2. ASSUME NEW m \in 1 .. n, m - 1 \notin Bad
        PROVE  m \notin Bad
    <2>1. m - 1 \in 0 .. n
      OBVIOUS
    <2>2. PICK h \in Folds(m - 1) : TRUE
      BY <1>2, <2>1
    <2>3. /\ h \in [SUBSET (1 .. m - 1) -> A]
          /\ \A S \in SUBSET (1 .. m - 1) :
                h[S] = IF S = {} THEN a0 ELSE f[Max(S)][h[S \ {Max(S)}]]
      BY <2>2
    <2> DEFINE g == [S \in SUBSET (1 .. m) |->
                       IF m \in S THEN f[m][h[S \ {m}]] ELSE h[S]]
    <2>4. \A S \in SUBSET (1 .. m) : /\ S \ {m} \in SUBSET (1 .. m - 1)
                                     /\ m \notin S => S \in SUBSET (1 .. m - 1)
      OBVIOUS
    <2>5. g \in [SUBSET (1 .. m) -> A]
      BY <2>3, <2>4
    <2>6. ASSUME NEW S \in SUBSET (1 .. m)
          PROVE  g[S] = IF S = {} THEN a0 ELSE f[Max(S)][g[S \ {Max(S)}]]
      <3>1. CASE m \in S
        <4>1. Max(S) = m
          <5>1. Max(S) \in S /\ Max(S) >= m
            <6>1. m \in Nat /\ S # {}
              BY <3>1
            <6> HIDE DEF g
            <6> QED
              BY <3>1, <6>1, GreatestPosition
          <5>2. Max(S) \in 1 .. m
            BY <5>1
          <5> QED
            BY <5>1, <5>2
        <4>2. g[S] = f[m][h[S \ {m}]]
          BY <3>1
        <4>3. S \ {m} \in SUBSET (1 .. m) /\ m \notin S \ {m}
          OBVIOUS
        <4>4. g[S \ {m}] = h[S \ {m}]
          BY <4>3
        <4> HIDE DEF g
        <4> QED
          BY <3>1, <4>1, <4>2, <4>4
      <3>2. CASE m \notin S
        <4>1. g[S] = h[S] /\ S \in SUBSET (1 .. m - 1)
          BY <2>4, <3>2
        <4>2. \A x : S \ {x} \in SUBSET (1 .. m) /\ m \notin S \ {x}
          BY <3>2
        <4>3. \A x : g[S \ {x}] = h[S \ {x}]
          BY <4>2
        <4> HIDE DEF g
        <4> QED
          BY <2>3, <4>1, <4>3
      <3> QED
        BY <3>1, <3>2
    <2> HIDE DEF g
    <2>7. g \in Folds(m)
      BY <2>5, <2>6
    <2> QED
      BY <2>7
  <1>3. Bad = {}
    <2> SUFFICES ASSUME Bad # {} PROVE FALSE
      OBVIOUS
    <2>1. Bad \in SUBSET Nat
      OBVIOUS
    <2> HIDE DEF Bad
    <2>2. PICK m \in Bad : \A k \in Bad : m <= k
      BY <2>1, LeastElement
    <2>3. m \in 0 .. n
      BY DEF Bad
    <2>4. m \in 1 .. n /\ m - 1 \notin Bad
      BY <1>1, <2>2, <2>3
    <2> QED
      BY <1>2, <2>2, <2>4
  <1>4. Folds(n) # {}
    <2>1. n \in 0 .. n /\ n \notin Bad
      <3> HIDE DEF Bad
      <3> QED
        BY <1>3
    <2> HIDE DEF Folds
    <2> QED
      BY <2>1
  <1> QED
    BY <1>4 DEF FoldsOver

\* FoldLeft goes from the first position to the last.
LEMMA FoldOrder ==
    ASSUME NEW n \in Nat, NEW i \in 1 .. n
    PROVE  /\ (1 .. i) \in SUBSET (1 .. n) /\ 1 .. i # {}
           /\ Max(1 .. i) = i
           /\ (1 .. i) \ {i} = 1 .. i - 1
  <1>1. (1 .. i) \in SUBSET (1 .. n) /\ i \in 1 .. i
    OBVIOUS
  <1>2. Max(1 .. i) \in 1 .. i /\ Max(1 .. i) >= i
    BY <1>1, GreatestPosition
  <1>3. (1 .. i) \ {i} = 1 .. i - 1
    OBVIOUS
  <1> QED
    BY <1>1, <1>2, <1>3

\* A solution of FoldLeft's recursion whose steps are those of functions, as long as what
\* they are given is a value, runs from the first position to the last.
FollowsOver(A, a0, n, f, h) ==
    /\ h[{}] = a0
    /\ \A S \in SUBSET (1 .. n) :
          S # {} /\ h[S \ {Max(S)}] \in A => h[S] = f[Max(S)][h[S \ {Max(S)}]]

\* Such a solution is a run, and it ends where a function defined along the positions ends.
LEMMA FoldRuns ==
    ASSUME NEW A, NEW a0 \in A, NEW n \in Nat, NEW f \in [1 .. n -> [A -> A]], NEW h,
           FollowsOver(A, a0, n, f, h)
    PROVE  [i \in 0 .. n |-> h[1 .. i]] \in RunsOver(A, a0, n, f)
  <1> DEFINE g == [i \in 0 .. n |-> h[1 .. i]]
             Good == {i \in 0 .. n : g[i] \in A}
  <1>1. g[0] = a0
    <2>1. 1 .. 0 = {} /\ 0 \in 0 .. n
      OBVIOUS
    <2>2. g[0] = h[1 .. 0]
      BY <2>1
    <2> HIDE DEF g
    <2> QED
      BY <2>1, <2>2 DEF FollowsOver
  <1>2. ASSUME NEW i \in 1 .. n, g[i - 1] \in A
        PROVE  g[i] = f[i][g[i - 1]]
    <2>1. i \in 0 .. n /\ i - 1 \in 0 .. n
      OBVIOUS
    <2>2. g[i] = h[1 .. i] /\ g[i - 1] = h[1 .. i - 1]
      BY <2>1
    <2>3. /\ (1 .. i) \in SUBSET (1 .. n) /\ 1 .. i # {}
          /\ Max(1 .. i) = i
          /\ (1 .. i) \ {i} = 1 .. i - 1
      BY FoldOrder
    <2> HIDE DEF g
    <2> DEFINE S == 1 .. i
               T == 1 .. i - 1
    <2>4. S \in SUBSET (1 .. n) /\ S # {} /\ Max(S) = i /\ S \ {i} = T /\ h[T] \in A
      BY <1>2, <2>2, <2>3
    <2> HIDE DEF S, T
    <2>5. h[S] = f[i][h[T]]
      BY <2>4 DEF FollowsOver
    <2> QED
      BY <2>2, <2>5 DEF S, T
  <1>3. \A i \in 0 .. n : i \in Good
    <2>1. 0 \in Good
      <3>1. 0 \in 0 .. n
        OBVIOUS
      <3> HIDE DEF g
      <3> QED
        BY <1>1, <3>1
    <2>2. ASSUME NEW i \in 1 .. n, i - 1 \in Good
          PROVE  i \in Good
      <3>1. i \in 0 .. n
        OBVIOUS
      <3> HIDE DEF g
      <3>2. g[i] = f[i][g[i - 1]] /\ g[i - 1] \in A
        BY <1>2, <2>2
      <3>3. f[i][g[i - 1]] \in A
        BY <3>2
      <3> QED
        BY <3>1, <3>2, <3>3
    <2> HIDE DEF Good
    <2> QED
      BY <2>1, <2>2, IntervalInduction
  <1>4. \A i \in 0 .. n : g[i] \in A
    <2> HIDE DEF g
    <2> QED
      BY <1>3
  <1>5. g \in [0 .. n -> A]
    BY <1>4
  <1>6. \A i \in 1 .. n : i - 1 \in 0 .. n
    OBVIOUS
  <1> HIDE DEF g
  <1>7. g \in RunsOver(A, a0, n, f)
    BY <1>1, <1>2, <1>4, <1>5, <1>6 DEF RunsOver
  <1> QED
    BY <1>7 DEF g

-------------------------------------------------------------------------------
(* FlattenSeq. *)

\* The elements of a sequence and another after it.
LEMMA RangeConcat ==
    ASSUME NEW T, NEW s \in Seq(T), NEW t \in Seq(T)
    PROVE  \A x : x \in Range(s \o t) <=> x \in Range(s) \/ x \in Range(t)
  <1> SUFFICES ASSUME NEW x PROVE x \in Range(s \o t) <=> x \in Range(s) \/ x \in Range(t)
    OBVIOUS
  <1> DEFINE m == Len(s)
             n == Len(t)
  <1>1. m \in Nat /\ n \in Nat /\ s \o t \in Seq(T) /\ Len(s \o t) = m + n
    OBVIOUS
  <1>2. ASSUME NEW i \in 1 .. m + n
        PROVE  \/ i \in 1 .. m /\ (s \o t)[i] = s[i]
               \/ i - m \in 1 .. n /\ (s \o t)[i] = t[i - m]
    BY <1>1
  <1>3. ASSUME NEW i \in 1 .. m
        PROVE  i \in 1 .. m + n /\ (s \o t)[i] = s[i]
    BY <1>1
  <1>4. ASSUME NEW i \in 1 .. n
        PROVE  i + m \in 1 .. m + n /\ (s \o t)[i + m] = t[i]
    BY <1>1
  <1>5. DOMAIN s = 1 .. m /\ DOMAIN t = 1 .. n /\ DOMAIN (s \o t) = 1 .. m + n
    BY <1>1
  <1> DEFINE u == s \o t
  <1> HIDE DEF m, n, u
  <1>6. Range(s) = {s[i] : i \in 1 .. m} /\ Range(t) = {t[i] : i \in 1 .. n}
        /\ Range(u) = {u[i] : i \in 1 .. m + n}
    BY <1>5 DEF Range, u
  <1>7. x \in Range(s) => x \in Range(u)
    BY <1>3, <1>6 DEF u
  <1>8. x \in Range(t) => x \in Range(u)
    BY <1>4, <1>6 DEF u
  <1>9. x \in Range(u) => x \in Range(s) \/ x \in Range(t)
    <2> SUFFICES ASSUME NEW i \in 1 .. m + n, x = u[i]
                 PROVE  x \in Range(s) \/ x \in Range(t)
      BY <1>6
    <2>1. CASE i \in 1 .. m /\ u[i] = s[i]
      BY <1>6, <2>1
    <2>2. CASE i - m \in 1 .. n /\ u[i] = t[i - m]
      BY <1>6, <2>2
    <2> QED
      BY <1>2, <2>1, <2>2 DEF u
  <1> QED
    BY <1>7, <1>8, <1>9 DEF u

\* A flattened sequence is made by appending one of its sequences after the other.
LEMMA FlattenRun ==
    ASSUME NEW T, NEW seqs \in Seq(Seq(T))
    PROVE  \E g \in [0 .. Len(seqs) -> Seq(T)] :
              /\ g[0] = <<>>
              /\ \A i \in 1 .. Len(seqs) : g[i] = g[i - 1] \o seqs[i]
              /\ FlattenSeq(seqs) = g[Len(seqs)]
  <1> DEFINE n == Len(seqs)
             f == [i \in 1 .. n |-> [s \in Seq(T) |-> s \o seqs[i]]]
  <1>1. n \in Nat /\ \A i \in 1 .. n : seqs[i] \in Seq(T)
    OBVIOUS
  <1>2. f \in [1 .. n -> [Seq(T) -> Seq(T)]]
    BY <1>1
  <1>3. \A s \in Seq(T), i \in 1 .. n : f[i][s] = s \o seqs[i]
    OBVIOUS
  <1>4. PICK g \in [0 .. n -> Seq(T)] :
            g[0] = <<>> /\ \A i \in 1 .. n : g[i] = f[i][g[i - 1]]
    <2> DEFINE A == Seq(T)
               a0 == <<>>
    <2>1. n \in Nat /\ a0 \in A /\ f \in [1 .. n -> [A -> A]]
      BY <1>1, <1>2
    <2> HIDE DEF n, f, A, a0
    <2>2. RunsOver(A, a0, n, f) # {}
      BY ONLY <2>1, RunExists
    <2> QED
      BY <2>2 DEF RunsOver, A, a0
  <1>5. \A i \in 1 .. n : i - 1 \in 0 .. n
    BY <1>1
  <1>6. \A i \in 1 .. n : g[i] = g[i - 1] \o seqs[i]
    <2> SUFFICES ASSUME NEW i \in 1 .. n PROVE g[i] = g[i - 1] \o seqs[i]
      OBVIOUS
    <2>1. g[i - 1] \in Seq(T)
      BY <1>5
    <2> HIDE DEF f
    <2> QED
      BY <1>3, <1>4, <2>1
  <1> HIDE DEF f
  <1>7. FlattenSeq(seqs) = g[n]
    <2>1. CASE n = 0
      <3>1. seqs = <<>>
        BY <2>1
      <3> QED
        BY <1>4, <2>1, <3>1 DEF FlattenSeq
    <2>2. CASE n # 0
      <3> DEFINE IsFlat(h) == h = [i \in 1 .. n |-> IF i = 1 THEN seqs[i] ELSE h[i - 1] \o seqs[i]]
                 flat == CHOOSE h : IsFlat(h)
      <3>1. FlattenSeq(seqs) = flat[n]
        BY <2>2 DEF FlattenSeq
      <3>2. g[1] = seqs[1]
        <4>1. 1 \in 1 .. n /\ 1 - 1 = 0
          BY <1>1, <2>2
        <4>2. g[1] = <<>> \o seqs[1] /\ seqs[1] \in Seq(T)
          BY <1>1, <1>4, <1>6, <4>1
        <4> QED
          BY <4>2
      <3> DEFINE h == [i \in 1 .. n |-> g[i]]
      <3>3. IsFlat(h)
        <4>1. ASSUME NEW i \in 1 .. n
              PROVE  h[i] = IF i = 1 THEN seqs[i] ELSE h[i - 1] \o seqs[i]
          <5>1. CASE i = 1
            BY <3>2, <5>1
          <5>2. CASE i # 1
            <6>1. i - 1 \in 1 .. n
              BY <1>1, <5>2
            <6>2. h[i - 1] = g[i - 1] /\ h[i] = g[i]
              BY <6>1
            <6> HIDE DEF h
            <6> QED
              BY <1>6, <5>2, <6>2
          <5> QED
            BY <5>1, <5>2
        <4>2. h = [i \in 1 .. n |-> h[i]]
          OBVIOUS
        <4> HIDE DEF h
        <4> QED
          BY <4>1, <4>2
      <3>4. IsFlat(flat)
        <4> HIDE DEF IsFlat, h
        <4> QED
          BY <3>3
      <3>5. \A i \in 1 .. n : flat[i] = IF i = 1 THEN seqs[i] ELSE flat[i - 1] \o seqs[i]
        <4> HIDE DEF flat
        <4> QED
          BY <3>4
      <3> HIDE DEF flat, h
      <3> DEFINE Good == {i \in 0 .. n : i = 0 \/ flat[i] = g[i]}
      <3>6. ASSUME NEW i \in 1 .. n, i - 1 \in Good
            PROVE  i \in Good
        <4>1. CASE i = 1
          BY <3>2, <3>5, <4>1
        <4>2. CASE i # 1
          <5>1. flat[i - 1] = g[i - 1] /\ i \in 0 .. n
            BY <3>6, <4>2
          <5>2. flat[i] = flat[i - 1] \o seqs[i]
            BY <3>5, <4>2
          <5> QED
            BY <1>6, <5>1, <5>2
        <4> QED
          BY <4>1, <4>2
      <3>7. 0 \in Good
        BY <1>1
      <3>8. n \in Good
        <4>1. n \in 0 .. n
          BY <1>1
        <4> HIDE DEF Good, n
        <4> QED
          BY <1>1, <3>6, <3>7, <4>1, IntervalInduction
      <3> QED
        BY <2>2, <3>1, <3>8
    <2> QED
      BY <2>1, <2>2
  <1> QED
    BY <1>4, <1>6, <1>7

\* What has been appended so far is a prefix of what there will be.
FlatRuns(T, seqs) ==
    {g \in [0 .. Len(seqs) -> Seq(T)] :
       \A i \in 1 .. Len(seqs) : g[i] = g[i - 1] \o seqs[i]}

Growing(n, g) ==
    \A j \in 0 .. n : \A i \in 0 .. j :
       /\ Len(g[i]) <= Len(g[j])
       /\ \A p \in 1 .. Len(g[i]) : g[j][p] = g[i][p]

\* What has been flattened so far is a prefix of what is flattened later.
LEMMA FlattenPrefixes ==
    ASSUME NEW T, NEW seqs \in Seq(Seq(T)), NEW g \in FlatRuns(T, seqs)
    PROVE  Growing(Len(seqs), g)
  <1> USE DEF FlatRuns
  <1> DEFINE n == Len(seqs)
             Extends(i, j) == /\ Len(g[i]) <= Len(g[j])
                              /\ \A p \in 1 .. Len(g[i]) : g[j][p] = g[i][p]
             Good == {j \in 0 .. n : \A i \in 0 .. j : Extends(i, j)}
  <1>1. n \in Nat /\ \A i \in 0 .. n : g[i] \in Seq(T) /\ Len(g[i]) \in Nat
    OBVIOUS
  <1>2. \A i \in 1 .. n : g[i] = g[i - 1] \o seqs[i]
    OBVIOUS
  <1>7. \A i \in 1 .. n : seqs[i] \in Seq(T)
    OBVIOUS
  <1> HIDE DEF n
  <1>3. \A i \in 0 .. n : Extends(i, i)
    BY <1>1
  <1>4. 0 \in Good
    <2>1. 0 \in 0 .. n /\ \A i \in 0 .. 0 : i = 0
      BY <1>1
    <2> HIDE DEF Extends
    <2> QED
      BY <1>3, <2>1
  <1>5. ASSUME NEW j \in 1 .. n, j - 1 \in Good
        PROVE  j \in Good
    <2>1. j \in 0 .. n /\ j - 1 \in 0 .. n
      BY <1>1
    <2>2. Extends(j - 1, j)
      <3> DEFINE s == g[j - 1]
                 t == seqs[j]
      <3>1. g[j] = s \o t /\ s \in Seq(T) /\ t \in Seq(T)
        BY <1>1, <1>2, <1>7, <2>1
      <3> HIDE DEF s, t
      <3>2. Len(s \o t) = Len(s) + Len(t) /\ Len(s) \in Nat /\ Len(t) \in Nat
            /\ \A p \in 1 .. Len(s) : (s \o t)[p] = s[p]
        BY <3>1
      <3>3. Len(s) <= Len(s \o t)
        BY <3>2
      <3> QED
        BY <3>1, <3>2, <3>3 DEF s
    <2>3. ASSUME NEW i \in 0 .. j
          PROVE  Extends(i, j)
      <3>1. i = j \/ i \in 0 .. j - 1
        BY <1>1
      <3>2. CASE i = j
        <4> HIDE DEF Extends
        <4> QED
          BY <1>3, <2>1, <3>2
      <3>3. CASE i \in 0 .. j - 1
        <4>1. Extends(i, j - 1)
          BY <1>5, <3>3
        <4>2. i \in 0 .. n
          BY <1>1, <2>1, <3>3
        <4> DEFINE a == Len(g[i])
                   b == Len(g[j - 1])
                   c == Len(g[j])
        <4>3. a \in Nat /\ b \in Nat /\ c \in Nat /\ a <= b /\ b <= c
          BY <1>1, <2>1, <2>2, <4>1, <4>2
        <4> HIDE DEF a, b, c
        <4>4. a <= c /\ \A p \in 1 .. a : p \in 1 .. b
          BY <4>3
        <4> QED
          BY <2>2, <4>1, <4>4 DEF a, b, c
      <3> QED
        BY <3>1, <3>2, <3>3
    <2> HIDE DEF Extends
    <2> QED
      BY <2>1, <2>3
  <1>6. \A j \in 0 .. n : j \in Good
    <2> HIDE DEF Good
    <2> QED
      BY <1>1, <1>4, <1>5, IntervalInduction
  <1> QED
    BY <1>6 DEF n, Growing

\* Every place of a flattened sequence comes from one of its sequences.
LEMMA FlattenPlaces ==
    ASSUME NEW T, NEW seqs \in Seq(Seq(T)), NEW g \in [0 .. Len(seqs) -> Seq(T)],
           g[0] = <<>>,
           NEW p \in 1 .. Len(g[Len(seqs)])
    PROVE  \E i \in 1 .. Len(seqs) : Len(g[i - 1]) < p /\ p <= Len(g[i])
  <1> DEFINE n == Len(seqs)
             S == {i \in 0 .. n : p <= Len(g[i])}
  <1>1. n \in Nat /\ n \in 0 .. n /\ \A i \in 0 .. n : Len(g[i]) \in Nat
    OBVIOUS
  <1>2. S \in SUBSET Nat /\ n \in S
    BY <1>1
  <1>3. p \in Nat /\ p > 0
    <2>1. Len(g[n]) \in Nat /\ p \in 1 .. Len(g[n])
      BY <1>1
    <2> HIDE DEF n
    <2> QED
      BY <2>1
  <1> HIDE DEF n
  <1>4. PICK i \in S : \A j \in S : i <= j
    <2> HIDE DEF S
    <2> QED
      BY <1>2, LeastElement
  <1>5. i # 0
    <2>1. Len(g[0]) = 0
      OBVIOUS
    <2> QED
      BY <1>3, <1>4, <2>1
  <1>6. i \in 1 .. n /\ i - 1 \in 0 .. n /\ i - 1 \notin S
    BY <1>1, <1>4, <1>5
  <1>7. p <= Len(g[i]) /\ ~ (p <= Len(g[i - 1])) /\ Len(g[i - 1]) \in Nat
    BY <1>1, <1>4, <1>6
  <1>8. Len(g[i - 1]) < p
    <2> DEFINE a == Len(g[i - 1])
    <2>1. a \in Nat /\ ~ (p <= a)
      BY <1>7
    <2> HIDE DEF a
    <2>2. a < p
      BY <1>3, <2>1
    <2> QED
      BY <2>2 DEF a
  <1> QED
    BY <1>6, <1>7, <1>8 DEF n

\* Where each of the sequences ends in the flattened one.
Singles(seqs) == \A i \in 1 .. Len(seqs) : Len(seqs[i]) <= 1

IsPlacing(seqs, flat, at) ==
    /\ at[0] = 0 /\ at[Len(seqs)] = Len(flat)
    /\ \A i \in 1 .. Len(seqs) :
          /\ at[i] = at[i - 1] + Len(seqs[i])
          /\ Len(seqs[i]) = 1 => flat[at[i]] = seqs[i][1]
    /\ \A p \in 1 .. Len(flat) : \E i \in 1 .. Len(seqs) : Len(seqs[i]) = 1 /\ at[i] = p

\* When no sequence has more than one element, each element has a place of its own, and
\* every place is of one of them.
LEMMA FlattenSingles ==
    ASSUME NEW T, NEW seqs \in Seq(Seq(T)), Singles(seqs)
    PROVE  \E at \in [0 .. Len(seqs) -> Nat] : IsPlacing(seqs, FlattenSeq(seqs), at)
  <1> DEFINE n == Len(seqs)
             flat == FlattenSeq(seqs)
  <1>1. PICK g \in [0 .. n -> Seq(T)] :
            /\ g[0] = <<>>
            /\ \A i \in 1 .. n : g[i] = g[i - 1] \o seqs[i]
            /\ flat = g[n]
    BY FlattenRun
  <1>2. n \in Nat /\ \A i \in 1 .. n : i \in 0 .. n /\ i - 1 \in 0 .. n
    OBVIOUS
  <1>3. \A i \in 1 .. n : seqs[i] \in Seq(T)
    OBVIOUS
  <1>4. \A i \in 0 .. n : g[i] \in Seq(T) /\ Len(g[i]) \in Nat
    OBVIOUS
  <1> DEFINE at == [i \in 0 .. n |-> Len(g[i])]
  <1>5. at \in [0 .. n -> Nat] /\ at[0] = 0 /\ at[n] = Len(flat)
    <2>1. 0 \in 0 .. n /\ Len(g[0]) = 0
      BY <1>1, <1>2
    <2> QED
      BY <1>1, <1>2, <1>4, <2>1
  <1>6. \A j \in 0 .. n : \A i \in 0 .. j : \A p \in 1 .. Len(g[i]) : g[j][p] = g[i][p]
    <2>1. g \in FlatRuns(T, seqs)
      BY <1>1 DEF FlatRuns
    <2> HIDE DEF n, at, flat
    <2>2. Growing(Len(seqs), g)
      BY <2>1, FlattenPrefixes
    <2> QED
      BY <2>2 DEF Growing, n
  <1>7. ASSUME NEW i \in 1 .. n
        PROVE  /\ at[i] = at[i - 1] + Len(seqs[i])
               /\ Len(seqs[i]) \in {0, 1}
               /\ Len(seqs[i]) = 1 => flat[at[i]] = seqs[i][1]
    <2> DEFINE s == g[i - 1]
               t == seqs[i]
    <2>1. s \in Seq(T) /\ t \in Seq(T) /\ g[i] = s \o t /\ Len(t) <= 1
      BY <1>1, <1>2, <1>3, <1>4 DEF Singles
    <2>2. at[i] = Len(g[i]) /\ at[i - 1] = Len(s)
      BY <1>2
    <2> HIDE DEF s, t, at
    <2>3. /\ Len(s \o t) = Len(s) + Len(t) /\ Len(s) \in Nat /\ Len(t) \in {0, 1}
          /\ Len(t) = 1 => (s \o t)[Len(s) + 1] = t[1]
      <3>1. Len(s) \in Nat /\ Len(t) \in Nat /\ Len(t) <= 1
        BY <2>1
      <3>2. Len(s \o t) = Len(s) + Len(t)
        BY <2>1
      <3>3. ASSUME Len(t) = 1
            PROVE  (s \o t)[Len(s) + 1] = t[1]
        <4>1. Len(s) + 1 \in 1 .. Len(s) + Len(t) /\ ~ (Len(s) + 1 <= Len(s))
              /\ Len(s) + 1 - Len(s) = 1
          BY <3>1, <3>3
        <4> QED
          BY <2>1, <4>1
      <3> DEFINE l == Len(t)
      <3>4. l \in Nat /\ l <= 1
        BY <3>1
      <3> HIDE DEF l
      <3>5. l \in {0, 1}
        BY <3>4
      <3> QED
        BY <3>1, <3>2, <3>3, <3>5 DEF l
    <2>4. ASSUME Len(t) = 1
          PROVE  flat[at[i]] = t[1]
      <3>1. at[i] = Len(s) + 1 /\ at[i] \in 1 .. Len(g[i])
        BY <2>1, <2>2, <2>3, <2>4
      <3>2. n \in 0 .. n /\ i \in 0 .. n
        BY <1>2
      <3>3. g[n][at[i]] = g[i][at[i]]
        BY <1>6, <3>1, <3>2
      <3>4. g[i][at[i]] = t[1]
        BY <2>1, <2>3, <2>4, <3>1
      <3> QED
        BY <1>1, <3>3, <3>4
    <2> QED
      BY <2>1, <2>2, <2>3, <2>4 DEF t
  <1>8. ASSUME NEW p \in 1 .. Len(flat)
        PROVE  \E i \in 1 .. n : Len(seqs[i]) = 1 /\ at[i] = p
    <2>1. p \in 1 .. Len(g[n])
      BY <1>1
    <2>2. PICK i \in 1 .. n : Len(g[i - 1]) < p /\ p <= Len(g[i])
      BY <1>1, <2>1, FlattenPlaces
    <2>3. /\ at[i] = Len(g[i]) /\ at[i - 1] = Len(g[i - 1])
          /\ at[i] \in Nat /\ at[i - 1] \in Nat
      BY <1>2, <1>5
    <2>4. at[i] = at[i - 1] + Len(seqs[i]) /\ Len(seqs[i]) \in {0, 1}
      BY <1>7
    <2> DEFINE a == at[i - 1]
               b == at[i]
               l == Len(seqs[i])
    <2>5. a \in Nat /\ b \in Nat /\ l \in {0, 1} /\ b = a + l /\ a < p /\ p <= b /\ p \in Int
      BY <2>1, <2>2, <2>3, <2>4
    <2> HIDE DEF a, b, l
    <2>6. l = 1 /\ b = p
      BY <2>5
    <2> QED
      BY <2>6 DEF b, l
  <1> HIDE DEF at, n, flat
  <1>9. /\ at \in [0 .. n -> Nat] /\ at[0] = 0 /\ at[n] = Len(flat)
        /\ \A i \in 1 .. n : /\ at[i] = at[i - 1] + Len(seqs[i])
                             /\ Len(seqs[i]) = 1 => flat[at[i]] = seqs[i][1]
        /\ \A p \in 1 .. Len(flat) : \E i \in 1 .. n : Len(seqs[i]) = 1 /\ at[i] = p
    BY <1>5, <1>7, <1>8
  <1> QED
    BY <1>9 DEF n, flat, IsPlacing

\* A set that holds the empty sequence and with each sequence those one longer holds all.
LEMMA AppendInduction ==
    ASSUME NEW T, NEW Good, <<>> \in Good,
           \A s \in Seq(T), x \in T : s \in Good => Append(s, x) \in Good
    PROVE  \A s \in Seq(T) : s \in Good
  <1> SUFFICES ASSUME NEW s \in Seq(T) PROVE s \in Good
    OBVIOUS
  <1> DEFINE n == Len(s)
             G == {i \in 0 .. n : SubSeq(s, 1, i) \in Good}
  <1>1. n \in Nat /\ 0 \in 0 .. n /\ n \in 0 .. n
    OBVIOUS
  <1>2. /\ SubSeq(s, 1, 0) = <<>> /\ SubSeq(s, 1, n) = s
        /\ \A i \in 1 .. n : /\ SubSeq(s, 1, i - 1) \in Seq(T) /\ s[i] \in T
                             /\ SubSeq(s, 1, i) = Append(SubSeq(s, 1, i - 1), s[i])
    <2> HIDE DEF G
    <2>1. SubSeq(s, 1, 0) = <<>> /\ SubSeq(s, 1, n) = s
      OBVIOUS
    <2>2. ASSUME NEW i \in 1 .. n
          PROVE  /\ SubSeq(s, 1, i - 1) \in Seq(T) /\ s[i] \in T
                 /\ SubSeq(s, 1, i) = Append(SubSeq(s, 1, i - 1), s[i])
      OBVIOUS
    <2> QED
      BY <2>1, <2>2
  <1> HIDE DEF n
  <1>3. 0 \in G
    BY <1>1, <1>2
  <1>4. ASSUME NEW i \in 1 .. n, i - 1 \in G
        PROVE  i \in G
    <2>1. i \in 0 .. n
      BY <1>1
    <2>2. Append(SubSeq(s, 1, i - 1), s[i]) \in Good
      BY <1>2, <1>4
    <2> QED
      BY <1>2, <2>1, <2>2
  <1>5. n \in G
    <2> HIDE DEF G
    <2> QED
      BY <1>1, <1>3, <1>4, IntervalInduction
  <1> QED
    BY <1>2, <1>5

\* Nothing to flatten.
LEMMA FlattenEmpty == FlattenSeq(<<>>) = <<>>
  BY DEF FlattenSeq

\* The elements of a flattened sequence are those of its sequences.
LEMMA FlattenElements ==
    ASSUME NEW T, NEW seqs \in Seq(Seq(T))
    PROVE  /\ FlattenSeq(seqs) \in Seq(T)
           /\ \A x : x \in Range(FlattenSeq(seqs)) <=>
                        \E i \in DOMAIN seqs : x \in Range(seqs[i])
  <1> DEFINE n == Len(seqs)
  <1>1. PICK g \in [0 .. n -> Seq(T)] :
            /\ g[0] = <<>> /\ \A i \in 1 .. n : g[i] = g[i - 1] \o seqs[i]
            /\ FlattenSeq(seqs) = g[n]
    BY FlattenRun
  <1>2. n \in Nat /\ DOMAIN seqs = 1 .. n /\ \A i \in 1 .. n : seqs[i] \in Seq(T)
    OBVIOUS
  <1> HIDE DEF n
  <1>3. \A i \in 1 .. n : i - 1 \in 0 .. n /\ i \in 0 .. n
    BY <1>2
  <1> DEFINE Good == {i \in 0 .. n : \A x : x \in Range(g[i]) <=>
                                              \E j \in 1 .. i : x \in Range(seqs[j])}
  <1>4. 0 \in Good
    <2>1. \A x : x \notin Range(g[0])
      BY <1>1 DEF Range
    <2>2. 0 \in 0 .. n /\ 1 .. 0 = {}
      BY <1>2
    <2> QED
      BY <2>1, <2>2
  <1>5. ASSUME NEW i \in 1 .. n, i - 1 \in Good
        PROVE  i \in Good
    <2> DEFINE a == g[i - 1]
               b == seqs[i]
    <2>1. a \in Seq(T) /\ b \in Seq(T) /\ g[i] = a \o b
      BY <1>1, <1>2, <1>3
    <2> HIDE DEF a, b
    <2>2. \A x : x \in Range(a \o b) <=> x \in Range(a) \/ x \in Range(b)
      BY <2>1, RangeConcat
    <2>3. \A x : x \in Range(a) <=> \E j \in 1 .. i - 1 : x \in Range(seqs[j])
      BY <1>5 DEF a
    <2>4. \A j : j \in 1 .. i <=> j \in 1 .. i - 1 \/ j = i
      BY <1>2
    <2>5. \A x : x \in Range(g[i]) <=> \E j \in 1 .. i : x \in Range(seqs[j])
      BY <2>1, <2>2, <2>3, <2>4 DEF b
    <2> QED
      BY <1>3, <2>5
  <1>6. n \in Good
    <2>1. n \in 0 .. n
      BY <1>2
    <2> HIDE DEF Good
    <2> QED
      BY <1>2, <1>4, <1>5, <2>1, IntervalInduction
  <1> QED
    BY <1>1, <1>2, <1>6

\* FlattenSeq appends the last of its sequences to the others.
LEMMA FlattenAppend ==
    ASSUME NEW T, NEW seqs \in Seq(Seq(T)), NEW s \in Seq(T)
    PROVE  FlattenSeq(Append(seqs, s)) = FlattenSeq(seqs) \o s
  <1> DEFINE n == Len(seqs)
             more == Append(seqs, s)
             m == Len(more)
  <1>1. n \in Nat /\ more \in Seq(Seq(T)) /\ m = n + 1 /\ more[n + 1] = s
        /\ \A i \in 1 .. n : more[i] = seqs[i]
    OBVIOUS
  <1>2. PICK g \in [0 .. n -> Seq(T)] :
            /\ g[0] = <<>> /\ \A i \in 1 .. n : g[i] = g[i - 1] \o seqs[i]
            /\ FlattenSeq(seqs) = g[n]
    BY FlattenRun
  <1> HIDE DEF more
  <1>3. PICK h \in [0 .. m -> Seq(T)] :
            /\ h[0] = <<>> /\ \A i \in 1 .. m : h[i] = h[i - 1] \o more[i]
            /\ FlattenSeq(more) = h[m]
    BY <1>1, FlattenRun
  <1> HIDE DEF n, m
  <1> DEFINE Good == {i \in 0 .. n : g[i] = h[i]}
  <1>4. 0 \in Good
    BY <1>1, <1>2, <1>3
  <1>5. ASSUME NEW i \in 1 .. n, i - 1 \in Good
        PROVE  i \in Good
    <2>1. i \in 0 .. n /\ i \in 1 .. m
      BY <1>1
    <2> QED
      BY <1>1, <1>2, <1>3, <1>5, <2>1
  <1>6. g[n] = h[n]
    <2>1. n \in 0 .. n
      BY <1>1
    <2>2. n \in Good
      <3> HIDE DEF Good
      <3> QED
        BY <1>1, <1>4, <1>5, <2>1, IntervalInduction
    <2> QED
      BY <2>2
  <1>7. h[m] = h[n] \o s
    <2>1. m \in 1 .. m /\ m - 1 = n /\ more[m] = s
      BY <1>1
    <2>2. h[m] = h[m - 1] \o more[m]
      BY <1>3, <2>1
    <2> QED
      BY <2>1, <2>2
  <1> QED
    BY <1>2, <1>3, <1>6, <1>7 DEF more
-------------------------------------------------------------------------------
(* The elements of a finite set in the order of a key. *)

\* How many elements have a lower key.
Below(S, k, c) == {d \in S : k[d] < k[c]}
Rank(S, k, c) == Cardinality(Below(S, k, c))

\* Ranks are numbers below the size of the set, and in the order of the keys.
LEMMA RankOrder ==
    ASSUME NEW S, IsFiniteSet(S), NEW k \in [S -> Int], NEW c \in S
    PROVE  /\ Rank(S, k, c) \in 0 .. Cardinality(S) - 1
           /\ \A d \in S : k[c] < k[d] => Rank(S, k, c) < Rank(S, k, d)
  <1>1. ASSUME NEW T \in SUBSET S, NEW x \in T, NEW U \in SUBSET T, x \notin U
        PROVE  /\ Cardinality(U) \in Nat /\ Cardinality(T) \in Nat
               /\ Cardinality(U) < Cardinality(T)
    <2>1. IsFiniteSet(T) /\ U \in SUBSET T /\ U # T
      BY <1>1, FS_Subset
    <2> QED
      BY <2>1, FS_Subset, FS_CardinalityType
  <1>2. c \notin Below(S, k, c) /\ \A d \in S : Below(S, k, d) \in SUBSET S
    BY DEF Below
  <1>3. Rank(S, k, c) \in 0 .. Cardinality(S) - 1
    BY <1>1, <1>2 DEF Rank
  <1>4. ASSUME NEW d \in S, k[c] < k[d]
        PROVE  Rank(S, k, c) < Rank(S, k, d)
    <2>1. c \in Below(S, k, d) /\ Below(S, k, c) \in SUBSET Below(S, k, d)
      BY <1>4 DEF Below
    <2> QED
      BY <1>1, <1>2, <2>1 DEF Rank
  <1> QED
    BY <1>3, <1>4

\* If keys are distinct, each number below the size of the set is one element's rank.
LEMMA RankIsTaken ==
    ASSUME NEW S, IsFiniteSet(S), NEW k \in [S -> Int],
           \A c, d \in S : k[c] = k[d] => c = d,
           NEW i \in 1 .. Cardinality(S)
    PROVE  \E c \in S : Rank(S, k, c) = i - 1
  <1> DEFINE n == Cardinality(S)
             r == [c \in S |-> Rank(S, k, c)]
             R == {r[c] : c \in S}
  <1>1. n \in Nat
    BY FS_CardinalityType
  <1>2. \A c \in S : r[c] \in 0 .. n - 1
    BY RankOrder
  <1>3. ASSUME NEW c \in S, NEW d \in S, r[c] = r[d]
        PROVE  c = d
    <2>1. k[c] \in Int /\ k[d] \in Int
      OBVIOUS
    <2>2. ~ (k[c] < k[d]) /\ ~ (k[d] < k[c])
      BY <1>2, <1>3, RankOrder
    <2> QED
      BY <2>1, <2>2
  <1>4. r \in Bijection(S, R)
    BY <1>3 DEF Bijection, Injection, Surjection, IsInjective
  <1>5. IsFiniteSet(R) /\ Cardinality(R) = n
    BY <1>4, FS_Bijection DEF ExistsBijection
  <1>6. IsFiniteSet(0 .. n - 1) /\ Cardinality(0 .. n - 1) = n
    <2> HIDE DEF n
    <2>1. 0 \in Int /\ n - 1 \in Int
      BY <1>1
    <2>2. IsFiniteSet(0 .. n - 1)
          /\ Cardinality(0 .. n - 1) = IF 0 > n - 1 THEN 0 ELSE n - 1 - 0 + 1
      BY <2>1, FS_Interval, Zenon
    <2> QED
      BY <1>1, <2>2
  <1>7. R = 0 .. n - 1
    <2>1. R \in SUBSET (0 .. n - 1)
      BY <1>2
    <2> HIDE DEF R, n
    <2> QED
      BY <1>5, <1>6, <2>1, FS_Subset
  <1>8. i - 1 \in R
    <2>1. i - 1 \in 0 .. n - 1
      BY <1>1
    <2> HIDE DEF R, n
    <2> QED
      BY <1>7, <2>1
  <1> QED
    BY <1>8

================================================================================
