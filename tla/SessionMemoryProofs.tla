------------------------- MODULE SessionMemoryProofs -------------------------
(***************************************************************************)
(* Proofs about SessionMemory: for any turns, any budget and any reserve,  *)
(* an assembled history loses no turn and keeps to the budget.  What a sum *)
(* of tokens comes to plays no part in the arguments.                      *)
(***************************************************************************)
EXTENDS SessionMemory, FoldLemmas

\* A part of a part of a sequence is a part of it.
LEMMA PartOfPart ==
    ASSUME NEW T, NEW s \in Seq(T), NEW a \in 1 .. Len(s) + 1,
           NEW c \in 1 .. Len(s) - a + 2, NEW d \in c - 1 .. Len(s) - a + 1
    PROVE  SubSeq(SubSeq(s, a, Len(s)), c, d) = SubSeq(s, a + c - 1, a + d - 1)
  <1> DEFINE p == SubSeq(s, a, Len(s))
  <1>1. p \in Seq(T) /\ Len(p) = Len(s) - a + 1 /\ \A i \in 1 .. Len(p) : p[i] = s[a + i - 1]
    OBVIOUS
  <1> HIDE DEF p
  <1>2. SubSeq(p, c, d) = SubSeq(s, a + c - 1, a + d - 1)
    BY <1>1
  <1> QED
    BY <1>2 DEF p

\* The loop over the older turns ends at a turn, or right after the last of them.
LEMMA FirstVerbatimIsThere ==
    ASSUME NEW T, NEW turns \in Seq(T)
    PROVE  /\ TailFirst(turns) \in 1 .. Len(turns) + 1
           /\ FirstVerbatim(turns) \in 1 .. TailFirst(turns)
           /\ \A k \in FirstVerbatim(turns) .. TailFirst(turns) - 1 : FitsFrom(turns, k)
  <1> DEFINE tail == TailFirst(turns)
             Fitting(i) == \A k \in i .. tail - 1 : FitsFrom(turns, k)
             Starts == {i \in 1 .. tail : Fitting(i)}
  <1>1. tail \in Nat /\ 1 <= tail /\ tail <= Len(turns) + 1
    BY MemoryAssumption DEF TailFirst, Larger
  <1> HIDE DEF tail
  <1>2. Starts \in SUBSET Nat /\ Starts # {}
    BY <1>1
  <1>3. PICK x \in Starts : \A y \in Starts : x <= y
    <2> HIDE DEF Starts
    <2> QED
      BY <1>2, LeastElement
  <1>4. ASSUME x > 1, FitsFrom(turns, x - 1)
        PROVE  FALSE
    <2>1. \A k \in x - 1 .. tail - 1 : k = x - 1 \/ k \in x .. tail - 1
      BY <1>1, <1>3
    <2>2. x - 1 \in Starts
      BY <1>1, <1>3, <1>4, <2>1
    <2> QED
      BY <1>1, <1>3, <2>2
  <1>5. \E i \in 1 .. tail : Fitting(i) /\ (i > 1 => ~ FitsFrom(turns, i - 1))
    BY <1>3, <1>4
  <1> HIDE DEF Fitting
  <1>6. FirstVerbatim(turns) = CHOOSE i \in 1 .. tail :
                                   Fitting(i) /\ (i > 1 => ~ FitsFrom(turns, i - 1))
    BY DEF FirstVerbatim, tail, Fitting
  <1>7. FirstVerbatim(turns) \in 1 .. tail /\ Fitting(FirstVerbatim(turns))
    BY <1>5, <1>6
  <1> QED
    BY <1>1, <1>7 DEF tail, Fitting

\* Each turn is in the assembled history or, if the summarizing call works, in its
\* summary.
LEMMA AssembledCovers ==
    ASSUME NEW T, NEW turns \in Seq(T), NEW works \in BOOLEAN, NEW i \in DOMAIN turns,
           AssembleHistory(turns, works).summary # {}
    PROVE  \/ turns[i].message \in MessagesOf(AssembleHistory(turns, works).verbatim)
           \/ /\ AssembleHistory(turns, works).upto # 0
              /\ turns[i].message \in AssembleHistory(turns, works).summary
  <1> DEFINE f == FirstVerbatim(turns)
             made == AssembleHistory(turns, works)
  <1>1. CASE FitsBudget(turns)
    BY <1>1 DEF AssembleHistory, MessagesOf
  <1>2. CASE ~ FitsBudget(turns)
    <2>1. i \in 1 .. Len(turns) /\ f \in 1 .. Len(turns)
      <3>1. i \in 1 .. Len(turns) /\ TailFirst(turns) <= Len(turns)
        BY MemoryAssumption DEF TailFirst, Larger
      <3> QED
        BY <3>1, FirstVerbatimIsThere
    <2> HIDE DEF f
    <2>2. made.verbatim = SubSeq(turns, f, Len(turns)) /\ made.upto = f
      BY <1>2 DEF AssembleHistory, Verbatim, f
    <2>3. made.summary = MessagesOf(SubSeq(turns, 1, f))
      BY <1>2 DEF AssembleHistory, NeedingSummary, f
    <2> HIDE DEF made
    <2>4. CASE i < f
      <3>1. i \in DOMAIN SubSeq(turns, 1, f) /\ SubSeq(turns, 1, f)[i] = turns[i]
        BY <2>1, <2>4
      <3>2. turns[i].message \in made.summary /\ made.upto # 0
        BY <2>1, <2>2, <2>3, <3>1 DEF MessagesOf
      <3> QED
        BY <3>2 DEF made
    <2>5. CASE i >= f
      <3>1. /\ i - f + 1 \in DOMAIN SubSeq(turns, f, Len(turns))
            /\ SubSeq(turns, f, Len(turns))[i - f + 1] = turns[i]
        BY <2>1, <2>5
      <3>2. turns[i].message \in MessagesOf(made.verbatim)
        BY <2>2, <3>1 DEF MessagesOf
      <3> QED
        BY <3>2 DEF made
    <2> QED
      BY <2>1, <2>4, <2>5
  <1> QED
    BY <1>1, <1>2

\* A history that is kept whole fits the budget; one that is not keeps of its older
\* turns what fits beside the last ones and the reserve.
LEMMA AssembledFits ==
    ASSUME NEW T, NEW turns \in Seq(T), NEW works \in BOOLEAN
    PROVE  LET kept == AssembleHistory(turns, works).verbatim
               older == Len(kept) - MinVerbatimTurns
           IN  IF AssembleHistory(turns, works).upto = 0
               THEN TokenSum(kept) <= HistoryBudget
               ELSE older > 0 =>
                       TokenSum(SubSeq(kept, 1, older)) <=
                           Larger(0, EffectiveBudget -
                                       TokenSum(SubSeq(kept, older + 1, Len(kept))))
  <1> DEFINE f == FirstVerbatim(turns)
             tail == TailFirst(turns)
             kept == SubSeq(turns, f, Len(turns))
             older == Len(kept) - MinVerbatimTurns
  <1>1. CASE FitsBudget(turns)
    BY <1>1 DEF AssembleHistory, FitsBudget
  <1>2. CASE ~ FitsBudget(turns)
    <2>1. /\ tail \in 1 .. Len(turns) + 1 /\ f \in 1 .. tail
          /\ \A k \in f .. tail - 1 : FitsFrom(turns, k)
      BY FirstVerbatimIsThere
    <2>2. AssembleHistory(turns, works).verbatim = kept
          /\ AssembleHistory(turns, works).upto = f
      BY <1>2 DEF AssembleHistory, Verbatim
    <2>3. tail = Larger(1, Len(turns) - MinVerbatimTurns + 1)
      BY DEF TailFirst
    <2> HIDE DEF f, tail
    <2>4. Len(kept) = Len(turns) - f + 1
      BY <2>1
    <2>5. ASSUME older > 0
          PROVE  TokenSum(SubSeq(kept, 1, older)) <=
                     Larger(0, EffectiveBudget - TokenSum(SubSeq(kept, older + 1, Len(kept))))
      <3>1. tail = Len(turns) - MinVerbatimTurns + 1 /\ f < tail /\ older = tail - f
        BY <2>1, <2>3, <2>4, <2>5, MemoryAssumption DEF Larger
      <3> HIDE DEF older
      <3>2. SubSeq(kept, 1, older) = SubSeq(turns, f, tail - 1)
        <4>1. /\ f \in 1 .. Len(turns) + 1 /\ 1 \in 1 .. Len(turns) - f + 2
              /\ older \in 1 - 1 .. Len(turns) - f + 1
              /\ f + 1 - 1 = f /\ f + older - 1 = tail - 1
          BY <2>1, <3>1
        <4> QED
          BY <4>1, PartOfPart
      <3>3. SubSeq(kept, older + 1, Len(kept)) = SubSeq(turns, tail, Len(turns))
        <4> DEFINE next == older + 1
                   last == Len(kept)
        <4>1. /\ f \in 1 .. Len(turns) + 1 /\ next \in 1 .. Len(turns) - f + 2
              /\ last \in next - 1 .. Len(turns) - f + 1
              /\ f + next - 1 = tail /\ f + last - 1 = Len(turns)
          BY <2>1, <2>4, <3>1
        <4> HIDE DEF next, last
        <4>2. SubSeq(kept, next, last) = SubSeq(turns, tail, Len(turns))
          BY <4>1, PartOfPart
        <4> QED
          BY <4>2 DEF next, last
      <3>4. FitsFrom(turns, f)
        BY <2>1, <3>1
      <3> QED
        BY <3>2, <3>3, <3>4 DEF FitsFrom, RemainingBudget, TailTokens, tail
    <2> QED
      BY <2>1, <2>2, <2>5
  <1> QED
    BY <1>1, <1>2
==============================================================================
