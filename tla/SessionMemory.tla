---------------------------- MODULE SessionMemory ----------------------------
(***************************************************************************)
(* assemble_conversation_history: what a prompt carries of the turns that  *)
(* came before.  A turn is a record [ordinal, tokens, message]; ordinals   *)
(* are 1, 2, ... in the order of the sequence.  The only caller passes no  *)
(* existing summary and 0 for the ordinal it reaches to, so these two      *)
(* parameters are left out.  A summary is the set of messages it was made  *)
(* from: {} is the empty text, None no text at all.                        *)
(***************************************************************************)
EXTENDS Integers, Sequences

LOCAL INSTANCE SequencesExt

CONSTANTS
    HistoryBudget,      \* history_budget, 2000
    MinVerbatimTurns,   \* min_verbatim_turns, 4
    SummaryReserve,     \* tokens reserved for a summary, 150
    VerbatimFloor,      \* least budget for verbatim turns, 400
    None

ASSUME MemoryAssumption ==
    /\ HistoryBudget \in Nat
    /\ MinVerbatimTurns \in Nat \ {0}
    /\ SummaryReserve \in Nat
    /\ VerbatimFloor \in Nat

Larger(a, b) == IF a >= b THEN a ELSE b

TokenSum(turns) == FoldLeft(LAMBDA n, turn : n + turn.tokens, 0, turns)

EffectiveBudget == Larger(VerbatimFloor, HistoryBudget - SummaryReserve)

\* Index of the first turn that is kept verbatim whatever it costs.
TailFirst(turns) == Larger(1, Len(turns) - MinVerbatimTurns + 1)

TailTokens(turns) == TokenSum(SubSeq(turns, TailFirst(turns), Len(turns)))

\* Mutated form: the tail does not count against the budget.
WholeBudget(turns) == EffectiveBudget

\* What the tail leaves of the budget for older turns.
RemainingBudget(turns) == Larger(0, EffectiveBudget - TailTokens(turns))

\* Turn i and the older turns after it fit into that.
FitsFrom(turns, i) == TokenSum(SubSeq(turns, i, TailFirst(turns) - 1)) <= RemainingBudget(turns)

\* The loop over the older turns, newest first, ends at the first one that does
\* not fit: index of the oldest turn that stays verbatim.
FirstVerbatim(turns) ==
    CHOOSE i \in 1 .. TailFirst(turns) :
        /\ \A k \in i .. TailFirst(turns) - 1 : FitsFrom(turns, k)
        /\ i > 1 => ~ FitsFrom(turns, i - 1)

\* Mutated form: the older turns that fit are not put before the tail.
TailOnly(turns) == SubSeq(turns, TailFirst(turns), Len(turns))

Verbatim(turns) == SubSeq(turns, FirstVerbatim(turns), Len(turns))

\* The turns to summarize reach up to the first verbatim one, included.
NeedingSummary(turns) == SubSeq(turns, 1, FirstVerbatim(turns))

FitsBudget(turns) == TokenSum(turns) <= HistoryBudget

MessagesOf(turns) == {turns[i].message : i \in DOMAIN turns}

\* The history for a prompt; works tells whether the summarizing call, if one
\* is made, succeeds.  A failure leaves the empty text for a summary.
AssembleHistory(turns, works) ==
    IF FitsBudget(turns)
    THEN [verbatim |-> turns, summary |-> None, upto |-> 0]
    ELSE [verbatim |-> Verbatim(turns),
          summary |-> IF works THEN MessagesOf(NeedingSummary(turns)) ELSE {},
          upto |-> FirstVerbatim(turns)]
==============================================================================
