------------------------------- MODULE Redaction -------------------------------
(***************************************************************************)
(* Personal data out of a text and back into it.  A text is a sequence of  *)
(* pieces: words, placeholders, citation markers, breaks (two characters   *)
(* of white space or more), and the two halves of a piece that a stream    *)
(* has split.  A word here is any stretch of a text that no recognizer     *)
(* begins or ends inside of, so that one run of letters and digits may be  *)
(* several.  What is personal is for the recognizers to say, and each may  *)
(* look at the whole text to say it.                                       *)
(***************************************************************************)
EXTENDS Integers, SequencesExt

CONSTANTS
    Recognizers,            \* those of Presidio, the two custom ones included
    Patterns,               \* the regular expressions of the fallback, in their order
    Matches(_, _, _, _)     \* a recognizer takes this text's pieces from one to another

Engines == {"presidio", "regex", "off"}

ASSUME RedactionAssumption ==
    /\ Patterns \in Seq(Range(Patterns))
    /\ \A i, j \in DOMAIN Patterns : Patterns[i].tag = Patterns[j].tag => i = j
    /\ \A r \in Recognizers \cup Range(Patterns) :
          r.tag \in STRING /\ r.score \in 0 .. 100    \* in percent

Atoms ==
    [is : {"word"}, word : STRING] \cup [is : {"break"}] \cup [is : {"marker"}, n : Nat]
        \cup [is : {"placeholder"}, tag : STRING, n : Nat]
Pieces == Atoms \cup [is : {"head", "tail"}, of : Atoms]

Word(w) == [is |-> "word", word |-> w]
Marker(n) == [is |-> "marker", n |-> n]
Placeholder(tag, n) == [is |-> "placeholder", tag |-> tag, n |-> n]
HeadOf(piece) == [is |-> "head", of |-> piece]
TailOf(piece) == [is |-> "tail", of |-> piece]
Words(ws) == [i \in DOMAIN ws |-> Word(ws[i])]
Break == [is |-> "break"]

\* The spans of a text that a recognizer finds, from its first to its last piece: it takes
\* words, never a placeholder, a marker or a break.
FoundBy(text, r) ==
    {s \in [from : DOMAIN text, to : DOMAIN text, tag : {r.tag}, score : {r.score}] :
        /\ s.from <= s.to
        /\ \A k \in s.from .. s.to : text[k].is = "word"
        /\ Matches(r, text, s.from, s.to)}

SpansOf(text, recognizers) == UNION {FoundBy(text, r) : r \in recognizers}

\* Of the spans that start at one place the best score comes first, then the longest.
SortsFirst(s, t) == s.score > t.score \/ (s.score = t.score /\ s.to >= t.to)
FirstOf(spans) == CHOOSE s \in spans : \A t \in spans : SortsFirst(s, t)

\* Mutated form: a span that begins where another ends is taken for an overlap.
Touches(span, kept) == \E k \in kept : span.from <= k.to + 1

Overlaps(span, kept) == \E k \in kept : span.from <= k.to

\* In the order of their start; a span that overlaps one kept before it is skipped.
Keep(spans, kept, i) ==
    LET starting == {s \in spans : s.from = i}
    IN  IF starting = {} \/ Overlaps(FirstOf(starting), kept)
        THEN kept
        ELSE kept \cup {FirstOf(starting)}

Filtered(text, spans) ==
    FoldLeft(LAMBDA kept, i : Keep(spans, kept, i), {}, [i \in DOMAIN text |-> i])

\* The placeholders of a tag are numbered from 1, in reading order.
FromStart(spans) ==
    [s \in spans |->
        Placeholder(s.tag, Cardinality({t \in spans : t.tag = s.tag /\ t.from <= s.from}))]

\* The fallback goes through the matches of a pattern from the last to the first.
FromEnd(spans) ==
    [s \in spans |->
        Placeholder(s.tag, Cardinality({t \in spans : t.tag = s.tag /\ t.from >= s.from}))]

Replaced(text, names) ==
    FlattenSeq([i \in DOMAIN text |->
        LET covering == {s \in DOMAIN names : s.from <= i /\ i <= s.to}
        IN  CASE covering = {} -> <<text[i]>>
              [] \E s \in covering : s.from = i -> <<names[CHOOSE s \in covering : s.from = i]>>
              [] OTHER -> <<>>])

ReverseMapping(text, names) ==
    [p \in Range(names) |->
        LET s == CHOOSE x \in DOMAIN names : names[x] = p IN SubSeq(text, s.from, s.to)]

\* Mutated form: a mapping takes the place of those before.
Replacing(old, new) == new

\* dict.update: the new mapping has the last word.
Updated(old, new) ==
    [p \in DOMAIN old \cup DOMAIN new |-> IF p \in DOMAIN new THEN new[p] ELSE old[p]]

\* A redaction: what the text has become, where in the original each of its pieces was
\* (0 for a placeholder), and what its placeholders stand for.
Unredacted(text) ==
    [text |-> text, places |-> [i \in DOMAIN text |-> i], mapping |-> <<>>]

WithNames(done, names) ==
    [text |-> Replaced(done.text, names),
     places |-> Replaced(done.places, [s \in DOMAIN names |-> 0]),
     mapping |-> Updated(done.mapping, ReverseMapping(done.text, names))]

RedactWithPresidio(text) ==
    WithNames(Unredacted(text), FromStart(Filtered(text, SpansOf(text, Recognizers))))

\* The matches of one pattern, in what the patterns before it have left.
RedactPattern(done, pattern) ==
    WithNames(done, FromEnd(Filtered(done.text, SpansOf(done.text, {pattern}))))

RedactWithRegex(text) == FoldLeft(RedactPattern, Unredacted(text), Patterns)

Redact(engine, text) ==
    CASE engine = "presidio" -> RedactWithPresidio(text)
      [] engine = "regex" -> RedactWithRegex(text)
      [] engine = "off" -> Unredacted(text)

Rehydrate(text, mapping) ==
    FlattenSeq([i \in DOMAIN text |->
        IF text[i] \in DOMAIN mapping THEN mapping[text[i]] ELSE <<text[i]>>])

\* A piece after a text: the second half of a piece makes the first one whole.
Joining(text, p) ==
    IF p.is = "tail" /\ text # <<>> /\ Last(text) = HeadOf(p.of)
    THEN Append(Front(text), p.of)
    ELSE Append(text, p)

\* The join of streamed tokens.
Joined(tokens) == FoldLeft(Joining, <<>>, FlattenSeq(tokens))

\* The places of the original whose pieces a redaction has left.
Remaining(done) == Range(done.places) \ {0}

\* What an engine recognizes in a text.
Recognized(engine, text) ==
    CASE engine = "presidio" -> SpansOf(text, Recognizers)
      [] engine = "regex" -> SpansOf(text, Range(Patterns))
      [] engine = "off" -> {}
================================================================================
