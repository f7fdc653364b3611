------------------------------- MODULE Chunker -------------------------------
(***************************************************************************)
(* How the text of a file becomes chunks: TextAndMarkdownParser, which     *)
(* finds sections and tables, and RecursiveStructureChunker, which packs   *)
(* them into chunks of bounded size.                                       *)
(*                                                                         *)
(* A file is a sequence of lines [kind, words], a word is [len, stop]      *)
(* where stop tells that it ends a sentence.  Words of one line are one    *)
(* space apart.  What the chunker handles are occurrences of words, so     *)
(* that a word that appears in two chunks was copied there.  Titles, page  *)
(* numbers and metadata of chunks are left out; the index of a chunk is    *)
(* its place in the sequence.                                              *)
(***************************************************************************)
EXTENDS Integers, SequencesExt

CONSTANTS
    Files,              \* the sequences of lines to be chunked
    Formats,            \* subset of {"text", "markdown"}
    TargetSize,         \* target_size, 512
    Overlap,            \* overlap, 64
    MinSize,            \* min_size, 64
    MaxSize             \* max_size, 1024

Kinds == {"blank", "text", "row", "heading"}
Lines == [kind : Kinds, words : Seq([len : Nat \ {0}, stop : BOOLEAN])]

ASSUME ChunkerAssumption ==
    /\ TargetSize \in Nat \ {0} /\ Overlap \in Nat
    /\ MinSize \in Nat /\ MaxSize \in Nat
    /\ TargetSize + 3 * Overlap <= MaxSize  \* as the defaults do
    /\ Formats \subseteq {"text", "markdown"}
    /\ \A f \in Files :
          /\ f \in Seq(Lines)
          /\ \A i \in DOMAIN f : f[i].kind = "blank" <=> f[i].words = << >>

VARIABLES
    file, format,       \* the input
    pc,                 \* "sections", "pack", "tables", "rows" or "done"
    sections, tables,   \* intervals of lines not yet chunked
    fallback,           \* whether the raw text stands in for the sections
    units,              \* units, or rows, not yet packed
    pieces,             \* current_pieces, or curr_rows
    size,               \* current_len
    chunks

input == <<file, format>>
vars == <<file, format, pc, sections, tables, fallback, units, pieces, size, chunks>>

-----------------------------------------------------------------------------
(* Text. *)

LinesOf(part) == part.first .. part.last

Occurrences(f, i) ==
    [j \in DOMAIN f[i].words |->
        [line |-> i, pos |-> j, len |-> f[i].words[j].len, stop |-> f[i].words[j].stop]]

\* The words of the lines of an interval.
WordsOf(f, part) ==
    FlattenSeq([i \in 1 .. part.last - part.first + 1 |-> Occurrences(f, part.first + i - 1)])

Total(numbers) == FoldLeft(LAMBDA sum, n : sum + n, 0, numbers)

\* Length of words that are one character apart.
TextLen(words) == Total([i \in DOMAIN words |-> words[i].len]) + Len(words) - 1

Blank(f, i) == f[i].kind = "blank"

\* Length of the text of an interval: an empty line adds its line feed.
PartLen(f, part) ==
    TextLen(WordsOf(f, part)) + Cardinality({i \in LinesOf(part) : Blank(f, i)})

\* Disjoint intervals as a sequence.
InOrder(parts) ==
    [i \in 1 .. Cardinality(parts) |->
        CHOOSE p \in parts : Cardinality({q \in parts : q.first < p.first}) = i - 1]

\* The maximal intervals of a set of line numbers.
Runs(S) ==
    {p \in [first : {i \in S : i - 1 \notin S}, last : {i \in S : i + 1 \notin S}] :
        p.first <= p.last /\ LinesOf(p) \subseteq S}

\* content.strip(): the interval without the empty lines at its ends.
Strip(f, part) ==
    LET written == {i \in LinesOf(part) : ~ Blank(f, i)}
    IN  [first |-> CHOOSE i \in written : \A j \in written : i <= j,
         last |-> CHOOSE i \in written : \A j \in written : i >= j]

HasText(f, part) == \E i \in LinesOf(part) : ~ Blank(f, i)

StripAll(f, parts) == InOrder({Strip(f, p) : p \in {q \in parts : HasText(f, q)}})

-----------------------------------------------------------------------------
(* Parsing. *)

WholeFile(f) == StripAll(f, Runs(DOMAIN f))

\* Sections without text are kept by the parser and dropped by the chunker.
SectionsOf(f, fmt) ==
    IF fmt = "text"
    THEN WholeFile(f)
    ELSE StripAll(f, Runs({i \in DOMAIN f : f[i].kind # "heading"}))

\* A table is two or more adjacent table lines.
TablesOf(f, fmt) ==
    IF fmt = "text"
    THEN << >>
    ELSE InOrder({p \in Runs({i \in DOMAIN f : f[i].kind = "row"}) : p.first < p.last})

-----------------------------------------------------------------------------
(* Splitting a section into units: paragraphs, sentences, words.  A unit   *)
(* is verbatim if the line feeds in it survive.                            *)

Paragraphs(f, part) == InOrder(Runs({i \in LinesOf(part) : ~ Blank(f, i)}))

Sentences(words) ==
    LET ends == {i \in 1 .. Len(words) : words[i].stop \/ i = Len(words)}
        parts == InOrder({p \in [first : {1} \cup {i + 1 : i \in ends}, last : ends] :
                             p.first <= p.last /\ LinesOf(p) \cap ends = {p.last}})
    IN  [i \in DOMAIN parts |-> SubSeq(words, parts[i].first, parts[i].last)]

\* Mutated form: a group is closed even if it has no word.
PackWordAlways(acc, w) ==
    IF acc.len + w.len + 1 > TargetSize
    THEN [done |-> Append(acc.done, acc.words), words |-> <<w>>, len |-> w.len]
    ELSE [acc EXCEPT !.words = Append(acc.words, w), !.len = acc.len + w.len + 1]

\* One turn of the loop over the words of a long sentence.
PackWord(acc, w) ==
    IF acc.len + w.len + 1 > TargetSize /\ acc.words # << >>
    THEN [done |-> Append(acc.done, acc.words), words |-> <<w>>, len |-> w.len]
    ELSE [acc EXCEPT !.words = Append(acc.words, w), !.len = acc.len + w.len + 1]

PackedWords(words) ==
    FoldLeft(PackWord, [done |-> << >>, words |-> << >>, len |-> 0], words)

\* Mutated form: the words after the last full group are forgotten.
FullGroups(words) == PackedWords(words).done

WordGroups(words) == Append(PackedWords(words).done, PackedWords(words).words)

Unit(words, verbatim) == [words |-> words, verbatim |-> verbatim]

UnitLen(unit) == TextLen(unit.words)

SentenceUnits(words) ==
    IF TextLen(words) <= TargetSize
    THEN <<Unit(words, TRUE)>>
    ELSE LET groups == WordGroups(words)
         IN  [i \in DOMAIN groups |-> Unit(groups[i], FALSE)]

ParagraphUnits(words) ==
    IF TextLen(words) <= TargetSize
    THEN <<Unit(words, TRUE)>>
    ELSE LET sentences == Sentences(words)
         IN  FlattenSeq([i \in DOMAIN sentences |-> SentenceUnits(sentences[i])])

UnitsOf(f, part) ==
    LET paragraphs == Paragraphs(f, part)
    IN  FlattenSeq([i \in DOMAIN paragraphs |-> ParagraphUnits(WordsOf(f, paragraphs[i]))])

-----------------------------------------------------------------------------
(* Packing. *)

\* Length of pieces that are joined with a separator of sep characters.
JoinLen(ps, sep) ==
    Total([i \in DOMAIN ps |-> UnitLen(ps[i])]) + (Len(ps) - 1) * sep

SumLen(ps) == JoinLen(ps, 0)

ChunkOf(kind, part, ps, sep) ==
    [kind |-> kind, part |-> part, pieces |-> ps, size |-> JoinLen(ps, sep)]

\* Mutated form: only the room taken so far counts, and not the unit's.
HasRoom(unit) == size <= TargetSize

FitsChunk(unit) == size + UnitLen(unit) + 2 <= TargetSize

\* Mutated form: the piece that crosses the limit is kept too.
OverlapAndOneMore(ps) ==
    LET short == {k \in 1 .. Len(ps) : SumLen(SubSeq(ps, k + 1, Len(ps))) <= Overlap}
    IN  SubSeq(ps, CHOOSE k \in short : \A j \in short : k <= j, Len(ps))

\* The longest run of pieces at the end whose lengths sum up to Overlap.
OverlapPieces(ps) ==
    LET short == {k \in 1 .. Len(ps) + 1 : SumLen(SubSeq(ps, k, Len(ps))) <= Overlap}
    IN  SubSeq(ps, CHOOSE k \in short : \A j \in short : k <= j, Len(ps))

InThisPart(part) == chunks # << >> /\ Last(chunks).part = part

\* Mutated form: some of a table's text in a chunk is taken for all of it.
PartlyInChunks(f, table) ==
    \E i \in DOMAIN chunks : \E j \in DOMAIN chunks[i].pieces :
       Range(WordsOf(f, table)) \cap Range(chunks[i].pieces[j].words) # {}

\* The text of a table stands in a chunk as it is.
AlreadyInChunks(f, table) ==
    \E i \in DOMAIN chunks : \E j \in DOMAIN chunks[i].pieces :
       LET piece == chunks[i].pieces[j]
       IN  piece.verbatim /\ Range(WordsOf(f, table)) \subseteq Range(piece.words)

RowsOf(f, first, last) ==
    [i \in 1 .. last - first + 1 |-> Unit(Occurrences(f, first + i - 1), TRUE)]

HeaderRows(f, table) == RowsOf(f, table.first, table.first + 1)

\* Mutated form: the length of the header rows is forgotten.
BodyFits(table, row) == JoinLen(Append(pieces, row), 1) <= MaxSize

RowFits(table, row) ==
    JoinLen(HeaderRows(file, table) \o Append(pieces, row), 1) <= MaxSize

-----------------------------------------------------------------------------
Init ==
    /\ file \in Files
    /\ format \in Formats
    /\ pc = "sections"
    /\ sections = SectionsOf(file, format)
    /\ tables = TablesOf(file, format)
    /\ fallback = FALSE
    /\ units = << >>
    /\ pieces = << >>
    /\ size = 0
    /\ chunks = << >>

\* A section that fits is one chunk.
KeepSection ==
    /\ pc = "sections" /\ sections # << >>
    /\ PartLen(file, Head(sections)) <= TargetSize
    /\ chunks' = Append(chunks,
                        [kind |-> "section", part |-> Head(sections),
                         pieces |-> <<Unit(WordsOf(file, Head(sections)), TRUE)>>,
                         size |-> PartLen(file, Head(sections))])
    /\ sections' = Tail(sections)
    /\ UNCHANGED <<input, pc, tables, fallback, units, pieces, size>>

SplitSection ==
    /\ pc = "sections" /\ sections # << >>
    /\ PartLen(file, Head(sections)) > TargetSize
    /\ units' = UnitsOf(file, Head(sections))
    /\ pieces' = << >>
    /\ size' = 0
    /\ pc' = "pack"
    /\ UNCHANGED <<input, sections, tables, fallback, chunks>>

AddUnit ==
    /\ pc = "pack" /\ units # << >>
    /\ FitsChunk(Head(units)) \/ pieces = << >>
    /\ pieces' = Append(pieces, Head(units))
    /\ size' = size + UnitLen(Head(units)) + 2
    /\ units' = Tail(units)
    /\ UNCHANGED <<input, pc, sections, tables, fallback, chunks>>

\* The chunk is full: the next one begins with the end of this one.
CloseChunk ==
    /\ pc = "pack" /\ units # << >>
    /\ ~ FitsChunk(Head(units)) /\ pieces # << >>
    /\ chunks' = Append(chunks, ChunkOf("section", Head(sections), pieces, 2))
    /\ pieces' = Append(OverlapPieces(pieces), Head(units))
    /\ size' = JoinLen(pieces', 2)
    /\ units' = Tail(units)
    /\ UNCHANGED <<input, pc, sections, tables, fallback>>

\* The last pieces of a section: a chunk of their own, or, when they are few,
\* the end of the chunk before if it has room.
EndSection ==
    /\ pc = "pack" /\ units = << >>
    /\ LET last == ChunkOf("section", Head(sections), pieces, 2)
           merged == ChunkOf("section", Head(sections), Last(chunks).pieces \o pieces, 2)
           merges == /\ last.size < MinSize
                     /\ InThisPart(Head(sections))
                     /\ merged.size <= MaxSize
       IN  chunks' = IF merges THEN Append(Front(chunks), merged) ELSE Append(chunks, last)
    /\ sections' = Tail(sections)
    /\ pc' = "sections"
    /\ UNCHANGED <<input, tables, fallback, units, pieces, size>>

SectionsEnd ==
    /\ pc = "sections" /\ sections = << >>
    /\ pc' = IF fallback THEN "done" ELSE "tables"
    /\ UNCHANGED <<input, sections, tables, fallback, units, pieces, size, chunks>>

SkipTable ==
    /\ pc = "tables" /\ tables # << >>
    /\ AlreadyInChunks(file, Head(tables))
    /\ tables' = Tail(tables)
    /\ UNCHANGED <<input, pc, sections, fallback, units, pieces, size, chunks>>

KeepTable ==
    /\ pc = "tables" /\ tables # << >>
    /\ ~ AlreadyInChunks(file, Head(tables))
    /\ PartLen(file, Head(tables)) <= MaxSize
    /\ chunks' = Append(chunks,
                        ChunkOf("table", Head(tables),
                                <<Unit(WordsOf(file, Head(tables)), TRUE)>>, 1))
    /\ tables' = Tail(tables)
    /\ UNCHANGED <<input, pc, sections, fallback, units, pieces, size>>

SplitTable ==
    /\ pc = "tables" /\ tables # << >>
    /\ ~ AlreadyInChunks(file, Head(tables))
    /\ PartLen(file, Head(tables)) > MaxSize
    /\ units' = RowsOf(file, Head(tables).first + 2, Head(tables).last)
    /\ pieces' = << >>
    /\ pc' = "rows"
    /\ UNCHANGED <<input, sections, tables, fallback, size, chunks>>

AddRow ==
    /\ pc = "rows" /\ units # << >>
    /\ RowFits(Head(tables), Head(units)) \/ pieces = << >>
    /\ pieces' = Append(pieces, Head(units))
    /\ units' = Tail(units)
    /\ UNCHANGED <<input, pc, sections, tables, fallback, size, chunks>>

\* The rows so far with the header rows before them.
TableChunk == ChunkOf("table", Head(tables), HeaderRows(file, Head(tables)) \o pieces, 1)

CloseTableChunk ==
    /\ pc = "rows" /\ units # << >>
    /\ ~ RowFits(Head(tables), Head(units)) /\ pieces # << >>
    /\ chunks' = Append(chunks, TableChunk)
    /\ pieces' = <<Head(units)>>
    /\ units' = Tail(units)
    /\ UNCHANGED <<input, pc, sections, tables, fallback, size>>

EndTable ==
    /\ pc = "rows" /\ units = << >>
    /\ chunks' = IF pieces = << >> THEN chunks ELSE Append(chunks, TableChunk)
    /\ tables' = Tail(tables)
    /\ pc' = "tables"
    /\ UNCHANGED <<input, sections, fallback, units, pieces, size>>

\* Nothing but headings: the whole text is chunked as one section.
FallBack ==
    /\ pc = "tables" /\ tables = << >>
    /\ chunks = << >> /\ WholeFile(file) # << >>
    /\ fallback' = TRUE
    /\ sections' = WholeFile(file)
    /\ pc' = "sections"
    /\ UNCHANGED <<input, tables, units, pieces, size, chunks>>

TablesEnd ==
    /\ pc = "tables" /\ tables = << >>
    /\ chunks # << >> \/ WholeFile(file) = << >>
    /\ pc' = "done"
    /\ UNCHANGED <<input, sections, tables, fallback, units, pieces, size, chunks>>

Next ==
    \/ KeepSection \/ SplitSection \/ AddUnit \/ CloseChunk \/ EndSection
    \/ SectionsEnd
    \/ SkipTable \/ KeepTable \/ SplitTable \/ AddRow \/ CloseTableChunk \/ EndTable
    \/ FallBack \/ TablesEnd

Spec == Init /\ [][Next]_vars

-----------------------------------------------------------------------------
(* Properties. *)

Occurrence == [line : Nat, pos : Nat, len : Nat \ {0}, stop : BOOLEAN]

IsInterval(part) == DOMAIN part = {"first", "last"} /\ part.first \in 1 .. part.last

IsPiece(p) ==
    /\ p.verbatim \in BOOLEAN
    /\ p.words # << >>
    /\ \A i \in DOMAIN p.words : p.words[i] \in Occurrence

\* Every variable has its type; pieces and chunks are never empty.
TypeOK ==
    /\ file \in Files /\ format \in Formats
    /\ pc \in {"sections", "pack", "tables", "rows", "done"}
    /\ \A i \in DOMAIN sections : IsInterval(sections[i])
    /\ \A i \in DOMAIN tables : IsInterval(tables[i])
    /\ fallback \in BOOLEAN
    /\ \A i \in DOMAIN units : IsPiece(units[i])
    /\ \A i \in DOMAIN pieces : IsPiece(pieces[i])
    /\ size \in Nat
    /\ \A i \in DOMAIN chunks :
          /\ chunks[i].kind \in {"section", "table"}
          /\ IsInterval(chunks[i].part)
          /\ chunks[i].size \in Nat \ {0}
          /\ chunks[i].pieces # << >>
          /\ \A j \in DOMAIN chunks[i].pieces : IsPiece(chunks[i].pieces[j])

WordsIn(ps) == UNION {Range(ps[i].words) : i \in DOMAIN ps}

Chunked(kind) ==
    UNION {WordsIn(chunks[i].pieces) : i \in {j \in DOMAIN chunks : chunks[j].kind = kind}}

BodyLines ==
    {i \in DOMAIN file : format = "text" \/ file[i].kind \in {"text", "row"}}

\* Whatever the boundaries of lines, sentences and units are, every word of the
\* file is in some chunk that chunk() returns, headings only if there is nothing
\* else.
TextIsCovered ==
    pc = "done" =>
        \A i \in IF BodyLines = {} THEN DOMAIN file ELSE BodyLines :
           Range(Occurrences(file, i)) \subseteq Chunked("section") \cup Chunked("table")

\* w is the word after v in a section.
Follows(part, v, w) ==
    \E i \in 2 .. Len(WordsOf(file, part)) :
       WordsOf(file, part)[i - 1] = v /\ WordsOf(file, part)[i] = w

LastWord(ps) == Last(Last(ps).words)

\* A chunk of a section repeats some last pieces of the one before it, of no
\* more than Overlap characters, and goes on with the very next word: packing
\* always advances and skips nothing.
ChunksAdvance ==
    \A i \in DOMAIN chunks \ {1} :
       LET before == chunks[i - 1].pieces
           after == chunks[i].pieces
       IN  chunks[i].kind = "section" /\ chunks[i - 1].part = chunks[i].part =>
               \E k \in 0 .. Len(after) - 1 :
                  /\ k <= Len(before)
                  /\ SubSeq(after, 1, k) = SubSeq(before, Len(before) - k + 1, Len(before))
                  /\ SumLen(SubSeq(after, 1, k)) <= Overlap
                  /\ Follows(chunks[i].part, LastWord(before), Head(after[k + 1].words))

\* A chunk exceeds MaxSize only for text that cannot be divided: a single word
\* beyond TargetSize, alone but for the overlap before it, or one row of a
\* table under its header.
OnlyIndivisibleExceeds ==
    \A i \in DOMAIN chunks :
       chunks[i].size > MaxSize =>
           IF chunks[i].kind = "table"
           THEN Len(chunks[i].pieces) = 3
           ELSE LET unit == Last(chunks[i].pieces)
                IN  Len(unit.words) = 1 /\ UnitLen(unit) > TargetSize

\* A table within MaxSize stands whole and verbatim in some chunk, whatever the
\* sections made of it; each row of a larger one stands under its header.
TablesAreWhole ==
    pc = "done" =>
        \A t \in Range(TablesOf(file, format)) :
           IF PartLen(file, t) <= MaxSize
           THEN \E i \in DOMAIN chunks : \E j \in DOMAIN chunks[i].pieces :
                   /\ chunks[i].pieces[j].verbatim
                   /\ \E a, b \in DOMAIN chunks[i].pieces[j].words :
                         SubSeq(chunks[i].pieces[j].words, a, b) = WordsOf(file, t)
           ELSE \A r \in t.first + 2 .. t.last :
                   \E i \in DOMAIN chunks :
                      /\ chunks[i].kind = "table" /\ chunks[i].part = t
                      /\ IsPrefix(HeaderRows(file, t), chunks[i].pieces)
                      /\ Unit(Occurrences(file, r), TRUE) \in Range(Tail(Tail(chunks[i].pieces)))

\* The check in chunk() whether a table is present "to avoid duplication" does
\* that: no text is in chunks of a section and in chunks of a table both.
TableIsStoredOnce == Chunked("section") \cap Chunked("table") = {}
==============================================================================
