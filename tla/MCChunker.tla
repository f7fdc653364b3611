------------------------------ MODULE MCChunker ------------------------------
(***************************************************************************)
(* Small files for the chunker: MaxLines lines out of nine, or MaxRows rows *)
(* of a table.  The lengths of the words are chosen around TargetSize = 8, *)
(* Overlap = 2, MinSize = 5 and MaxSize = 14.                              *)
(***************************************************************************)
EXTENDS Chunker

CONSTANTS MaxLines, MaxRows

Word(n) == [len |-> n, stop |-> FALSE]
LastOf(n) == [len |-> n, stop |-> TRUE]

Line(kind, words) == [kind |-> kind, words |-> words]

TextLines ==
    {Line("text", <<Word(1)>>),
     Line("text", <<LastOf(1), LastOf(1), Word(5)>>),
     Line("text", <<Word(4), Word(4), Word(3)>>),
     Line("text", <<Word(15)>>)}

Rows ==
    {Line("row", <<Word(1)>>),
     Line("row", <<Word(4), LastOf(4)>>),
     Line("row", <<Word(15)>>)}

MCLines ==
    {Line("blank", << >>), Line("heading", <<Word(1), Word(2)>>)} \cup TextLines \cup Rows

MCFiles ==
    UNION {[1 .. n -> MCLines] : n \in 0 .. MaxLines} \cup [1 .. MaxRows -> Rows]
==============================================================================
