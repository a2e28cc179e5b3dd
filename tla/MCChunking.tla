----------------------------- MODULE MCChunking -----------------------------
(* Words that fit a window several times, once and not at all; blanks that *)
(* a window holds, and that fill one; blocks that begin with, end with and *)
(* are only whitespace that does not separate blocks.                      *)
EXTENDS Chunking, TLC

Word(n)  == [p \in 1..n |-> FALSE]
Blank(n) == [p \in 1..n |-> TRUE]

MCParagraphs ==
    { Word(n) : n \in {1, 7} }
    \cup { Word(1) \o Blank(n) \o Word(3) : n \in {1, 8} }
    \cup { Word(1) \o Blank(1) \o Word(7) \o Blank(1) \o Word(1),
           Blank(1) \o Word(2), Word(4) \o Blank(2), Blank(1) }
MCTables   == { Word(3) \o Blank(1) \o Word(3) }
MCHeadings == { Word(2) }
=============================================================================
