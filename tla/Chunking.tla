------------------------------ MODULE Chunking ------------------------------
(***************************************************************************)
(* Chunking the pages of a document and the gate in front of persistence   *)
(* (app/chunking/chunker.py, app/chunking/provenance.py).                  *)
(*                                                                         *)
(* A page is read block by block.  Of its text the model keeps where words *)
(* and whitespace are, of a heading its place and level, of a draft its    *)
(* span and section: content, hash and token count are recomputed from the *)
(* span.  Offsets count from zero, as in the code.                         *)
(*                                                                         *)
(* A block is any text.  The blank space that _split_blocks skips is \r,   *)
(* \n, space and tab; a block may begin with, end with or be only other    *)
(* whitespace (a form feed, a no-break space).  What follows the last      *)
(* block of a page is in no span and left out.                             *)
(***************************************************************************)
EXTENDS Integers, Sequences, FiniteSets, FiniteSetsExt

CONSTANTS
    MaxChars, Overlap,  \* max_chars, overlap
    Paragraphs, Tables, Headings,   \* texts of blocks that pages may have: TRUE is whitespace
    Blanks,         \* lengths of the blank space in front of a block
    Levels,         \* heading_level
    MaxBlocks,      \* bound: blocks of the first page, and one less for each page after it
    MaxPages        \* bound: pages of a document

ASSUME ChunkingAssumption ==
    /\ MaxChars \in Nat \ {0} /\ Overlap \in 0..(MaxChars - 1)
    /\ Paragraphs \cup Tables \cup Headings \subseteq Seq(BOOLEAN) \ {<<>>}
    /\ Blanks \subseteq Nat
    /\ Levels \subseteq Nat \ {0}
    /\ MaxBlocks \in Nat /\ MaxPages \in Nat \ {0}

VARIABLES
    page,       \* page_number
    text,       \* of the page, as far as it is read
    blocks,     \* its blocks: kind, span and level
    pending,    \* blocks that no draft has yet
    path,       \* section_path: the headings, each with its page and place
    section,    \* pending_section
    drafts,     \* of the page; `origin` is where the span began before it was widened
    ended       \* the page is chunked

chunking == <<page, text, blocks, pending, path, section, drafts, ended>>

ChunkingInit ==
    /\ page = 1 /\ text = <<>> /\ blocks = <<>> /\ pending = <<>>
    /\ path = <<>> /\ section = <<>> /\ drafts = <<>> /\ ended = FALSE

-----------------------------------------------------------------------------
(* Blocks, with blank space between them. *)

Final(list) == list[Len(list)]

TextWith(blank, block) == text \o [p \in 1..blank |-> TRUE] \o block

BlockOf(kind, level, blank, block) ==
    [kind |-> kind, level |-> level,
     start |-> Len(text) + blank, end |-> Len(text) + blank + Len(block)]

IsSpace(t, position) == t[position + 1]

-----------------------------------------------------------------------------
(* Spans. *)

\* _snap_to_whitespace
Snap(t, position, lower) ==
    IF position <= lower \/ position >= Len(t) THEN position
    ELSE Max({p \in lower..position : p = lower \/ IsSpace(t, p - 1)})

WindowEnd(t, from, end) ==
    IF from + MaxChars >= end THEN end ELSE Snap(t, from + MaxChars, from + 1)

NextWindow(t, from, to, overlap) ==
    Snap(t, Max({to - overlap, from + 1}), from + 1)

\* _split_oversized
SplitOversized(t, start, end, overlap) ==
    LET windows[from \in start..end] ==
            LET to == WindowEnd(t, from, end) IN
            <<<<from, to>>>> \o (IF to >= end THEN <<>>
                                 ELSE windows[NextWindow(t, from, to, overlap)])
    IN windows[start]

\* The last block that still fits with the n-th.
LastFitting(group, n) ==
    Max({n} \cup {m \in (n + 1)..Len(group) :
                      \A k \in (n + 1)..m : group[k].end - group[n].start <= MaxChars})

\* One span, or the windows of a block that does not fit alone.
Piece(t, start, end, overlap) ==
    IF end - start > MaxChars THEN SplitOversized(t, start, end, overlap) ELSE <<<<start, end>>>>

\* _pack_spans: from the n-th block on, as many as fit.
PackSpans(t, group) ==
    LET packed[n \in 1..(Len(group) + 1)] ==
            IF n > Len(group) THEN <<>>
            ELSE LET last == LastFitting(group, n)
                 IN Piece(t, group[n].start, group[last].end, 0) \o packed[last + 1]
    IN packed[1]

Spans(t, group) ==
    LET start == Head(group).start
        end == Final(group).end
    IN IF Len(group) = 1 /\ group[1].kind = "table" THEN <<<<start, end>>>>
       ELSE IF Len(group) = 1 /\ end - start > MaxChars
            THEN SplitOversized(t, start, end, Overlap)
            ELSE PackSpans(t, group)

\* A span that does not overlap its predecessor is widened backwards.
Widened(t, done, start) ==
    IF Overlap > 0 /\ done # <<>> /\ start >= Final(done).end
    THEN Max({Snap(t, Max({start - Overlap, 0}), 0), Final(done).start + 1})
    ELSE start

\* flush: the drafts with those of the group.
Flush(t, done, group, label) ==
    IF group = <<>> THEN done
    ELSE LET spans == Spans(t, group)
             drafted[n \in 0..Len(spans)] ==
                 IF n = 0 THEN done
                 ELSE Append(drafted[n - 1],
                             [start |-> Widened(t, drafted[n - 1], spans[n][1]), end |-> spans[n][2],
                              origin |-> spans[n][1], section |-> label])
         IN drafted[Len(spans)]

-----------------------------------------------------------------------------
(* chunk_page, a block at a time. *)

\* Blocks do not touch each other.
Reading(blank) == ~ended /\ Len(blocks) + page <= MaxBlocks /\ (text = <<>> \/ blank > 0)

Read(b, blank, block) ==
    /\ Reading(blank)
    /\ text' = TextWith(blank, block)
    /\ blocks' = Append(blocks, b)
    /\ UNCHANGED <<page, ended>>

\* del section_path[level - 1 :] and append; a shorter path stays whole.
PathWith(b) ==
    SubSeq(path, 1, Min({b.level - 1, Len(path)})) \o <<[page |-> page, start |-> b.start]>>

\* Fault: what is pending gets the section that begins.
ReadHeadingFirst(blank, block, level) ==
    LET b == BlockOf("heading", level, blank, block) IN
    /\ Read(b, blank, block)
    /\ path' = PathWith(b)
    /\ section' = path'
    /\ drafts' = Flush(text', drafts, pending, section')
    /\ pending' = <<b>>

ReadHeading(blank, block, level) ==
    LET b == BlockOf("heading", level, blank, block) IN
    /\ Read(b, blank, block)
    /\ drafts' = Flush(text', drafts, pending, section)
    /\ path' = PathWith(b)
    /\ section' = path'
    /\ pending' = <<b>>

ReadTable(blank, block) ==
    LET b == BlockOf("table", 0, blank, block) IN
    /\ Read(b, blank, block)
    /\ drafts' = Flush(text', Flush(text', drafts, pending, section), <<b>>, section)
    /\ pending' = <<>>
    /\ UNCHANGED <<path, section>>

ReadParagraph(blank, block) ==
    LET b == BlockOf("paragraph", 0, blank, block)
        full == pending # <<>> /\ b.end - Head(pending).start > MaxChars
    IN
    /\ Read(b, blank, block)
    /\ IF full
       THEN /\ drafts' = Flush(text', drafts, pending, section)
            /\ section' = path
            /\ pending' = <<b>>
       ELSE /\ pending' = Append(pending, b)
            /\ UNCHANGED <<drafts, section>>
    /\ UNCHANGED path

\* Fault: what is pending at the end of the page is forgotten.
EndPageAtOnce ==
    /\ ~ended
    /\ pending' = <<>> /\ ended' = TRUE
    /\ UNCHANGED <<page, text, blocks, path, section, drafts>>

EndPage ==
    /\ ~ended
    /\ drafts' = Flush(text, drafts, pending, section)
    /\ pending' = <<>>
    /\ ended' = TRUE
    /\ UNCHANGED <<page, text, blocks, path, section>>

\* chunk_pages: the next page begins with the section path of the one before.
NextPage ==
    /\ ended /\ page < MaxPages
    /\ page' = page + 1
    /\ text' = <<>> /\ blocks' = <<>> /\ pending' = <<>> /\ drafts' = <<>>
    /\ section' = path
    /\ ended' = FALSE
    /\ UNCHANGED path

ChunkingNext ==
    \/ \E blank \in Blanks, block \in Headings, level \in Levels : ReadHeading(blank, block, level)
    \/ \E blank \in Blanks, block \in Tables : ReadTable(blank, block)
    \/ \E blank \in Blanks, block \in Paragraphs : ReadParagraph(blank, block)
    \/ EndPage \/ NextPage

ChunkingSpec == ChunkingInit /\ [][ChunkingNext]_chunking

-----------------------------------------------------------------------------
(* The gate: what validate_chunk_provenance can find wrong with a span. *)

\* Fault: a span may not reach the end of its page.
PassesInside(d) ==
    /\ 0 <= d.start /\ d.start < d.end /\ d.end < Len(text)
    /\ \E p \in d.start..(d.end - 1) : ~IsSpace(text, p)

Passes(d) ==
    /\ 0 <= d.start /\ d.start < d.end /\ d.end <= Len(text)
    /\ \E p \in d.start..(d.end - 1) : ~IsSpace(text, p)

-----------------------------------------------------------------------------
(* Properties. *)

ChunkingTypeOK ==
    /\ page \in 1..MaxPages
    /\ text \in Seq(BOOLEAN)
    /\ \A i \in DOMAIN drafts : {drafts[i].start, drafts[i].end, drafts[i].origin} \subseteq Nat
    /\ ended => pending = <<>>

\* No word ends among the characters of a window that begins at `from`.
NoWordEnds(from) ==
    /\ from + MaxChars <= Len(text)
    /\ \A p \in from..(from + MaxChars - 2) : IsSpace(text, p) \/ ~IsSpace(text, p + 1)

EndsBlank(d) == \E i \in DOMAIN blocks : blocks[i].end = d.end /\ IsSpace(text, d.end - 1)

\* The gate refuses a draft, and with it fails the document, only for a run of blanks, or of
\* blanks and one word after them, that fills a window from the draft's beginning on, or at
\* the end of a block that ends with a blank _split_blocks does not strip (_split_oversized,
\* validate_chunk_provenance).  However a page without such runs is laid out, packed, split
\* and widened, its drafts all pass.
RefusedOnlyForLongRuns ==
    \A i \in DOMAIN drafts :
        Passes(drafts[i]) \/ NoWordEnds(drafts[i].start) \/ EndsBlank(drafts[i])

\* Where the words of the page begin and end.
PageWords ==
    { w \in (0..Len(text)) \X (0..Len(text)) :
        /\ w[1] < w[2] /\ \A p \in w[1]..(w[2] - 1) : ~IsSpace(text, p)
        /\ w[1] = 0 \/ IsSpace(text, w[1] - 1)
        /\ w[2] = Len(text) \/ IsSpace(text, w[2]) }

\* Nothing but blanks is lost between two drafts, drafts come in the order of their
\* beginnings, and a word shorter than a window is whole in some draft
\* (_snap_to_whitespace, "so words stay whole").
WordsStayWhole ==
    /\ \A p \in 0..(Len(text) - 1) : ~IsSpace(text, p) =>
          \E i \in DOMAIN drafts : drafts[i].start <= p /\ p < drafts[i].end
    /\ \A i, j \in DOMAIN drafts : i < j => drafts[i].start < drafts[j].start
    /\ \A w \in PageWords : w[2] - w[1] < MaxChars =>
          \E i \in DOMAIN drafts : drafts[i].start <= w[1] /\ w[2] <= drafts[i].end

\* A draft shares text with the one before it, in one block and across blocks, unless that
\* one is a single character and all of it would be repeated, or the overlap does not reach
\* over the blank space between them (_split_oversized, flush).
NeighborsShareText ==
    \A i \in 1..(Len(drafts) - 1) :
        /\ drafts[i].end - drafts[i].start > 1
        /\ drafts[i + 1].origin - drafts[i].end < Overlap
        => drafts[i + 1].start < drafts[i].end

\* Splitting a page loses no word and no context between neighbours (chunk_page).
SplitKeepsContext == ended => WordsStayWhole /\ NeighborsShareText

HeadingStarts == {blocks[i].start : i \in {k \in DOMAIN blocks : blocks[k].kind = "heading"}}

\* A draft is filed under the last heading before it, on its own page or, when there is
\* none, on an earlier one (chunk_pages, "carrying the heading hierarchy across page breaks").
FiledUnderLastHeading ==
    \A i \in DOMAIN drafts :
        LET above == {h \in HeadingStarts : h <= drafts[i].origin}
            label == drafts[i].section
        IN IF above = {} THEN label = <<>> \/ Final(label).page < page
           ELSE label # <<>> /\ Final(label) = [page |-> page, start |-> Max(above)]

=============================================================================
