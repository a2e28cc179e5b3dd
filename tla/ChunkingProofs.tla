--------------------------- MODULE ChunkingProofs ---------------------------
(***************************************************************************)
(* Proofs about Chunking, for pages of any blocks, any words and any blank *)
(* space in blocks and between them.                                       *)
(*                                                                         *)
(* First what the recursions of the chunker return: the windows over an    *)
(* oversized block, the spans of a group, the drafts of a flush.  Then the *)
(* invariants of a page that is being read.                                *)
(***************************************************************************)
EXTENDS Chunking, DataLemmas, SequenceTheorems

Truth == BOOLEAN
AnyText == Seq(Truth)
Span == Nat \X Nat

-----------------------------------------------------------------------------
(* Boundaries. *)

\* A boundary moves left to a space or to its lower bound, over no other space.
LEMMA SnapIs ==
    ASSUME NEW t \in AnyText, NEW position \in Nat, NEW lower \in Nat
    PROVE  /\ Snap(t, position, lower) \in Nat
           /\ Snap(t, position, lower) <= position
           /\ lower <= position => lower <= Snap(t, position, lower)
           /\ lower < position /\ position < Len(t) =>
                 /\ \/ Snap(t, position, lower) = lower
                    \/ IsSpace(t, Snap(t, position, lower) - 1)
                 /\ \A p \in (Snap(t, position, lower) + 1)..position : ~IsSpace(t, p - 1)
<1>1. CASE position <= lower \/ position >= Len(t)
  BY <1>1 DEF Snap, AnyText
<1>2. CASE ~(position <= lower \/ position >= Len(t))
  <2> DEFINE T == {p \in lower..position : p = lower \/ IsSpace(t, p - 1)}
  <2>1. lower \in T /\ T \in SUBSET Nat /\ \A p \in T : p <= position
    BY <1>2
  <2>2. Max(T) \in T /\ \A p \in T : p <= Max(T)
    <3> HIDE DEF T
    <3> QED BY <2>1, MaxIsGreatest
  <2>3. Snap(t, position, lower) = Max(T)
    BY <1>2 DEF Snap
  <2> DEFINE s == Max(T)
  <2>4. s \in Nat /\ lower <= s /\ s <= position /\ (s = lower \/ IsSpace(t, s - 1))
    BY <2>2
  <2>5. ASSUME NEW p \in (s + 1)..position PROVE ~IsSpace(t, p - 1)
    <3>1. p \in lower..position /\ ~(p <= s)
      BY <2>4
    <3>2. p \notin T
      BY <2>2, <3>1
    <3> QED BY <3>1, <3>2
  <2> HIDE DEF s
  <2> QED BY <2>3, <2>4, <2>5 DEF s
<1> QED BY <1>1, <1>2

\* A window is not empty and no longer than max_chars, and the next one begins in it or
\* at its end, further on.
LEMMA WindowIs ==
    ASSUME NEW t \in AnyText, NEW from \in Nat, NEW end \in Nat, from < end,
           NEW overlap \in Nat
    PROVE  LET to == WindowEnd(t, from, end)
               next == NextWindow(t, from, to, overlap)
           IN /\ to \in Nat /\ from < to /\ to <= end /\ to - from <= MaxChars
              /\ to < end => next \in Nat /\ from < next /\ next <= to
<1> DEFINE to == WindowEnd(t, from, end)
           first == Max({to - overlap, from + 1})
<1>0. MaxChars \in Nat /\ MaxChars >= 1
  BY ChunkingAssumption
<1>1. to \in Nat /\ from < to /\ to <= end /\ to - from <= MaxChars
  <2>1. CASE from + MaxChars >= end
    BY <1>0, <2>1 DEF WindowEnd
  <2>2. CASE ~(from + MaxChars >= end)
    <3>1. /\ Snap(t, from + MaxChars, from + 1) \in Nat
          /\ Snap(t, from + MaxChars, from + 1) <= from + MaxChars
          /\ from + 1 <= Snap(t, from + MaxChars, from + 1)
      BY <1>0, SnapIs
    <3>2. to = Snap(t, from + MaxChars, from + 1)
      BY <2>2 DEF WindowEnd
    <3> HIDE DEF to
    <3> QED BY <1>0, <2>2, <3>1, <3>2
  <2> QED BY <2>1, <2>2
<1> HIDE DEF to
<1>2. first \in Nat /\ from + 1 <= first /\ first <= to
  <2>1. to - overlap \in Int /\ from + 1 \in Int
    BY <1>1
  <2>2. first = IF to - overlap >= from + 1 THEN to - overlap ELSE from + 1
    BY <2>1, MaxOfTwo
  <2> HIDE DEF first
  <2> QED BY <1>1, <2>2
<1> HIDE DEF first
<1>3. /\ Snap(t, first, from + 1) \in Nat /\ Snap(t, first, from + 1) <= first
      /\ from + 1 <= Snap(t, first, from + 1)
  BY <1>2, SnapIs
<1>4. NextWindow(t, from, to, overlap) = Snap(t, first, from + 1)
  BY DEF NextWindow, first
<1> DEFINE next == NextWindow(t, from, to, overlap)
<1>5. next \in Nat /\ from < next /\ next <= to
  BY <1>1, <1>2, <1>3, <1>4
<1> HIDE DEF next
<1> QED BY <1>1, <1>5 DEF to, next

\* The windows over a block, from any place in it.
WindowsFrom(f, t, start, end, overlap) ==
    f = [from \in start..end |->
            LET to == WindowEnd(t, from, end) IN
            <<<<from, to>>>> \o (IF to >= end THEN <<>>
                                 ELSE f[NextWindow(t, from, to, overlap)])]

\* The recursive function exists, and is what its definition says.
LEMMA WindowsDefined ==
    ASSUME NEW t \in AnyText, NEW start \in Nat, NEW end \in Nat, start < end,
           NEW overlap \in Nat
    PROVE  \E f : /\ WindowsFrom(f, t, start, end, overlap)
                  /\ SplitOversized(t, start, end, overlap) = f[start]
<1> DEFINE S == start..end
           To(x) == WindowEnd(t, x, end)
           stop == {x \in S : To(x) >= end}
           next(x) == NextWindow(t, x, To(x), overlap)
           V == Seq(Span)
           rank == [x \in S |-> end - x]
           size == end - start
           base == [x \in S |-> IF x \in stop THEN <<<<x, To(x)>>>> ELSE <<>>]
           call == [x \in S |-> IF x \in stop THEN x ELSE next(x)]
           h == [p \in S \X V |-> IF p[1] \in stop THEN <<>>
                                  ELSE <<<<p[1], To(p[1])>>>> \o p[2]]
<1>1. ASSUME NEW x \in S
      PROVE  /\ x \in Nat /\ To(x) \in Nat
             /\ x \notin stop => next(x) \in S /\ x < next(x)
  <2>1. CASE x = end
    <3>1. x + MaxChars >= end
      BY <2>1, ChunkingAssumption
    <3>2. To(x) = end
      BY <3>1 DEF WindowEnd
    <3> QED BY <2>1, <3>2
  <2>2. CASE x < end
    <3>1. /\ To(x) \in Nat /\ To(x) <= end
          /\ To(x) < end => next(x) \in Nat /\ x < next(x) /\ next(x) <= To(x)
      BY <2>2, WindowIs
    <3> HIDE DEF To, next
    <3> QED BY <2>2, <3>1
  <2> QED BY <2>1, <2>2
<1> HIDE DEF To, next
<1>2. rank \in [S -> 0..size] /\ size \in Nat
  OBVIOUS
<1>3. stop \in SUBSET S /\ call \in [S -> S]
  BY <1>1
<1>4. base \in [S -> V] /\ h \in [S \X V -> V]
  <2>1. \A x \in S : <<<<x, To(x)>>>> \in V
    BY <1>1 DEF Span
  <2>2. \A x \in S : \A v \in V : <<<<x, To(x)>>>> \o v \in V
    BY <2>1, ConcatProperties
  <2>3. <<>> \in V
    OBVIOUS
  <2> HIDE DEF V, stop
  <2> QED BY <2>1, <2>2, <2>3
<1>5. \A x \in S \ stop : rank[call[x]] < rank[x]
  BY <1>1
<1>6. PICK f \in [S -> V] : \A x \in S : f[x] = IF x \in stop THEN base[x]
                                              ELSE h[<<x, f[call[x]]>>]
  <2> HIDE DEF S, V, rank, size, stop, base, call, h
  <2>1. Recurses(S, V, size, rank, stop, base, call, h)
    BY <1>2, <1>3, <1>4, <1>5 DEF Recurses
  <2> QED BY <2>1, Recursion
<1>7. ASSUME NEW x \in S
      PROVE  f[x] = <<<<x, To(x)>>>> \o (IF To(x) >= end THEN <<>> ELSE f[next(x)])
  <2>1. CASE x \in stop
    <3>1. f[x] = <<<<x, To(x)>>>>
      BY <1>6, <2>1
    <3>2. <<<<x, To(x)>>>> \in Seq(Span)
      BY <1>1 DEF Span
    <3>3. <<<<x, To(x)>>>> \o <<>> = <<<<x, To(x)>>>>
      BY <3>2, ConcatEmptySeq
    <3> QED BY <2>1, <3>1, <3>3
  <2>2. CASE x \notin stop
    <3>1. call[x] = next(x) /\ f[next(x)] \in V
      BY <1>1, <2>2
    <3>2. f[x] = h[<<x, f[next(x)]>>]
      BY <1>6, <2>2, <3>1
    <3>3. h[<<x, f[next(x)]>>] = <<<<x, To(x)>>>> \o f[next(x)]
      BY <2>2, <3>1
    <3> QED BY <2>2, <3>2, <3>3
  <2> QED BY <2>1, <2>2
<1>8. WindowsFrom(f, t, start, end, overlap)
  BY <1>6, <1>7 DEF WindowsFrom, To, next
<1> DEFINE g == CHOOSE e : WindowsFrom(e, t, start, end, overlap)
<1>9. WindowsFrom(g, t, start, end, overlap)
  BY <1>8
<1>10. SplitOversized(t, start, end, overlap) = g[start]
  BY DEF SplitOversized, WindowsFrom
<1> QED BY <1>9, <1>10

\* A chain of windows from one place to the end.
Chain(W, t, from, end, overlap) ==
    /\ W \in Seq(Span) /\ Len(W) >= 1
    /\ W[1][1] = from /\ W[Len(W)][2] = end
    /\ \A i \in 1..Len(W) : W[i][1] < end /\ W[i][2] = WindowEnd(t, W[i][1], end)
    /\ \A i \in 1..(Len(W) - 1) : W[i][2] < end /\ W[i + 1][1] = NextWindow(t, W[i][1], W[i][2], overlap)

LEMMA WindowsAreAChain ==
    ASSUME NEW t \in AnyText, NEW start \in Nat, NEW end \in Nat, start < end,
           NEW overlap \in Nat
    PROVE  Chain(SplitOversized(t, start, end, overlap), t, start, end, overlap)
<1>1. PICK f : /\ WindowsFrom(f, t, start, end, overlap)
               /\ SplitOversized(t, start, end, overlap) = f[start]
  BY WindowsDefined
<1> DEFINE P == {d \in Nat : \A x \in start..(end - 1) : end - x <= d => Chain(f[x], t, x, end, overlap)}
<1>2. 0 \in P
  OBVIOUS
<1>3. ASSUME NEW d \in P PROVE d + 1 \in P
  <2>1. d \in Nat /\ \A x \in start..(end - 1) : end - x <= d => Chain(f[x], t, x, end, overlap)
    OBVIOUS
  <2>2. ASSUME NEW x \in start..(end - 1), end - x <= d + 1
        PROVE  Chain(f[x], t, x, end, overlap)
    <3> DEFINE to == WindowEnd(t, x, end)
               next == NextWindow(t, x, to, overlap)
               first == <<x, to>>
               rest == IF to >= end THEN <<>> ELSE f[next]
    <3>1. f[x] = <<first>> \o rest
      <4>1. x \in start..end
        BY <2>2
      <4>2. f = [from \in start..end |->
                    <<<<from, WindowEnd(t, from, end)>>>>
                        \o (IF WindowEnd(t, from, end) >= end THEN <<>>
                            ELSE f[NextWindow(t, from, WindowEnd(t, from, end), overlap)])]
        BY <1>1 DEF WindowsFrom
      <4>3. f[x] = <<<<x, WindowEnd(t, x, end)>>>>
                        \o (IF WindowEnd(t, x, end) >= end THEN <<>>
                            ELSE f[NextWindow(t, x, WindowEnd(t, x, end), overlap)])
        BY <4>1, <4>2, Zenon
      <4> QED BY <4>3
    <3>2. /\ to \in Nat /\ x < to /\ to <= end
          /\ to < end => next \in Nat /\ x < next /\ next <= to
      BY WindowIs
    <3>3. first \in Span /\ first[1] = x /\ first[2] = WindowEnd(t, x, end)
      BY <3>2 DEF Span
    <3>4. CASE to >= end
      <4>1. <<first>> \in Seq(Span)
        BY <3>3
      <4>2. f[x] = <<first>>
        <5> HIDE DEF first, to
        <5> QED BY <3>1, <3>4, <4>1, ConcatEmptySeq
      <4>3. to = end
        <5> HIDE DEF to
        <5> QED BY <3>2, <3>4
      <4> QED BY <4>1, <4>2, <4>3, <3>3 DEF Chain
    <3>5. CASE ~(to >= end)
      <4>1. next \in start..(end - 1) /\ end - next <= d
        <5> HIDE DEF to, next
        <5> QED BY <2>1, <2>2, <3>2, <3>5
      <4>2. Chain(f[next], t, next, end, overlap)
        <5> HIDE DEF to, next, P
        <5> QED BY <2>1, <4>1
      <4>3. rest = f[next] /\ to < end
        <5> HIDE DEF to
        <5> QED BY <3>5, <3>2
      <4> DEFINE W == f[x]
                 R == f[next]
      <4>4. R \in Seq(Span) /\ Len(R) \in Nat /\ Len(R) >= 1
        BY <4>2 DEF Chain
      <4>5. /\ W \in Seq(Span) /\ Len(W) = Len(R) + 1 /\ W[1] = first
            /\ \A i \in 1..Len(R) : W[i + 1] = R[i]
        <5>1. W = <<first>> \o R
          BY <3>1, <4>3
        <5>2. <<first>> \in Seq(Span) /\ Len(<<first>>) = 1 /\ <<first>>[1] = first
          BY <3>3
        <5> HIDE DEF W, R, first
        <5>3. /\ <<first>> \o R \in Seq(Span) /\ Len(<<first>> \o R) = 1 + Len(R)
              /\ \A i \in 1..(1 + Len(R)) :
                    (<<first>> \o R)[i] = IF i <= 1 THEN <<first>>[i] ELSE R[i - 1]
          BY <5>2, <4>4, ConcatProperties
        <5> QED BY <5>1, <5>2, <5>3, <4>4
      <4>6. \A i \in 1..Len(W) : W[i][1] < end /\ W[i][2] = WindowEnd(t, W[i][1], end)
        <5> SUFFICES ASSUME NEW i \in 1..Len(W)
                     PROVE  W[i][1] < end /\ W[i][2] = WindowEnd(t, W[i][1], end)
          OBVIOUS
        <5>1. CASE i = 1
          <6> HIDE DEF W, R, first
          <6> QED BY <5>1, <4>5, <3>3, <2>2
        <5>2. CASE i # 1
          <6>1. i - 1 \in 1..Len(R) /\ W[i] = R[i - 1]
            <7> HIDE DEF W, R
            <7> QED BY <5>2, <4>4, <4>5
          <6> QED BY <6>1, <4>2 DEF Chain
        <5> QED BY <5>1, <5>2
      <4>7. \A i \in 1..(Len(W) - 1) : W[i][2] < end /\ W[i + 1][1] = NextWindow(t, W[i][1], W[i][2], overlap)
        <5> SUFFICES ASSUME NEW i \in 1..(Len(W) - 1)
                     PROVE  W[i][2] < end /\ W[i + 1][1] = NextWindow(t, W[i][1], W[i][2], overlap)
          OBVIOUS
        <5>1. CASE i = 1
          <6>1. W[i] = first /\ W[i + 1] = R[1]
            <7> HIDE DEF W, R, first
            <7> QED BY <5>1, <4>4, <4>5
          <6>2. R[1][1] = next
            BY <4>2 DEF Chain
          <6> QED BY <6>1, <6>2, <3>3, <4>3
        <5>2. CASE i # 1
          <6>1. i - 1 \in 1..(Len(R) - 1) /\ W[i] = R[i - 1] /\ W[i + 1] = R[(i - 1) + 1]
            <7> HIDE DEF W, R
            <7> QED BY SMTT(60), <5>2, <4>4, <4>5
          <6> QED BY <6>1, <4>2 DEF Chain
        <5> QED BY <5>1, <5>2
      <4>8. W[1][1] = x /\ W[Len(W)][2] = end
        <5>1. R[Len(R)][2] = end
          BY <4>2 DEF Chain
        <5>2. W[Len(W)] = R[Len(R)]
          <6> HIDE DEF W, R
          <6> QED BY <4>4, <4>5
        <5> HIDE DEF R
        <5> QED BY <5>1, <5>2, <4>5, <3>3
      <4>9. W \in Seq(Span) /\ Len(W) >= 1
        <5> HIDE DEF W, R
        <5> QED BY <4>4, <4>5
      <4> HIDE DEF R
      <4> QED BY <4>6, <4>7, <4>8, <4>9 DEF Chain
    <3> QED BY <3>4, <3>5
  <2> QED BY <2>1, <2>2
<1>4. P = Nat
  <2>1. P \in SUBSET Nat
    OBVIOUS
  <2> HIDE DEF P
  <2> QED BY <1>2, <1>3, <2>1, Induction
<1>5. end - start \in P /\ start \in start..(end - 1)
  <2> HIDE DEF P
  <2> QED BY <1>4
<1> QED BY <1>1, <1>5

LEMMA ChainIs ==
    ASSUME NEW t \in AnyText, NEW from \in Nat, NEW end \in Nat, from < end,
           NEW overlap \in Nat, NEW W, Chain(W, t, from, end, overlap)
    PROVE  /\ \A i \in 1..Len(W) : /\ W[i][1] \in Nat /\ W[i][2] \in Nat
                                   /\ from <= W[i][1] /\ W[i][1] < W[i][2] /\ W[i][2] <= end
           /\ \A i \in 1..(Len(W) - 1) : W[i][1] < W[i + 1][1] /\ W[i + 1][1] <= W[i][2]
<1>1. /\ W \in Seq(Span) /\ Len(W) \in Nat /\ Len(W) >= 1 /\ W[1][1] = from
      /\ \A i \in 1..Len(W) : W[i][1] < end /\ W[i][2] = WindowEnd(t, W[i][1], end)
      /\ \A i \in 1..(Len(W) - 1) :
            W[i][2] < end /\ W[i + 1][1] = NextWindow(t, W[i][1], W[i][2], overlap)
  BY DEF Chain
<1>2. \A i \in 1..Len(W) : W[i] \in Span
  BY <1>1, ElementOfSeq
<1>3. ASSUME NEW i \in 1..Len(W)
      PROVE  W[i][1] \in Nat /\ W[i][2] \in Nat /\ W[i][1] < W[i][2] /\ W[i][2] <= end
  <2>1. W[i][1] \in Nat /\ W[i][1] < end
    BY <1>1, <1>2 DEF Span
  <2>2. PICK x \in Nat : x = W[i][1]
    BY <2>1
  <2>3. /\ WindowEnd(t, x, end) \in Nat /\ x < WindowEnd(t, x, end)
        /\ WindowEnd(t, x, end) <= end
    BY <2>1, <2>2, WindowIs
  <2> QED BY <1>1, <2>2, <2>3
<1>4. ASSUME NEW i \in 1..(Len(W) - 1) PROVE W[i][1] < W[i + 1][1] /\ W[i + 1][1] <= W[i][2]
  <2>1. i \in 1..Len(W)
    BY <1>1
  <2>2. W[i][1] \in Nat /\ W[i][1] < end /\ W[i][2] = WindowEnd(t, W[i][1], end) /\ W[i][2] < end
    BY <1>1, <1>3, <2>1
  <2>3. W[i + 1][1] = NextWindow(t, W[i][1], WindowEnd(t, W[i][1], end), overlap)
    BY <1>1, <2>2
  <2>4. PICK x \in Nat : x = W[i][1]
    BY <2>2
  <2> DEFINE to == WindowEnd(t, x, end)
             next == NextWindow(t, x, to, overlap)
  <2>5. to < end => next \in Nat /\ x < next /\ next <= to
    BY <2>2, <2>4, WindowIs
  <2>6. to = W[i][2] /\ next = W[i + 1][1]
    BY <2>2, <2>3, <2>4
  <2> HIDE DEF to, next
  <2> QED BY <2>2, <2>4, <2>5, <2>6
<1>5. ASSUME NEW i \in 1..Len(W) PROVE from <= W[i][1]
  <2> DEFINE f == [j \in 1..Len(W) |-> W[j][1]]
  <2>1. f \in [1..Len(W) -> Int] /\ \A j \in 1..(Len(W) - 1) : f[j] < f[j + 1]
    BY <1>1, <1>3, <1>4
  <2>2. \A j, k \in 1..Len(W) : j < k => f[j] < f[k]
    <3> HIDE DEF f
    <3> QED BY <1>1, <2>1, StepsAscend
  <2>3. 1 \in 1..Len(W) /\ (i = 1 \/ 1 < i) /\ f[1] = from /\ f[i] = W[i][1]
    BY <1>1
  <2> HIDE DEF f
  <2> QED BY <1>1, <1>3, <2>1, <2>2, <2>3
<1> QED BY <1>3, <1>4, <1>5

-----------------------------------------------------------------------------
(* Spans of a group of blocks. *)

Block == [kind : {"heading", "table", "paragraph"}, level : Nat, start : Nat, end : Nat]

\* Blocks in the order of the page, with blank space between them.
PageOrder(group) ==
    /\ \A i \in DOMAIN group : group[i].start < group[i].end
    /\ \A i \in DOMAIN group : \A j \in DOMAIN group : i < j => group[i].end < group[j].start

\* Of two spans in a row the second begins the next block, or both are windows of one block.
Follows(r, s, t, group, n, k) ==
    \/ \E m \in n..(k - 1) : s[2] = group[m].end /\ r[1] = group[m + 1].start
    \/ \E m \in n..k : \E overlap \in {0, Overlap} :
          /\ group[m].start <= s[1] /\ s[2] < group[m].end
          /\ s[2] = WindowEnd(t, s[1], group[m].end)
          /\ r[1] = NextWindow(t, s[1], s[2], overlap)
          /\ r[2] = WindowEnd(t, r[1], group[m].end)

\* Spans that lay out the blocks from the n-th to the k-th.
Laid(P, t, group, n, k) ==
    /\ P \in Seq(Span) /\ Len(P) >= 1
    /\ P[1][1] = group[n].start /\ P[Len(P)][2] = group[k].end
    /\ \A i \in 1..Len(P) :
          group[n].start <= P[i][1] /\ P[i][1] < P[i][2] /\ P[i][2] <= group[k].end
    /\ \A i \in 1..(Len(P) - 1) :
          P[i][1] < P[i + 1][1] /\ Follows(P[i + 1], P[i], t, group, n, k)

LEMMA PlacesOf ==
    ASSUME NEW group \in Seq(Block), PageOrder(group), NEW n \in 1..Len(group)
    PROVE  /\ group[n] \in Block
           /\ group[n].start \in Nat /\ group[n].end \in Nat /\ group[n].start < group[n].end
           /\ \A k \in 1..Len(group) : n < k => group[n].end < group[k].start
<1>1. group[n] \in Block
  BY ElementOfSeq
<1>2. DOMAIN group = 1..Len(group)
  OBVIOUS
<1> QED BY <1>1, <1>2 DEF Block, PageOrder

\* Windows lay out a block.
LEMMA WindowsLay ==
    ASSUME NEW t \in AnyText, NEW group \in Seq(Block), PageOrder(group),
           NEW n \in 1..Len(group), NEW overlap \in {0, Overlap}
    PROVE  Laid(SplitOversized(t, group[n].start, group[n].end, overlap), t, group, n, n)
<1> DEFINE start == group[n].start
           end == group[n].end
           W == SplitOversized(t, start, end, overlap)
<1>1. start \in Nat /\ end \in Nat /\ start < end /\ overlap \in Nat
  BY ChunkingAssumption, PlacesOf
<1> HIDE DEF start, end
<1>2. Chain(W, t, start, end, overlap)
  BY <1>1, WindowsAreAChain
<1> HIDE DEF W
<1>3. /\ \A i \in 1..Len(W) : /\ W[i][1] \in Nat /\ W[i][2] \in Nat
                              /\ start <= W[i][1] /\ W[i][1] < W[i][2] /\ W[i][2] <= end
      /\ \A i \in 1..(Len(W) - 1) : W[i][1] < W[i + 1][1] /\ W[i + 1][1] <= W[i][2]
  BY <1>1, <1>2, ChainIs
<1>4. /\ W \in Seq(Span) /\ Len(W) \in Nat /\ Len(W) >= 1 /\ W[1][1] = start /\ W[Len(W)][2] = end
      /\ \A i \in 1..Len(W) : W[i][1] < end /\ W[i][2] = WindowEnd(t, W[i][1], end)
      /\ \A i \in 1..(Len(W) - 1) :
            W[i][2] < end /\ W[i + 1][1] = NextWindow(t, W[i][1], W[i][2], overlap)
  BY <1>2 DEF Chain
<1>5. ASSUME NEW i \in 1..(Len(W) - 1) PROVE Follows(W[i + 1], W[i], t, group, n, n)
  <2>1. i \in 1..Len(W) /\ i + 1 \in 1..Len(W) /\ n \in n..n
    BY <1>4
  <2>2. /\ group[n].start <= W[i][1] /\ W[i][2] < group[n].end
        /\ W[i][2] = WindowEnd(t, W[i][1], group[n].end)
        /\ W[i + 1][1] = NextWindow(t, W[i][1], W[i][2], overlap)
        /\ W[i + 1][2] = WindowEnd(t, W[i + 1][1], group[n].end)
    BY <1>3, <1>4, <2>1 DEF start, end
  <2> QED BY <2>1, <2>2 DEF Follows
<1>6. Laid(W, t, group, n, n)
  BY <1>3, <1>4, <1>5 DEF Laid, start, end
<1> QED BY <1>6 DEF W, start, end

\* So does one span lay out the blocks it reaches over.
LEMMA OneSpanLays ==
    ASSUME NEW t, NEW group \in Seq(Block), PageOrder(group),
           NEW n \in 1..Len(group), NEW k \in n..Len(group)
    PROVE  Laid(<<<<group[n].start, group[k].end>>>>, t, group, n, k)
<1>1. /\ group[n].start \in Nat /\ group[n].end \in Nat
      /\ group[k].start \in Nat /\ group[k].end \in Nat
  BY PlacesOf
<1>2. group[n].start < group[k].end
  <2>1. n = k \/ group[n].end < group[k].start
    BY PlacesOf
  <2>2. group[n].start < group[n].end /\ group[k].start < group[k].end
    BY PlacesOf
  <2> QED BY <1>1, <2>1, <2>2
<1>3. <<group[n].start, group[k].end>> \in Span
  BY <1>1 DEF Span
<1> DEFINE s == <<group[n].start, group[k].end>>
<1>4. s[1] = group[n].start /\ s[2] = group[k].end
  OBVIOUS
<1> HIDE DEF s
<1>5. <<s>> \in Seq(Span) /\ Len(<<s>>) = 1 /\ <<s>>[1] = s
  BY <1>3 DEF s
<1>6. Laid(<<s>>, t, group, n, k)
  BY <1>1, <1>2, <1>4, <1>5 DEF Laid
<1> QED BY <1>6 DEF s

LEMMA SpanIs ==
    ASSUME NEW P \in Seq(Span), NEW i \in 1..Len(P)
    PROVE  P[i] \in Span /\ P[i][1] \in Nat /\ P[i][2] \in Nat
<1>1. P[i] \in Span
  BY ElementOfSeq
<1> QED BY <1>1 DEF Span

\* Spans over neighbouring blocks make up spans over all of them.
LEMMA Joined ==
    ASSUME NEW t, NEW group \in Seq(Block), PageOrder(group),
           NEW n \in 1..Len(group), NEW k \in n..Len(group), NEW l \in (k + 1)..Len(group),
           NEW P, NEW Q, Laid(P, t, group, n, k), Laid(Q, t, group, k + 1, l)
    PROVE  Laid(P \o Q, t, group, n, l)
<1> DEFINE W == P \o Q
           a == Len(P)
           b == Len(Q)
<1>1. /\ P \in Seq(Span) /\ a \in Nat /\ a >= 1
      /\ P[1][1] = group[n].start /\ P[a][2] = group[k].end
      /\ \A i \in 1..a : group[n].start <= P[i][1] /\ P[i][1] < P[i][2] /\ P[i][2] <= group[k].end
      /\ \A i \in 1..(a - 1) : P[i][1] < P[i + 1][1] /\ Follows(P[i + 1], P[i], t, group, n, k)
  BY DEF Laid
<1>2. /\ Q \in Seq(Span) /\ b \in Nat /\ b >= 1
      /\ Q[1][1] = group[k + 1].start /\ Q[b][2] = group[l].end
      /\ \A i \in 1..b : group[k + 1].start <= Q[i][1] /\ Q[i][1] < Q[i][2] /\ Q[i][2] <= group[l].end
      /\ \A i \in 1..(b - 1) : Q[i][1] < Q[i + 1][1] /\ Follows(Q[i + 1], Q[i], t, group, k + 1, l)
  BY DEF Laid
<1>3. /\ W \in Seq(Span) /\ Len(W) = a + b
      /\ \A i \in 1..(a + b) : W[i] = IF i <= a THEN P[i] ELSE Q[i - a]
  BY <1>1, <1>2, ConcatProperties
<1> HIDE DEF W, a, b
<1>4. /\ k \in 1..Len(group) /\ k + 1 \in 1..Len(group) /\ l \in 1..Len(group)
      /\ n \in Nat /\ k \in Nat /\ l \in Nat /\ n <= k /\ k + 1 <= l
  OBVIOUS
<1>5. /\ group[n].start \in Nat /\ group[k].end \in Nat /\ group[k + 1].start \in Nat
      /\ group[l].end \in Nat /\ group[k].end < group[k + 1].start
      /\ group[n].start <= group[k + 1].start /\ group[k].end <= group[l].end
  <2>1. /\ group[n].start \in Nat /\ group[n].end \in Nat /\ group[n].start < group[n].end
        /\ n < k + 1 => group[n].end < group[k + 1].start
    BY <1>4, PlacesOf
  <2>2. /\ group[k].start \in Nat /\ group[k].end \in Nat /\ group[k].end < group[k + 1].start
    BY <1>4, PlacesOf
  <2>3. /\ group[l].start \in Nat /\ group[l].end \in Nat /\ group[l].start < group[l].end
        /\ group[k].end < group[l].start
    BY <1>4, PlacesOf
  <2>4. group[k + 1].start \in Nat
    BY <1>4, PlacesOf
  <2>5. n < k + 1
    BY <1>4
  <2>6. group[n].start <= group[k + 1].start
    BY SMTT(60), <2>1, <2>4, <2>5
  <2>7. group[k].end < group[k + 1].start
    BY <2>2, <2>4
  <2>8. group[k].end <= group[l].end
    BY <2>2, <2>3
  <2> QED BY <2>1, <2>2, <2>3, <2>4, <2>6, <2>7, <2>8
<1>6. /\ \A i \in 1..a : P[i][1] \in Nat /\ P[i][2] \in Nat
      /\ \A i \in 1..b : Q[i][1] \in Nat /\ Q[i][2] \in Nat
  BY <1>1, <1>2, SpanIs DEF a, b
<1>7. W[1][1] = group[n].start /\ W[Len(W)][2] = group[l].end
  BY SMTT(60), <1>1, <1>2, <1>3
<1>8. ASSUME NEW i \in 1..Len(W)
      PROVE  group[n].start <= W[i][1] /\ W[i][1] < W[i][2] /\ W[i][2] <= group[l].end
  <2>1. CASE i <= a
    <3>1. i \in 1..a /\ W[i] = P[i]
      BY <1>1, <1>2, <1>3, <2>1
    <3>2. /\ group[n].start <= P[i][1] /\ P[i][1] < P[i][2] /\ P[i][2] <= group[k].end
          /\ P[i][2] \in Nat
      BY <3>1, <1>1, <1>6
    <3>3. P[i][2] <= group[l].end
      BY SMTT(60), <3>2, <1>5
    <3> QED BY <3>1, <3>2, <3>3
  <2>2. CASE i > a
    <3>1. i - a \in 1..b /\ W[i] = Q[i - a]
      BY SMTT(60), <1>1, <1>2, <1>3, <2>2
    <3>2. PICK j \in 1..b : j = i - a
      BY <3>1
    <3>3. /\ group[k + 1].start <= Q[j][1] /\ Q[j][1] < Q[j][2] /\ Q[j][2] <= group[l].end
          /\ Q[j][1] \in Nat
      BY <1>2, <1>6
    <3>4. group[n].start <= Q[j][1]
      BY SMTT(60), <3>3, <1>5
    <3> QED BY <3>1, <3>2, <3>3, <3>4
  <2> QED BY <1>1, <2>1, <2>2
<1>9. ASSUME NEW i \in 1..(Len(W) - 1)
      PROVE  W[i][1] < W[i + 1][1] /\ Follows(W[i + 1], W[i], t, group, n, l)
  <2>1. CASE i < a
    <3>1. i \in 1..(a - 1) /\ W[i] = P[i] /\ W[i + 1] = P[i + 1]
      BY SMTT(60), <1>1, <1>2, <1>3, <2>1
    <3>2. P[i][1] < P[i + 1][1] /\ Follows(P[i + 1], P[i], t, group, n, k)
      BY <3>1, <1>1
    <3>3. n..(k - 1) \subseteq n..(l - 1) /\ n..k \subseteq n..l
      BY <1>4
    <3>4. Follows(P[i + 1], P[i], t, group, n, l)
      BY <3>2, <3>3, Zenon DEF Follows
    <3> QED BY <3>1, <3>2, <3>4
  <2>2. CASE i = a
    <3>1. a \in 1..a /\ 1 \in 1..b /\ W[i] = P[a] /\ W[i + 1] = Q[1]
      BY SMTT(60), <1>1, <1>2, <1>3, <2>2
    <3>2. P[a][1] < P[a][2] /\ P[a][2] = group[k].end /\ Q[1][1] = group[k + 1].start
      BY <3>1, <1>1, <1>2
    <3>3. P[a][1] < Q[1][1]
      <4>1. P[a][1] \in Nat /\ P[a][2] \in Nat /\ Q[1][1] \in Nat
        BY <3>1, <1>6
      <4> QED BY SMTT(60), <4>1, <3>2, <1>5
    <3>4. k \in n..(l - 1)
      BY <1>4
    <3>5. Follows(Q[1], P[a], t, group, n, l)
      BY <3>2, <3>4 DEF Follows
    <3> QED BY <3>1, <3>3, <3>5
  <2>3. CASE i > a
    <3>1. PICK j \in 1..(b - 1) : i = a + j
      <4>1. a \in Nat /\ b \in Nat /\ i \in 1..((a + b) - 1)
        BY <1>1, <1>2, <1>3
      <4>2. i - a \in 1..(b - 1) /\ i = a + (i - a)
        BY <2>3, <4>1
      <4> QED BY <4>2
    <3>2. W[i] = Q[j] /\ W[i + 1] = Q[j + 1]
      <4>1. /\ i \in 1..(a + b) /\ i + 1 \in 1..(a + b)
            /\ ~(i <= a) /\ ~(i + 1 <= a) /\ i - a = j /\ (i + 1) - a = j + 1
        <5>1. a \in Nat /\ b \in Nat /\ j \in 1..(b - 1)
          BY <1>1, <1>2
        <5> QED BY <3>1, <5>1
      <4>2. W[i] = Q[i - a] /\ W[i + 1] = Q[(i + 1) - a]
        BY <1>3, <4>1
      <4> QED BY <4>1, <4>2
    <3>3. Q[j][1] < Q[j + 1][1] /\ Follows(Q[j + 1], Q[j], t, group, k + 1, l)
      BY <1>2
    <3>4. (k + 1)..(l - 1) \subseteq n..(l - 1) /\ (k + 1)..l \subseteq n..l
      BY <1>4
    <3>5. Follows(Q[j + 1], Q[j], t, group, n, l)
      BY <3>3, <3>4, Zenon DEF Follows
    <3> QED BY <3>2, <3>3, <3>5
  <2> QED BY <1>1, <2>1, <2>2, <2>3
<1>10. Laid(W, t, group, n, l)
  BY <1>1, <1>2, <1>3, <1>7, <1>8, <1>9 DEF Laid
<1> QED BY <1>10 DEF W

\* A piece begins with a block and ends with the same one or one that still fits.
LEMMA LastFittingIs ==
    ASSUME NEW group \in Seq(Block), NEW n \in 1..Len(group)
    PROVE  /\ LastFitting(group, n) \in n..Len(group)
           /\ \/ LastFitting(group, n) = n
              \/ group[LastFitting(group, n)].end - group[n].start <= MaxChars
<1> DEFINE T == {n} \cup {m \in (n + 1)..Len(group) :
                            \A k \in (n + 1)..m : group[k].end - group[n].start <= MaxChars}
           last == Max(T)
<1>1. T \in SUBSET Nat /\ T # {} /\ \A y \in T : y <= Len(group)
  OBVIOUS
<1>2. last \in T
  <2>1. Len(group) \in Nat
    OBVIOUS
  <2> HIDE DEF T
  <2> QED BY <1>1, <2>1, MaxIsGreatest
<1>3. last \in n..Len(group)
  <2> HIDE DEF last
  <2> QED BY <1>2
<1>4. last = n \/ group[last].end - group[n].start <= MaxChars
  <2>1. CASE last # n
    <3> HIDE DEF last
    <3>1. last \in (n + 1)..last /\ \A k \in (n + 1)..last : group[k].end - group[n].start <= MaxChars
      BY <1>2, <2>1
    <3> QED BY <3>1
  <2> QED BY <2>1
<1>5. LastFitting(group, n) = last
  BY DEF LastFitting
<1> QED BY <1>3, <1>4, <1>5

LEMMA PieceLays ==
    ASSUME NEW t \in AnyText, NEW group \in Seq(Block), PageOrder(group), NEW n \in 1..Len(group)
    PROVE  Laid(Piece(t, group[n].start, group[LastFitting(group, n)].end, 0), t, group, n, LastFitting(group, n))
<1>1. PICK k \in n..Len(group) : /\ k = LastFitting(group, n)
                                 /\ k = n \/ group[k].end - group[n].start <= MaxChars
  BY LastFittingIs
<1>2. k \in 1..Len(group) /\ n \in n..Len(group)
  OBVIOUS
<1>3. group[k].end \in Nat /\ group[n].start \in Nat /\ MaxChars \in Nat
  BY <1>2, PlacesOf, ChunkingAssumption
<1>4. CASE group[k].end - group[n].start > MaxChars
  <2>1. k = n
    BY <1>1, <1>3, <1>4
  <2>2. Laid(SplitOversized(t, group[n].start, group[n].end, 0), t, group, n, n)
    BY WindowsLay
  <2> QED BY <1>1, <1>4, <2>1, <2>2 DEF Piece
<1>5. CASE ~(group[k].end - group[n].start > MaxChars)
  <2>1. Laid(<<<<group[n].start, group[k].end>>>>, t, group, n, k)
    BY OneSpanLays
  <2> QED BY <1>1, <1>5, <2>1 DEF Piece
<1> QED BY <1>4, <1>5

\* The spans of a group, from any block of it.
PackedFrom(f, t, group) ==
    f = [n \in 1..(Len(group) + 1) |->
            IF n > Len(group) THEN <<>>
            ELSE LET last == LastFitting(group, n)
                 IN Piece(t, group[n].start, group[last].end, 0) \o f[last + 1]]

LEMMA PackedDefined ==
    ASSUME NEW t \in AnyText, NEW group \in Seq(Block), PageOrder(group)
    PROVE  \E f : PackedFrom(f, t, group) /\ PackSpans(t, group) = f[1]
<1> DEFINE len == Len(group)
           S == 1..(len + 1)
           piece(x) == Piece(t, group[x].start, group[LastFitting(group, x)].end, 0)
           next(x) == LastFitting(group, x) + 1
           stop == {len + 1}
           V == Seq(Span)
           rank == [x \in S |-> len + 1 - x]
           base == [x \in S |-> <<>>]
           call == [x \in S |-> IF x \in stop THEN x ELSE next(x)]
           h == [p \in S \X V |-> IF p[1] \in stop THEN <<>> ELSE piece(p[1]) \o p[2]]
<1>0. len \in Nat
  OBVIOUS
<1>1. ASSUME NEW x \in S \ stop
      PROVE  next(x) \in S /\ x < next(x) /\ piece(x) \in V
  <2>1. x \in 1..Len(group)
    BY <1>0
  <2>2. LastFitting(group, x) \in x..Len(group)
    BY <2>1, LastFittingIs
  <2>3. piece(x) \in V
    BY <2>1, PieceLays DEF Laid
  <2> HIDE DEF piece
  <2> QED BY <2>1, <2>2, <2>3
<1> HIDE DEF piece, next
<1>2. rank \in [S -> 0..len] /\ stop \in SUBSET S /\ base \in [S -> V]
  BY <1>0
<1>3. call \in [S -> S]
  BY <1>1
<1>4. h \in [S \X V -> V]
  <2>1. ASSUME NEW x \in S \ stop, NEW v \in V PROVE piece(x) \o v \in V
    <3>1. piece(x) \in V
      BY <1>1
    <3> QED BY <3>1, ConcatProperties
  <2>2. <<>> \in V
    OBVIOUS
  <2> HIDE DEF V, stop, S
  <2> QED BY <2>1, <2>2
<1>5. \A x \in S \ stop : rank[call[x]] < rank[x]
  BY <1>0, <1>1
<1>6. PICK f \in [S -> V] : \A x \in S : f[x] = IF x \in stop THEN base[x]
                                              ELSE h[<<x, f[call[x]]>>]
  <2> HIDE DEF S, V, rank, len, stop, base, call, h
  <2>1. Recurses(S, V, len, rank, stop, base, call, h)
    BY <1>0, <1>2, <1>3, <1>4, <1>5 DEF Recurses
  <2> QED BY <2>1, Recursion
<1>7. ASSUME NEW x \in S
      PROVE  f[x] = IF x > len THEN <<>> ELSE piece(x) \o f[next(x)]
  <2>1. CASE x \in stop
    <3>1. x > len
      BY <1>0, <2>1
    <3>2. f[x] = base[x]
      <4> HIDE DEF base, stop, S, h, call
      <4> QED BY <1>6, <2>1
    <3> QED BY <3>1, <3>2
  <2>2. CASE x \notin stop
    <3>1. call[x] = next(x) /\ f[next(x)] \in V /\ ~(x > len)
      BY <1>0, <1>1, <2>2
    <3>2. f[x] = h[<<x, f[next(x)]>>]
      BY <1>6, <2>2, <3>1
    <3>3. h[<<x, f[next(x)]>>] = piece(x) \o f[next(x)]
      BY <2>2, <3>1
    <3> QED BY <3>1, <3>2, <3>3
  <2> QED BY <2>1, <2>2
<1>8. PackedFrom(f, t, group)
  BY <1>6, <1>7 DEF PackedFrom, piece, next
<1> DEFINE g == CHOOSE e : PackedFrom(e, t, group)
<1>9. PackedFrom(g, t, group)
  BY <1>8
<1>10. PackSpans(t, group) = g[1]
  BY DEF PackSpans, PackedFrom
<1> QED BY <1>9, <1>10

\* Packing lays out the whole group.
LEMMA PackingLays ==
    ASSUME NEW t \in AnyText, NEW group \in Seq(Block), PageOrder(group), group # <<>>
    PROVE  Laid(PackSpans(t, group), t, group, 1, Len(group))
<1>1. PICK f : PackedFrom(f, t, group) /\ PackSpans(t, group) = f[1]
  BY PackedDefined
<1> DEFINE len == Len(group)
           P == {d \in Nat : \A x \in 1..len : len - x <= d => Laid(f[x], t, group, x, len)}
<1>0. len \in Nat /\ len >= 1
  OBVIOUS
<1>2. ASSUME NEW x \in 1..len
      PROVE  \/ LastFitting(group, x) = len /\ Laid(f[x], t, group, x, len)
             \/ \E k \in x..(len - 1) : Laid(f[k + 1], t, group, k + 1, len) => Laid(f[x], t, group, x, len)
  <2>1. PICK k \in x..Len(group) : k = LastFitting(group, x)
    BY LastFittingIs
  <2> DEFINE piece == Piece(t, group[x].start, group[k].end, 0)
  <2>2. Laid(piece, t, group, x, k)
    BY <2>1, PieceLays
  <2>3. f[x] = piece \o f[k + 1]
    <3>1. x \in 1..(len + 1) /\ ~(x > len)
      BY <1>0
    <3>2. f = [n \in 1..(len + 1) |->
                  IF n > len THEN <<>>
                  ELSE Piece(t, group[n].start, group[LastFitting(group, n)].end, 0)
                          \o f[LastFitting(group, n) + 1]]
      BY <1>1 DEF PackedFrom
    <3>3. f[x] = Piece(t, group[x].start, group[LastFitting(group, x)].end, 0)
                    \o f[LastFitting(group, x) + 1]
      BY <3>1, <3>2, Zenon
    <3> QED BY <3>3, <2>1
  <2> HIDE DEF piece
  <2>4. CASE k = len
    <3>1. f[k + 1] = <<>>
      <4>1. len + 1 \in 1..(len + 1) /\ len + 1 > len
        BY <1>0
      <4> QED BY <4>1, <2>4, <1>1 DEF PackedFrom
    <3>2. piece \in Seq(Span)
      BY <2>2 DEF Laid
    <3>3. f[x] = piece
      BY <2>3, <3>1, <3>2, ConcatEmptySeq
    <3> QED BY <3>3, <2>1, <2>2, <2>4
  <2>5. CASE k # len
    <3>1. k \in x..(len - 1) /\ len \in (k + 1)..Len(group)
      BY <2>5, <1>0
    <3>2. Laid(f[k + 1], t, group, k + 1, len) => Laid(f[x], t, group, x, len)
      BY <2>2, <2>3, <3>1, Joined
    <3> QED BY <3>1, <3>2
  <2> QED BY <2>4, <2>5
<1>3. 0 \in P
  <2>1. ASSUME NEW x \in 1..len, len - x <= 0 PROVE Laid(f[x], t, group, x, len)
    <3>1. x..(len - 1) = {}
      BY <2>1, <1>0
    <3> QED BY <1>2, <3>1
  <2> QED BY <2>1
<1>4. ASSUME NEW d \in P PROVE d + 1 \in P
  <2>1. d \in Nat /\ \A x \in 1..len : len - x <= d => Laid(f[x], t, group, x, len)
    OBVIOUS
  <2>2. ASSUME NEW x \in 1..len, len - x <= d + 1 PROVE Laid(f[x], t, group, x, len)
    <3>1. CASE Laid(f[x], t, group, x, len)
      BY <3>1
    <3>2. CASE \E k \in x..(len - 1) : Laid(f[k + 1], t, group, k + 1, len) => Laid(f[x], t, group, x, len)
      <4>1. PICK k \in x..(len - 1) : Laid(f[k + 1], t, group, k + 1, len) => Laid(f[x], t, group, x, len)
        BY <3>2
      <4>2. k + 1 \in 1..len /\ len - (k + 1) <= d
        BY <1>0, <2>1, <2>2
      <4>3. Laid(f[k + 1], t, group, k + 1, len)
        <5> HIDE DEF P
        <5> QED BY <2>1, <4>2
      <4> QED BY <4>1, <4>3
    <3> QED BY <1>2, <3>1, <3>2
  <2> QED BY <2>1, <2>2
<1>5. P = Nat
  <2>1. P \in SUBSET Nat
    OBVIOUS
  <2> HIDE DEF P
  <2> QED BY <1>3, <1>4, <2>1, Induction
<1>6. len - 1 \in P /\ 1 \in 1..len
  <2> HIDE DEF P
  <2> QED BY <1>0, <1>5
<1>7. Laid(f[1], t, group, 1, len)
  BY <1>6
<1> QED BY <1>1, <1>7

LEMMA SpansLay ==
    ASSUME NEW t \in AnyText, NEW group \in Seq(Block), PageOrder(group), group # <<>>
    PROVE  Laid(Spans(t, group), t, group, 1, Len(group))
<1>1. Len(group) \in Nat /\ Len(group) >= 1
  OBVIOUS
<1>2. 1 \in 1..Len(group) /\ Head(group) = group[1] /\ Final(group) = group[Len(group)]
  BY <1>1 DEF Final
<1>3. CASE Len(group) = 1 /\ group[1].kind = "table"
  <2>1. Spans(t, group) = <<<<group[1].start, group[1].end>>>>
    BY <1>2, <1>3 DEF Spans
  <2>2. 1 \in 1..Len(group)
    BY <1>1
  <2> QED BY <1>3, <2>1, <2>2, OneSpanLays
<1>4. CASE ~(Len(group) = 1 /\ group[1].kind = "table")
           /\ Len(group) = 1 /\ group[1].end - group[1].start > MaxChars
  <2>1. Spans(t, group) = SplitOversized(t, group[1].start, group[1].end, Overlap)
    BY <1>2, <1>4 DEF Spans
  <2> QED BY <1>2, <1>4, <2>1, WindowsLay
<1>5. CASE ~(Len(group) = 1 /\ group[1].kind = "table")
           /\ ~(Len(group) = 1 /\ group[1].end - group[1].start > MaxChars)
  <2>1. Spans(t, group) = PackSpans(t, group)
    BY <1>2, <1>5 DEF Spans
  <2> QED BY <2>1, PackingLays
<1> QED BY <1>3, <1>4, <1>5

-----------------------------------------------------------------------------
(* Drafts. *)

Labels == Seq([page : Nat, start : Nat])
Draft == [start : Nat, end : Nat, origin : Nat, section : Labels]

\* How far a draft reaches back into the one before it.
Reached(t, from, previous) == Max({Snap(t, Max({from - Overlap, 0}), 0), previous + 1})

LEMMA ReachedIs ==
    ASSUME NEW t \in AnyText, NEW from \in Nat, NEW previous \in Nat
    PROVE  /\ Reached(t, from, previous) \in Nat /\ previous < Reached(t, from, previous)
           /\ previous < from => Reached(t, from, previous) <= from
           /\ \/ Reached(t, from, previous) = previous + 1
              \/ Reached(t, from, previous) = Snap(t, Max({from - Overlap, 0}), 0)
<1> DEFINE back == Max({from - Overlap, 0})
           s == Snap(t, back, 0)
<1>1. Overlap \in Nat
  BY ChunkingAssumption
<1>2. back \in Nat /\ back <= from
  BY <1>1, MaxOfTwo
<1> HIDE DEF back
<1>3. s \in Nat /\ s <= from
  <2>1. s \in Nat /\ s <= back
    BY <1>2, SnapIs
  <2> HIDE DEF s
  <2> QED BY <1>2, <2>1
<1> HIDE DEF s
<1>4. Max({s, previous + 1}) = IF s >= previous + 1 THEN s ELSE previous + 1
  BY <1>3, MaxOfTwo
<1> DEFINE x == Max({s, previous + 1})
<1>5. x \in Nat /\ previous < x /\ (previous < from => x <= from) /\ (x = previous + 1 \/ x = s)
  <2> HIDE DEF x
  <2> QED BY <1>3, <1>4 DEF x
<1> QED BY <1>5 DEF Reached, s, back

\* The m-th draft is that of the span, widened if it does not overlap the one before it.
IsNext(F, m, t, span, label) ==
    /\ F[m].section = label /\ F[m].origin = span[1] /\ F[m].end = span[2]
    /\ F[m].start = IF Overlap > 0 /\ m > 1 /\ span[1] >= F[m - 1].end
                    THEN Reached(t, span[1], F[m - 1].start) ELSE span[1]

\* F is `done` and the drafts of the first n spans.
Added(F, t, done, spans, label, n) ==
    /\ F \in Seq(Draft) /\ Len(F) = Len(done) + n
    /\ \A i \in 1..Len(done) : F[i] = done[i]
    /\ \A i \in 1..n : IsNext(F, Len(done) + i, t, spans[i], label)

NextDraft(t, done, span, label) ==
    [start |-> Widened(t, done, span[1]), end |-> span[2], origin |-> span[1], section |-> label]

LEMMA NextDraftIs ==
    ASSUME NEW t \in AnyText, NEW done \in Seq(Draft), NEW span \in Span, NEW label \in Labels
    PROVE  NextDraft(t, done, span, label) \in Draft
<1>1. span[1] \in Nat /\ span[2] \in Nat /\ Overlap \in Nat
  BY ChunkingAssumption DEF Span
<1>2. Widened(t, done, span[1]) \in Nat
  <2>1. CASE Overlap > 0 /\ done # <<>> /\ span[1] >= Final(done).end
    <3>1. Len(done) \in 1..Len(done)
      BY <2>1
    <3>2. Final(done) \in Draft
      BY <3>1, ElementOfSeq DEF Final
    <3>3. Final(done).start \in Nat
      BY <3>2 DEF Draft
    <3>4. Reached(t, span[1], Final(done).start) \in Nat
      BY <1>1, <3>3, ReachedIs
    <3> QED BY <2>1, <3>4 DEF Widened, Reached
  <2>2. CASE ~(Overlap > 0 /\ done # <<>> /\ span[1] >= Final(done).end)
    BY <1>1, <2>2 DEF Widened
  <2> QED BY <2>1, <2>2
<1> QED BY <1>1, <1>2 DEF NextDraft, Draft

LEMMA AddedOneMore ==
    ASSUME NEW t \in AnyText, NEW done \in Seq(Draft), NEW spans \in Seq(Span),
           NEW label \in Labels, NEW n \in 0..(Len(spans) - 1),
           NEW F, Added(F, t, done, spans, label, n)
    PROVE  Added(Append(F, NextDraft(t, F, spans[n + 1], label)), t, done, spans, label, n + 1)
<1> DEFINE d == NextDraft(t, F, spans[n + 1], label)
           G == Append(F, d)
           a == Len(done)
<1>1. /\ F \in Seq(Draft) /\ Len(F) = a + n /\ a \in Nat /\ n \in Nat
      /\ \A i \in 1..a : F[i] = done[i]
      /\ \A i \in 1..n : IsNext(F, a + i, t, spans[i], label)
  BY DEF Added
<1>2. n + 1 \in 1..Len(spans)
  OBVIOUS
<1>3. spans[n + 1] \in Span
  BY <1>2, SpanIs
<1>4. d \in Draft
  BY <1>1, <1>3, NextDraftIs
<1>5. /\ d.section = label /\ d.origin = spans[n + 1][1] /\ d.end = spans[n + 1][2]
      /\ d.start = Widened(t, F, spans[n + 1][1])
  BY DEF NextDraft
<1> HIDE DEF d, a
<1>6. /\ G \in Seq(Draft) /\ Len(G) = a + n + 1 /\ G[a + n + 1] = d
      /\ \A i \in 1..(a + n) : G[i] = F[i]
  BY <1>1, <1>4, AppendProperties
<1> HIDE DEF G
<1>7. \A i \in 1..a : G[i] = done[i]
  BY <1>1, <1>6
<1>8. ASSUME NEW i \in 1..n PROVE IsNext(G, a + i, t, spans[i], label)
  <2>1. IsNext(F, a + i, t, spans[i], label)
    BY <1>1
  <2>2. G[a + i] = F[a + i]
    BY <1>1, <1>6
  <2>3. a + i > 1 => G[(a + i) - 1] = F[(a + i) - 1]
    BY <1>1, <1>6
  <2>4. PICK m \in Nat : m = a + i
    BY <1>1
  <2>5. IsNext(F, m, t, spans[i], label) /\ G[m] = F[m] /\ (m > 1 => G[m - 1] = F[m - 1])
    <3>1. IsNext(F, m, t, spans[i], label)
      BY <2>1, <2>4
    <3>2. G[m] = F[m]
      BY <2>2, <2>4
    <3>3. m > 1 => G[m - 1] = F[m - 1]
      BY <2>3, <2>4
    <3> QED BY <3>1, <3>2, <3>3
  <2>6. IsNext(G, m, t, spans[i], label)
    <3>1. CASE m > 1
      BY <2>5, <3>1 DEF IsNext
    <3>2. CASE ~(m > 1)
      BY <2>5, <3>2 DEF IsNext
    <3> QED BY <3>1, <3>2
  <2> QED BY <2>4, <2>6
<1>9. IsNext(G, a + (n + 1), t, spans[n + 1], label)
  <2>1. a + (n + 1) = a + n + 1
    BY <1>1
  <2>2. PICK m \in Nat : m = a + (n + 1)
    BY <1>1
  <2>3. F # <<>> <=> m > 1
    BY <1>1, <2>2
  <2>4. F # <<>> => Final(F) = G[m - 1]
    <3>1. m - 1 = a + n
      BY <1>1, <2>2
    <3>2. F # <<>> => a + n \in 1..(a + n)
      BY <1>1
    <3> QED BY <1>1, <1>6, <3>1, <3>2 DEF Final
  <2>5. G[m] = d
    BY <1>6, <2>1, <2>2
  <2> DEFINE from == spans[n + 1][1]
  <2>6. G[m].start = IF Overlap > 0 /\ m > 1 /\ from >= G[m - 1].end
                     THEN Reached(t, from, G[m - 1].start) ELSE from
    <3>1. CASE m > 1
      <4>1. F # <<>> /\ Final(F) = G[m - 1]
        BY <3>1, <2>3, <2>4
      <4> QED BY <1>5, <2>5, <3>1, <4>1 DEF Widened, Reached
    <3>2. CASE ~(m > 1)
      BY <1>5, <2>3, <2>5, <3>2 DEF Widened
    <3> QED BY <3>1, <3>2
  <2>7. IsNext(G, m, t, spans[n + 1], label)
    BY <1>5, <2>5, <2>6 DEF IsNext
  <2> QED BY <2>2, <2>7
<1>10. \A i \in 1..(n + 1) : IsNext(G, a + i, t, spans[i], label)
  <2>1. \A i \in 1..(n + 1) : i \in 1..n \/ i = n + 1
    BY <1>1
  <2> QED BY <1>8, <1>9, <2>1
<1>11. Added(G, t, done, spans, label, n + 1)
  BY <1>1, <1>6, <1>7, <1>10 DEF Added, a
<1> QED BY <1>11 DEF G, d

DraftedFrom(f, t, done, spans, label) ==
    f = [n \in 0..Len(spans) |->
            IF n = 0 THEN done
            ELSE Append(f[n - 1],
                        [start |-> Widened(t, f[n - 1], spans[n][1]), end |-> spans[n][2],
                         origin |-> spans[n][1], section |-> label])]

LEMMA DraftedDefined ==
    ASSUME NEW t \in AnyText, NEW done \in Seq(Draft), NEW spans \in Seq(Span), NEW label \in Labels
    PROVE  \E f : DraftedFrom(f, t, done, spans, label)
<1> DEFINE len == Len(spans)
           S == 0..len
           stop == {0}
           V == Seq(Draft)
           more(x, v) == Append(v, NextDraft(t, v, spans[x], label))
           rank == [x \in S |-> x]
           base == [x \in S |-> done]
           call == [x \in S |-> IF x \in stop THEN x ELSE x - 1]
           h == [p \in S \X V |-> IF p[1] \in stop THEN done ELSE more(p[1], p[2])]
<1>0. len \in Nat
  OBVIOUS
<1>1. ASSUME NEW x \in S \ stop, NEW v \in V PROVE more(x, v) \in V
  <2>1. spans[x] \in Span
    BY <1>0, SpanIs
  <2>2. NextDraft(t, v, spans[x], label) \in Draft
    BY <2>1, NextDraftIs
  <2> QED BY <2>2, AppendProperties
<1> HIDE DEF more
<1>2. rank \in [S -> 0..len] /\ stop \in SUBSET S /\ base \in [S -> V] /\ call \in [S -> S]
  BY <1>0
<1>4. h \in [S \X V -> V]
  <2>1. done \in V
    OBVIOUS
  <2> HIDE DEF V, stop, S
  <2> QED BY <1>1, <2>1
<1>5. \A x \in S \ stop : rank[call[x]] < rank[x]
  BY <1>0
<1>6. PICK f \in [S -> V] : \A x \in S : f[x] = IF x \in stop THEN base[x]
                                              ELSE h[<<x, f[call[x]]>>]
  <2> HIDE DEF S, V, rank, len, stop, base, call, h
  <2>1. Recurses(S, V, len, rank, stop, base, call, h)
    BY <1>0, <1>2, <1>4, <1>5 DEF Recurses
  <2> QED BY <2>1, Recursion
<1>7. ASSUME NEW x \in S
      PROVE  f[x] = IF x = 0 THEN done ELSE more(x, f[x - 1])
  <2>1. CASE x = 0
    <3>1. f[x] = base[x]
      <4>1. x \in stop
        BY <2>1
      <4> HIDE DEF base, stop, S, h, call
      <4> QED BY <1>6, <4>1
    <3> QED BY <2>1, <3>1
  <2>2. CASE x # 0
    <3>0. x - 1 \in S /\ x \notin stop
      BY <1>0, <2>2
    <3>1. call[x] = x - 1 /\ f[x - 1] \in V /\ x \notin stop
      <4> HIDE DEF S, V, stop
      <4> QED BY <3>0
    <3>2. f[x] = h[<<x, f[x - 1]>>]
      BY <1>6, <3>1
    <3>3. h[<<x, f[x - 1]>>] = more(x, f[x - 1])
      BY <2>2, <3>1
    <3> QED BY <2>2, <3>2, <3>3
  <2> QED BY <2>1, <2>2
<1> QED BY SMTT(60), <1>6, <1>7 DEF DraftedFrom, more, NextDraft

\* A flush keeps the drafts it is given and adds one for each span of the group.
LEMMA FlushAdds ==
    ASSUME NEW t \in AnyText, NEW done \in Seq(Draft), NEW label \in Labels,
           NEW group \in Seq(Block), PageOrder(group), group # <<>>
    PROVE  Added(Flush(t, done, group, label), t, done, Spans(t, group), label, Len(Spans(t, group)))
<1> DEFINE spans == Spans(t, group)
<1>1. spans \in Seq(Span) /\ Len(spans) \in Nat
  BY SpansLay DEF Laid
<1> HIDE DEF spans
<1>2. PICK f : DraftedFrom(f, t, done, spans, label) /\ Flush(t, done, group, label) = f[Len(spans)]
  <2> DEFINE g == CHOOSE e : DraftedFrom(e, t, done, spans, label)
  <2>1. DraftedFrom(g, t, done, spans, label)
    BY <1>1, DraftedDefined
  <2>2. Flush(t, done, group, label) = g[Len(spans)]
    BY DEF Flush, DraftedFrom, spans
  <2> HIDE DEF g
  <2> QED BY <2>1, <2>2
<1> DEFINE P == {n \in Nat : n <= Len(spans) => Added(f[n], t, done, spans, label, n)}
<1>3. 0 \in P
  <2>1. f[0] = done
    BY <1>1, <1>2 DEF DraftedFrom
  <2>2. Added(done, t, done, spans, label, 0)
    BY DEF Added
  <2> QED BY <2>1, <2>2
<1>4. ASSUME NEW n \in P PROVE n + 1 \in P
  <2>1. SUFFICES ASSUME n + 1 <= Len(spans)
                 PROVE  Added(f[n + 1], t, done, spans, label, n + 1)
    OBVIOUS
  <2>2. n \in 0..(Len(spans) - 1) /\ n + 1 \in 0..Len(spans) /\ n + 1 # 0 /\ (n + 1) - 1 = n
    BY <1>1, <2>1
  <2>3. Added(f[n], t, done, spans, label, n)
    BY <1>1, <2>1
  <2>4. f[n + 1] = Append(f[n], NextDraft(t, f[n], spans[n + 1], label))
    BY <1>2, <2>2 DEF DraftedFrom, NextDraft
  <2> HIDE DEF P
  <2> QED BY <1>1, <2>2, <2>3, <2>4, AddedOneMore
<1>5. P = Nat
  <2>1. P \in SUBSET Nat
    OBVIOUS
  <2> HIDE DEF P
  <2> QED BY <1>3, <1>4, <2>1, Induction
<1>6. Len(spans) \in P
  <2> HIDE DEF P
  <2> QED BY <1>1, <1>5
<1>7. Added(f[Len(spans)], t, done, spans, label, Len(spans))
  BY <1>1, <1>6
<1> QED BY <1>2, <1>7 DEF spans

-----------------------------------------------------------------------------
(* The text of a page. *)

LEMMA TextsJoin ==
    ASSUME NEW u \in AnyText, NEW v \in AnyText
    PROVE  /\ u \o v \in AnyText /\ Len(u) \in Nat /\ Len(v) \in Nat
           /\ Len(u \o v) = Len(u) + Len(v)
           /\ \A p \in 1..(Len(u) + Len(v)) : (u \o v)[p] = IF p <= Len(u) THEN u[p] ELSE v[p - Len(u)]
  BY ConcatProperties DEF AnyText

\* A block that is read comes after all that was read before, which does not change, with
\* nothing but blanks in between.
Extends(t, u) == Len(u) <= Len(t) /\ \A p \in 1..Len(u) : t[p] = u[p]

LEMMA PageGrows ==
    ASSUME text \in AnyText, NEW blank \in Nat, NEW block \in AnyText, block # <<>>,
           NEW level \in Nat, NEW kind \in {"heading", "table", "paragraph"}
    PROVE  LET b == BlockOf(kind, level, blank, block)
               t == TextWith(blank, block)
           IN /\ b \in Block /\ b.kind = kind
              /\ t \in AnyText /\ Extends(t, text)
              /\ b.start = Len(text) + blank /\ b.start < b.end /\ b.end = Len(t)
              /\ \A p \in Len(text)..(b.start - 1) : IsSpace(t, p)
<1> DEFINE gap == [p \in 1..blank |-> TRUE]
           g == text \o gap
           t == g \o block
<1>1. block \in AnyText /\ Len(block) \in Nat /\ Len(block) >= 1 /\ Len(text) \in Nat
  BY DEF AnyText
<1>2. gap \in AnyText /\ Len(gap) = blank /\ \A p \in 1..blank : gap[p]
  <2>1. gap \in [1..blank -> Truth] /\ \A p \in 1..blank : gap[p]
    BY DEF Truth
  <2> HIDE DEF gap
  <2> QED BY <2>1, FunctionIsSequence DEF AnyText
<1> HIDE DEF gap
<1>3. /\ g \in AnyText /\ Len(g) = Len(text) + blank
      /\ \A p \in 1..(Len(text) + blank) : g[p] = IF p <= Len(text) THEN text[p] ELSE gap[p - Len(text)]
  BY <1>2, TextsJoin
<1> HIDE DEF g
<1>4. /\ t \in AnyText /\ Len(t) = Len(g) + Len(block)
      /\ \A p \in 1..(Len(g) + Len(block)) : t[p] = IF p <= Len(g) THEN g[p] ELSE block[p - Len(g)]
  BY <1>1, <1>3, TextsJoin
<1> HIDE DEF t
<1>5. \A p \in 1..(Len(text) + blank) : t[p] = g[p]
  BY <1>1, <1>3, <1>4
<1>6. Extends(t, text)
  BY <1>1, <1>3, <1>4, <1>5 DEF Extends
<1>7. ASSUME NEW p \in Len(text)..((Len(text) + blank) - 1) PROVE IsSpace(t, p)
  <2>1. PICK q \in 1..(Len(text) + blank) : q = p + 1
    BY <1>1
  <2>2. ~(q <= Len(text)) /\ q - Len(text) \in 1..blank
    BY <1>1, <2>1
  <2>3. t[q]
    BY <1>2, <1>3, <1>5, <2>2
  <2> QED BY <2>1, <2>3 DEF IsSpace
<1> DEFINE b == BlockOf(kind, level, blank, block)
<1>8. /\ b.start = Len(text) + blank /\ b.end = Len(text) + blank + Len(block)
      /\ b.kind = kind /\ b.level = level
      /\ b = [kind |-> kind, level |-> level,
              start |-> Len(text) + blank, end |-> Len(text) + blank + Len(block)]
      /\ TextWith(blank, block) = t
  BY DEF BlockOf, TextWith, gap, g, t
<1> HIDE DEF b
<1>9. b \in Block
  <2>1. Len(text) + blank \in Nat /\ Len(text) + blank + Len(block) \in Nat
    BY <1>1
  <2> QED BY <1>8, <2>1 DEF Block
<1>10. b.start < b.end /\ b.end = Len(t)
  BY <1>1, <1>3, <1>4, <1>8
<1> QED BY <1>4, <1>6, <1>7, <1>8, <1>9, <1>10 DEF b

-----------------------------------------------------------------------------
(* Headings. *)

\* The label of what comes after these headings of a page, and before any other.
LabelFits(label, heads, p) ==
    IF heads = {} THEN label = <<>> \/ Final(label).page < p
    ELSE label # <<>> /\ Final(label) = [page |-> p, start |-> Max(heads)]

Filed(d, heads, p) == LabelFits(d.section, {h \in heads : h <= d.origin}, p)

\* The drafts of a group that no heading interrupts are filed as the ones before it are.
LEMMA FlushFiles ==
    ASSUME NEW t \in AnyText, NEW done \in Seq(Draft), NEW label \in Labels,
           NEW group \in Seq(Block), PageOrder(group), NEW heads \in SUBSET Nat, NEW p,
           NEW limit \in Nat, LabelFits(label, heads, p),
           \A i \in 1..Len(done) : Filed(done[i], heads, p) /\ done[i].origin < limit,
           group # <<>> => /\ \A h \in heads : h <= group[1].start
                           /\ group[Len(group)].end <= limit
    PROVE  LET F == Flush(t, done, group, label) IN
           /\ F \in Seq(Draft)
           /\ \A i \in 1..Len(F) : Filed(F[i], heads, p) /\ F[i].origin < limit
<1> DEFINE F == Flush(t, done, group, label)
           spans == Spans(t, group)
           n == Len(spans)
           a == Len(done)
<1>1. CASE group = <<>>
  <2>1. F = done
    BY <1>1 DEF Flush
  <2> QED BY <2>1
<1>2. CASE group # <<>>
  <2>1. Added(F, t, done, spans, label, n) /\ Laid(spans, t, group, 1, Len(group))
    BY <1>2, FlushAdds, SpansLay
  <2> HIDE DEF F, spans
  <2>2. /\ F \in Seq(Draft) /\ Len(F) = a + n /\ a \in Nat /\ n \in Nat
        /\ \A i \in 1..a : F[i] = done[i]
        /\ \A i \in 1..n : IsNext(F, a + i, t, spans[i], label)
        /\ spans \in Seq(Span)
        /\ \A i \in 1..n : /\ group[1].start <= spans[i][1] /\ spans[i][1] < spans[i][2]
                           /\ spans[i][2] <= group[Len(group)].end
    BY <2>1 DEF Added, Laid
  <2> HIDE DEF n, a
  <2>3. group[1].start \in Nat /\ group[Len(group)].end \in Nat
    <3>1. 1 \in 1..Len(group) /\ Len(group) \in 1..Len(group)
      BY <1>2
    <3> QED BY <3>1, PlacesOf
  <2>4. ASSUME NEW i \in 1..n PROVE Filed(F[a + i], heads, p) /\ F[a + i].origin < limit
    <3>1. F[a + i].section = label /\ F[a + i].origin = spans[i][1]
      BY <2>2 DEF IsNext
    <3>2. spans[i][1] \in Nat /\ spans[i][2] \in Nat
      BY <2>2, SpanIs DEF n
    <3>3. spans[i][1] < limit /\ \A h \in heads : h <= spans[i][1]
      <4>1. /\ group[1].start <= spans[i][1] /\ spans[i][1] < spans[i][2]
            /\ spans[i][2] <= group[Len(group)].end
        BY <2>2
      <4>2. (\A h \in heads : h <= group[1].start) /\ group[Len(group)].end <= limit
        BY <1>2
      <4>3. spans[i][1] < limit
        BY <2>3, <3>2, <4>1, <4>2
      <4>4. ASSUME NEW h \in heads PROVE h <= spans[i][1]
        <5>1. h \in Nat /\ h <= group[1].start
          BY <4>2
        <5> QED BY <2>3, <3>2, <4>1, <5>1
      <4> QED BY <4>3, <4>4
    <3>4. {h \in heads : h <= spans[i][1]} = heads
      BY <3>3
    <3> QED BY <3>1, <3>3, <3>4 DEF Filed
  <2>5. ASSUME NEW i \in 1..Len(F) PROVE Filed(F[i], heads, p) /\ F[i].origin < limit
    <3>1. CASE i <= a
      <4>1. i \in 1..a
        BY <2>2, <3>1
      <4> QED BY <2>2, <4>1 DEF a
    <3>2. CASE i > a
      <4>1. PICK k \in 1..n : i = a + k
        <5>1. i - a \in 1..n /\ i = a + (i - a)
          BY <2>2, <3>2
        <5> QED BY <5>1
      <4> QED BY <2>4, <4>1
    <3> QED BY <2>2, <3>1, <3>2
  <2> QED BY <2>2, <2>5 DEF F
<1> QED BY <1>1, <1>2

\* A heading further on changes nothing for a draft.
LEMMA StaysFiled ==
    ASSUME NEW d \in Draft, NEW heads \in SUBSET Nat, NEW p, NEW s \in Nat, d.origin < s,
           Filed(d, heads, p)
    PROVE  Filed(d, heads \cup {s}, p)
<1>1. d.origin \in Nat
  BY DEF Draft
<1>2. {h \in heads \cup {s} : h <= d.origin} = {h \in heads : h <= d.origin}
  BY <1>1
<1> QED BY <1>2 DEF Filed

-----------------------------------------------------------------------------
(* A page that is being read. *)

Typed ==
    /\ page \in 1..MaxPages /\ text \in AnyText
    /\ blocks \in Seq(Block) /\ pending \in Seq(Block)
    /\ path \in Labels /\ section = path
    /\ drafts \in Seq(Draft)
    /\ ended \in BOOLEAN /\ (ended => pending = <<>>)

\* What is pending lies after every heading but its own.
Placed ==
    /\ HeadingStarts \in SUBSET Nat /\ \A h \in HeadingStarts : h < Len(text)
    /\ PageOrder(pending) /\ \A i \in 1..Len(pending) : pending[i].end <= Len(text)
    /\ pending # <<>> => \A h \in HeadingStarts : h <= pending[1].start

Labelled ==
    /\ \A i \in 1..Len(path) : path[i].page <= page
    /\ LabelFits(path, HeadingStarts, page)

DraftsFiled ==
    \A i \in 1..Len(drafts) :
        Filed(drafts[i], HeadingStarts, page) /\ drafts[i].origin < Len(text)

PageInv == Typed /\ Placed /\ Labelled /\ DraftsFiled

LEMMA InputsAre ==
    /\ \A block \in Paragraphs \cup Tables \cup Headings : block \in AnyText /\ block # <<>>
    /\ \A blank \in Blanks : blank \in Nat
    /\ \A level \in Levels : level \in Nat /\ level >= 1
    /\ 0 \in Nat /\ MaxPages \in Nat /\ MaxPages >= 1
<1>1. \A block \in Paragraphs \cup Tables \cup Headings : block \in AnyText /\ block # <<>>
  <2>1. AnyText = Seq(BOOLEAN)
    BY DEF AnyText, Truth
  <2>2. Paragraphs \cup Tables \cup Headings \subseteq Seq(BOOLEAN) \ {<<>>}
    BY ChunkingAssumption
  <2> QED BY <2>1, <2>2, Zenon
<1>2. Blanks \subseteq Nat /\ Levels \subseteq Nat \ {0} /\ MaxPages \in Nat \ {0}
  BY ChunkingAssumption
<1> QED BY <1>1, <1>2

\* What reading a block does to the page.
LEMMA ReadIs ==
    ASSUME Typed, Placed, NEW blank \in Nat, NEW block \in AnyText, block # <<>>, NEW level \in Nat,
           NEW kind \in {"heading", "table", "paragraph"},
           Read(BlockOf(kind, level, blank, block), blank, block)
    PROVE  LET b == BlockOf(kind, level, blank, block) IN
           /\ b \in Block /\ b.kind = kind
           /\ b.start \in Nat /\ b.end \in Nat /\ b.start < b.end /\ b.end = Len(text')
           /\ text' \in AnyText /\ Extends(text', text)
           /\ Len(text) \in Nat /\ Len(text') \in Nat
           /\ Len(text) # 0 => Len(text) < b.start
           /\ blocks' \in Seq(Block) /\ page' = page /\ ended' = ended /\ ~ended
           /\ HeadingStarts' = HeadingStarts \cup (IF kind = "heading" THEN {b.start} ELSE {})
<1> DEFINE b == BlockOf(kind, level, blank, block)
<1>1. /\ b \in Block /\ b.kind = kind
      /\ TextWith(blank, block) \in AnyText /\ Extends(TextWith(blank, block), text)
      /\ b.start = Len(text) + blank
      /\ b.start < b.end /\ b.end = Len(TextWith(blank, block))
  BY PageGrows DEF Typed
<1> HIDE DEF b
<1>2. /\ text' = TextWith(blank, block) /\ blocks' = Append(blocks, b) /\ page' = page
      /\ ended' = ended /\ ~ended /\ (text = <<>> \/ blank > 0)
  BY DEF Read, Reading, b
<1>3. Len(text) \in Nat /\ Len(TextWith(blank, block)) \in Nat
  BY <1>1 DEF Typed, AnyText
<1>9. Len(text) # 0 => Len(text) < b.start
  <2>1. Len(text) # 0 => text # <<>>
    OBVIOUS
  <2> QED BY <1>1, <1>2, <1>3, <2>1
<1>4. b.start \in Nat /\ b.end \in Nat
  BY <1>1, <1>3
<1>5. blocks \in Seq(Block) /\ Len(blocks) \in Nat
  BY DEF Typed
<1>6. /\ blocks' \in Seq(Block) /\ DOMAIN blocks' = 1..(Len(blocks) + 1)
      /\ blocks'[Len(blocks) + 1] = b
      /\ \A i \in 1..Len(blocks) : blocks'[i] = blocks[i]
  BY <1>1, <1>2, <1>5, AppendProperties
<1>7. DOMAIN blocks = 1..Len(blocks)
  BY <1>5
<1>8. HeadingStarts' = HeadingStarts \cup (IF kind = "heading" THEN {b.start} ELSE {})
  <2>1. HeadingStarts' = {blocks'[i].start : i \in {k \in DOMAIN blocks' : blocks'[k].kind = "heading"}}
    BY DEF HeadingStarts
  <2>2. HeadingStarts = {blocks[i].start : i \in {k \in 1..Len(blocks) : blocks[k].kind = "heading"}}
    BY <1>7 DEF HeadingStarts
  <2>3. {k \in DOMAIN blocks' : blocks'[k].kind = "heading"} =
            {k \in 1..Len(blocks) : blocks[k].kind = "heading"} \cup
            (IF kind = "heading" THEN {Len(blocks) + 1} ELSE {})
    BY <1>1, <1>5, <1>6
  <2>4. ASSUME NEW h \in HeadingStarts' PROVE h \in HeadingStarts \cup (IF kind = "heading" THEN {b.start} ELSE {})
    <3>1. PICK k \in DOMAIN blocks' : blocks'[k].kind = "heading" /\ h = blocks'[k].start
      BY <2>1, <2>4
    <3>2. CASE k \in 1..Len(blocks)
      <4>1. blocks[k].kind = "heading" /\ h = blocks[k].start
        BY <1>6, <3>1, <3>2
      <4> QED BY <2>2, <3>2, <4>1
    <3>3. CASE k = Len(blocks) + 1
      BY <1>1, <1>6, <3>1, <3>3
    <3> QED BY <1>5, <1>6, <3>1, <3>2, <3>3
  <2>5. ASSUME NEW h \in HeadingStarts PROVE h \in HeadingStarts'
    <3>1. PICK k \in 1..Len(blocks) : blocks[k].kind = "heading" /\ h = blocks[k].start
      BY <2>2
    <3>2. k \in DOMAIN blocks' /\ blocks'[k].kind = "heading" /\ h = blocks'[k].start
      BY <1>5, <1>6, <3>1
    <3> QED BY <2>1, <3>2
  <2>6. kind = "heading" => b.start \in HeadingStarts'
    <3>1. Len(blocks) + 1 \in DOMAIN blocks'
      BY <1>5, <1>6
    <3> QED BY <1>1, <1>6, <2>1, <3>1
  <2> QED BY <2>4, <2>5, <2>6
<1> QED BY <1>1, <1>2, <1>3, <1>4, <1>6, <1>8, <1>9 DEF b

\* The section path that a heading leaves ends with it.
LEMMA PathWithIs ==
    ASSUME path \in Labels, page \in Nat, \A i \in 1..Len(path) : path[i].page <= page,
           NEW b, b.start \in Nat, b.level \in Nat, b.level >= 1
    PROVE  /\ PathWith(b) \in Labels /\ PathWith(b) # <<>>
           /\ Final(PathWith(b)) = [page |-> page, start |-> b.start]
           /\ \A i \in 1..Len(PathWith(b)) : PathWith(b)[i].page <= page
<1> DEFINE X == [page : Nat, start : Nat]
           m == Min({b.level - 1, Len(path)})
           e == [page |-> page, start |-> b.start]
           s == SubSeq(path, 1, m)
<1>1. path \in Seq(X) /\ Len(path) \in Nat
  BY DEF Labels
<1>2. m \in 0..Len(path)
  <2>1. m = IF b.level - 1 <= Len(path) THEN b.level - 1 ELSE Len(path)
    BY <1>1 DEF Min
  <2> HIDE DEF m
  <2> QED BY <1>1, <2>1
<1> HIDE DEF m
<1>3. e \in X /\ e.page = page
  OBVIOUS
<1> HIDE DEF X, e
<1>4. s \in Seq(X) /\ Len(s) = m /\ \A i \in 1..m : s[i] = path[i]
  <2>1. \A i \in 1..m : path[i] \in X
    BY <1>1, <1>2, ElementOfSeq
  <2>2. 1 \in Int /\ m \in Int
    BY <1>2
  <2> QED BY <1>2, <2>1, <2>2, SubSeqProperties
<1> HIDE DEF s
<1>5. <<e>> \in Seq(X) /\ Len(<<e>>) = 1 /\ <<e>>[1] = e
  BY <1>3
<1>6. /\ s \o <<e>> \in Seq(X) /\ Len(s \o <<e>>) = m + 1
      /\ \A i \in 1..(m + 1) : (s \o <<e>>)[i] = IF i <= m THEN s[i] ELSE <<e>>[i - m]
  BY <1>4, <1>5, ConcatProperties
<1>7. PathWith(b) = s \o <<e>>
  BY DEF PathWith, s, m, e
<1> DEFINE q == PathWith(b)
<1>8. /\ q \in Seq(X) /\ Len(q) = m + 1 /\ q[m + 1] = e
      /\ \A i \in 1..m : q[i] = path[i]
  <2>1. m \in Nat
    BY <1>2
  <2>2. m + 1 \in 1..(m + 1) /\ ~(m + 1 <= m) /\ (m + 1) - m = 1
    BY <2>1
  <2> QED BY <1>4, <1>5, <1>6, <1>7, <2>1, <2>2
<1> HIDE DEF q
<1>9. q # <<>> /\ Final(q) = e
  BY <1>2, <1>8 DEF Final
<1>10. ASSUME NEW i \in 1..Len(q) PROVE q[i].page <= page
  <2>1. CASE i \in 1..m
    BY <1>2, <1>8, <2>1
  <2>2. CASE i = m + 1
    BY <1>3, <1>8, <2>2
  <2> QED BY <1>2, <1>8, <2>1, <2>2
<1> QED BY <1>8, <1>9, <1>10 DEF q, e, X, Labels

LEMMA LastHeading ==
    ASSUME NEW H \in SUBSET Nat, NEW s \in Nat, \A h \in H : h < s
    PROVE  Max(H \cup {s}) = s
<1> DEFINE T == H \cup {s}
<1>1. T \in SUBSET Nat /\ s \in T
  OBVIOUS
<1>2. \A h \in T : h <= s
  OBVIOUS
<1>3. Max(T) \in T /\ \A h \in T : h <= Max(T)
  <2> HIDE DEF T
  <2> QED BY <1>1, <1>2, MaxIsGreatest
<1>4. Max(T) <= s /\ s <= Max(T) /\ Max(T) \in Nat
  <2> HIDE DEF T
  <2> QED BY <1>1, <1>2, <1>3
<1>5. Max(T) = s
  <2> DEFINE x == Max(T)
  <2>1. x <= s /\ s <= x /\ x \in Nat
    BY <1>4
  <2> HIDE DEF x
  <2> QED BY <2>1 DEF x
<1> QED BY <1>5

LEMMA PageInvHoldsAtFirst == ChunkingInit => PageInv
<1> SUFFICES ASSUME ChunkingInit PROVE PageInv
  OBVIOUS
<1> USE DEF ChunkingInit
<1>1. HeadingStarts = {}
  BY DEF HeadingStarts
<1>2. Typed
  <2>1. <<>> \in AnyText /\ <<>> \in Labels /\ <<>> \in Seq(Block) /\ <<>> \in Seq(Draft)
    BY DEF AnyText, Labels
  <2>2. 1 \in 1..MaxPages
    BY InputsAre
  <2> QED BY <2>1, <2>2 DEF Typed
<1>3. Placed /\ Labelled /\ DraftsFiled
  BY <1>1 DEF Placed, PageOrder, Labelled, LabelFits, DraftsFiled
<1> QED BY <1>2, <1>3 DEF PageInv

\* What a flush of the pending blocks does, before anything else changes.
LEMMA FlushPending ==
    ASSUME PageInv, NEW t \in AnyText
    PROVE  LET F == Flush(t, drafts, pending, section) IN
           /\ F \in Seq(Draft)
           /\ \A i \in 1..Len(F) : Filed(F[i], HeadingStarts, page) /\ F[i].origin < Len(text)
<1>1. /\ drafts \in Seq(Draft) /\ section \in Labels /\ section = path /\ pending \in Seq(Block)
      /\ Len(text) \in Nat
  BY DEF PageInv, Typed, AnyText
<1>2. /\ PageOrder(pending) /\ HeadingStarts \in SUBSET Nat
      /\ LabelFits(section, HeadingStarts, page)
      /\ \A i \in 1..Len(drafts) :
            Filed(drafts[i], HeadingStarts, page) /\ drafts[i].origin < Len(text)
  BY <1>1 DEF PageInv, Placed, Labelled, DraftsFiled
<1>3. pending # <<>> => /\ \A h \in HeadingStarts : h <= pending[1].start
                        /\ pending[Len(pending)].end <= Len(text)
  <2>1. pending # <<>> => Len(pending) \in 1..Len(pending)
    BY <1>1
  <2> QED BY <2>1 DEF PageInv, Placed
<1> QED BY <1>1, <1>2, <1>3, FlushFiles

LEMMA ReadHeadingKeeps ==
    ASSUME PageInv, NEW blank \in Blanks, NEW block \in Headings, NEW level \in Levels,
           ReadHeading(blank, block, level)
    PROVE  PageInv'
<1> DEFINE b == BlockOf("heading", level, blank, block)
<1>0. Typed /\ Placed /\ blank \in Nat /\ block \in AnyText /\ block # <<>>
      /\ level \in Nat /\ level >= 1
  BY InputsAre DEF PageInv
<1>1. Read(b, blank, block)
  BY DEF ReadHeading
<1>2. /\ b \in Block /\ b.kind = "heading"
      /\ b.start \in Nat /\ b.end \in Nat /\ b.start < b.end /\ b.end = Len(text')
      /\ text' \in AnyText /\ Len(text) \in Nat /\ Len(text') \in Nat
      /\ Len(text) # 0 => Len(text) < b.start
      /\ blocks' \in Seq(Block) /\ page' = page /\ ended' = ended /\ ~ended
      /\ HeadingStarts' = HeadingStarts \cup {b.start}
  BY <1>0, <1>1, ReadIs
<1>3. b.level = level
  BY DEF BlockOf
<1>4. drafts' = Flush(text', drafts, pending, section) /\ path' = PathWith(b)
      /\ section' = path' /\ pending' = <<b>>
  BY DEF ReadHeading
<1> HIDE DEF b
<1>5. path \in Labels /\ page \in Nat /\ \A i \in 1..Len(path) : path[i].page <= page
  BY <1>0, InputsAre DEF PageInv, Labelled, Typed
<1>6. /\ PathWith(b) \in Labels /\ PathWith(b) # <<>>
      /\ Final(PathWith(b)) = [page |-> page, start |-> b.start]
      /\ \A i \in 1..Len(PathWith(b)) : PathWith(b)[i].page <= page
  BY <1>0, <1>2, <1>3, <1>5, PathWithIs
<1>7. /\ drafts' \in Seq(Draft)
      /\ \A i \in 1..Len(drafts') :
            Filed(drafts'[i], HeadingStarts, page) /\ drafts'[i].origin < Len(text)
  BY <1>2, <1>4, FlushPending
<1>8. <<b>> \in Seq(Block) /\ Len(<<b>>) = 1 /\ <<b>>[1] = b /\ DOMAIN <<b>> = 1..1
  BY <1>2
<1>9. Typed'
  BY <1>0, <1>2, <1>4, <1>6, <1>7, <1>8 DEF Typed
<1>10. HeadingStarts \in SUBSET Nat /\ \A h \in HeadingStarts : h < b.start
  <2>1. HeadingStarts \in SUBSET Nat /\ \A h \in HeadingStarts : h < Len(text)
    BY <1>0 DEF Placed
  <2> QED BY <1>2, <2>1
<1>11. Placed'
  <2>1. \A h \in HeadingStarts' : h \in Nat /\ h <= b.start
    BY <1>2, <1>10
  <2>2. \A h \in HeadingStarts' : h < Len(text')
    BY <1>2, <2>1
  <2>3. PageOrder(<<b>>)
    BY <1>2, <1>8 DEF PageOrder
  <2>4. \A i \in 1..Len(<<b>>) : <<b>>[i].end <= Len(text')
    BY <1>2, <1>8
  <2> QED BY <1>4, <1>8, <2>1, <2>2, <2>3, <2>4 DEF Placed
<1>12. Max(HeadingStarts') = b.start
  BY <1>2, <1>10, LastHeading
<1>13. Labelled'
  BY <1>2, <1>4, <1>6, <1>12 DEF Labelled, LabelFits
<1>14. DraftsFiled'
  <2> SUFFICES ASSUME NEW i \in 1..Len(drafts')
               PROVE  Filed(drafts'[i], HeadingStarts', page) /\ drafts'[i].origin < Len(text')
    BY <1>2 DEF DraftsFiled
  <2>1. drafts'[i] \in Draft /\ Filed(drafts'[i], HeadingStarts, page) /\ drafts'[i].origin < Len(text)
    BY <1>7, ElementOfSeq
  <2>2. drafts'[i].origin \in Nat
    BY <2>1 DEF Draft
  <2>3. drafts'[i].origin < b.start
    BY <1>2, <2>1, <2>2
  <2>4. Filed(drafts'[i], HeadingStarts \cup {b.start}, page)
    BY <1>2, <1>10, <2>1, <2>3, StaysFiled
  <2>5. drafts'[i].origin < Len(text')
    BY <1>2, <2>2, <2>3
  <2> QED BY <1>2, <2>4, <2>5
<1> QED BY <1>9, <1>11, <1>13, <1>14 DEF PageInv

LEMMA ReadTableKeeps ==
    ASSUME PageInv, NEW blank \in Blanks, NEW block \in Tables, ReadTable(blank, block)
    PROVE  PageInv'
<1> DEFINE b == BlockOf("table", 0, blank, block)
           F == Flush(text', drafts, pending, section)
<1>0. Typed /\ Placed /\ blank \in Nat /\ block \in AnyText /\ block # <<>> /\ 0 \in Nat
  BY InputsAre DEF PageInv
<1>1. Read(b, blank, block)
  BY DEF ReadTable
<1>2. /\ b \in Block /\ b.kind = "table"
      /\ b.start \in Nat /\ b.end \in Nat /\ b.start < b.end /\ b.end = Len(text')
      /\ text' \in AnyText /\ Len(text) \in Nat /\ Len(text') \in Nat
      /\ Len(text) # 0 => Len(text) < b.start
      /\ blocks' \in Seq(Block) /\ page' = page /\ ended' = ended /\ ~ended
      /\ HeadingStarts' = HeadingStarts
  BY <1>0, <1>1, ReadIs
<1>3. drafts' = Flush(text', F, <<b>>, section) /\ pending' = <<>> /\ path' = path /\ section' = section
  BY DEF ReadTable
<1> HIDE DEF b
<1>4. F \in Seq(Draft) /\ \A i \in 1..Len(F) : Filed(F[i], HeadingStarts, page) /\ F[i].origin < Len(text)
  BY <1>2, FlushPending
<1> HIDE DEF F
<1>5. <<b>> \in Seq(Block) /\ Len(<<b>>) = 1 /\ <<b>>[1] = b /\ DOMAIN <<b>> = 1..1
  BY <1>2
<1>6. PageOrder(<<b>>)
  BY <1>2, <1>5 DEF PageOrder
<1>7. HeadingStarts \in SUBSET Nat /\ \A h \in HeadingStarts : h < Len(text) /\ h <= b.start
  <2>1. HeadingStarts \in SUBSET Nat /\ \A h \in HeadingStarts : h < Len(text)
    BY <1>0 DEF Placed
  <2> QED BY <1>2, <2>1
<1>8. Len(text) <= Len(text')
  BY <1>2
<1>9. \A i \in 1..Len(F) : Filed(F[i], HeadingStarts, page) /\ F[i].origin < Len(text')
  <2>1. \A i \in 1..Len(F) : F[i] \in Draft
    BY <1>4, ElementOfSeq
  <2> QED BY SMTT(60), <1>2, <1>4, <1>8, <2>1 DEF Draft
<1>10. /\ drafts' \in Seq(Draft)
       /\ \A i \in 1..Len(drafts') :
             Filed(drafts'[i], HeadingStarts, page) /\ drafts'[i].origin < Len(text')
  <2>1. section \in Labels /\ LabelFits(section, HeadingStarts, page)
    BY DEF PageInv, Typed, Labelled
  <2>2. <<b>> # <<>> => /\ \A h \in HeadingStarts : h <= <<b>>[1].start
                        /\ <<b>>[Len(<<b>>)].end <= Len(text')
    BY <1>2, <1>5, <1>7
  <2> QED BY <1>2, <1>3, <1>4, <1>5, <1>6, <1>7, <1>9, <2>1, <2>2, FlushFiles
<1>11. Typed'
  BY <1>0, <1>2, <1>3, <1>10 DEF Typed
<1>12. Placed'
  <2>1. PageOrder(<<>>)
    BY DEF PageOrder
  <2>2. \A h \in HeadingStarts : h < Len(text')
    BY <1>2, <1>7, <1>8
  <2> QED BY <1>2, <1>3, <1>7, <2>1, <2>2 DEF Placed
<1>13. Labelled'
  BY <1>2, <1>3 DEF Labelled, PageInv
<1>14. DraftsFiled'
  BY <1>2, <1>10 DEF DraftsFiled
<1> QED BY <1>11, <1>12, <1>13, <1>14 DEF PageInv

LEMMA ReadParagraphKeeps ==
    ASSUME PageInv, NEW blank \in Blanks, NEW block \in Paragraphs, ReadParagraph(blank, block)
    PROVE  PageInv'
<1> DEFINE b == BlockOf("paragraph", 0, blank, block)
           F == Flush(text', drafts, pending, section)
           more == Append(pending, b)
<1>0. Typed /\ Placed /\ blank \in Nat /\ block \in AnyText /\ block # <<>> /\ 0 \in Nat
  BY InputsAre DEF PageInv
<1>1. Read(b, blank, block)
  BY DEF ReadParagraph
<1>2. /\ b \in Block /\ b.kind = "paragraph"
      /\ b.start \in Nat /\ b.end \in Nat /\ b.start < b.end /\ b.end = Len(text')
      /\ text' \in AnyText /\ Len(text) \in Nat /\ Len(text') \in Nat
      /\ Len(text) # 0 => Len(text) < b.start
      /\ blocks' \in Seq(Block) /\ page' = page /\ ended' = ended /\ ~ended
      /\ HeadingStarts' = HeadingStarts
  BY <1>0, <1>1, ReadIs
<1>3. /\ path' = path /\ section' = path'
      /\ \/ drafts' = F /\ pending' = <<b>>
         \/ drafts' = drafts /\ pending' = more
  BY DEF ReadParagraph, PageInv, Typed
<1> HIDE DEF b
<1>4. F \in Seq(Draft) /\ \A i \in 1..Len(F) : Filed(F[i], HeadingStarts, page) /\ F[i].origin < Len(text)
  BY <1>2, FlushPending
<1> HIDE DEF F
<1>5. <<b>> \in Seq(Block) /\ Len(<<b>>) = 1 /\ <<b>>[1] = b /\ DOMAIN <<b>> = 1..1
  BY <1>2
<1>6. HeadingStarts \in SUBSET Nat /\ \A h \in HeadingStarts : h < Len(text) /\ h <= b.start
  <2>1. HeadingStarts \in SUBSET Nat /\ \A h \in HeadingStarts : h < Len(text)
    BY <1>0 DEF Placed
  <2> QED BY <1>2, <2>1
<1>7. Len(text) <= Len(text')
  BY <1>2
<1>8. /\ drafts' \in Seq(Draft)
      /\ \A i \in 1..Len(drafts') : Filed(drafts'[i], HeadingStarts, page) /\ drafts'[i].origin < Len(text)
  BY <1>3, <1>4 DEF PageInv, Typed, DraftsFiled
<1>9. DraftsFiled'
  <2>1. \A i \in 1..Len(drafts') : drafts'[i] \in Draft
    BY <1>8, ElementOfSeq
  <2>2. \A i \in 1..Len(drafts') : drafts'[i].origin < Len(text')
    <3> SUFFICES ASSUME NEW i \in 1..Len(drafts') PROVE drafts'[i].origin < Len(text')
      OBVIOUS
    <3>1. drafts'[i].origin \in Nat /\ drafts'[i].origin < Len(text)
      BY <1>8, <2>1 DEF Draft
    <3>2. Len(text) \in Nat /\ Len(text') \in Nat
      BY <1>2
    <3> QED BY <1>7, <3>1, <3>2
  <2> QED BY <1>2, <1>8, <2>2 DEF DraftsFiled
<1>10. /\ pending \in Seq(Block) /\ Len(pending) \in Nat /\ DOMAIN pending = 1..Len(pending)
       /\ PageOrder(pending) /\ \A i \in 1..Len(pending) : pending[i].end <= Len(text)
       /\ pending # <<>> => \A h \in HeadingStarts : h <= pending[1].start
  <2>1. pending \in Seq(Block)
    BY <1>0 DEF Typed
  <2>2. Len(pending) \in Nat /\ DOMAIN pending = 1..Len(pending)
    BY <2>1
  <2> QED BY <1>0, <2>1, <2>2 DEF Placed
<1>11. /\ more \in Seq(Block) /\ Len(more) = Len(pending) + 1 /\ more[Len(pending) + 1] = b
       /\ \A i \in 1..Len(pending) : more[i] = pending[i]
       /\ DOMAIN more = 1..(Len(pending) + 1)
  BY <1>2, <1>10, AppendProperties
<1> HIDE DEF more
<1>12. /\ pending' \in Seq(Block) /\ PageOrder(pending')
       /\ \A i \in 1..Len(pending') : pending'[i].end <= Len(text')
       /\ pending' # <<>> => \A h \in HeadingStarts : h <= pending'[1].start
  <2>1. CASE pending' = <<b>>
    <3>1. PageOrder(<<b>>)
      BY <1>2, <1>5 DEF PageOrder
    <3>2. \A i \in 1..Len(<<b>>) : <<b>>[i].end <= Len(text')
      BY <1>2, <1>5
    <3> QED BY <1>5, <1>6, <2>1, <3>1, <3>2
  <2>2. CASE pending' = more
    <3>1. \A i \in 1..Len(pending) : /\ pending[i].start \in Nat /\ pending[i].end \in Nat
                                     /\ pending[i].start < pending[i].end
                                     /\ pending[i].end <= Len(text)
                                     /\ pending[i].end < b.start
      <4> SUFFICES ASSUME NEW i \in 1..Len(pending)
                   PROVE  /\ pending[i].start \in Nat /\ pending[i].end \in Nat
                          /\ pending[i].start < pending[i].end
                          /\ pending[i].end <= Len(text)
                          /\ pending[i].end < b.start
        OBVIOUS
      <4>1. /\ pending[i].start \in Nat /\ pending[i].end \in Nat
            /\ pending[i].start < pending[i].end /\ pending[i].end <= Len(text)
        BY <1>10, PlacesOf
      <4> QED BY <1>2, <4>1
    <3>2. PageOrder(more)
      <4>1. ASSUME NEW i \in 1..(Len(pending) + 1) PROVE more[i].start < more[i].end
        BY <1>2, <1>10, <1>11, <3>1
      <4>2. ASSUME NEW i \in 1..(Len(pending) + 1), NEW j \in 1..(Len(pending) + 1), i < j
            PROVE  more[i].end < more[j].start
        <5>1. i \in 1..Len(pending)
          BY <1>10, <4>2
        <5>2. CASE j \in 1..Len(pending)
          BY <1>10, <1>11, <4>2, <5>1, <5>2 DEF PageOrder
        <5>3. CASE j = Len(pending) + 1
          BY <1>11, <3>1, <5>1, <5>3
        <5> QED BY <1>10, <5>2, <5>3
      <4> QED BY <1>11, <4>1, <4>2 DEF PageOrder
    <3>3. ASSUME NEW i \in 1..Len(more) PROVE more[i].end <= Len(text')
      <4>1. CASE i \in 1..Len(pending)
        BY <1>2, <1>7, <1>11, <3>1, <4>1
      <4>2. CASE i = Len(pending) + 1
        BY <1>2, <1>11, <4>2
      <4> QED BY <1>10, <1>11, <4>1, <4>2
    <3>4. \A h \in HeadingStarts : h <= more[1].start
      <4>1. CASE Len(pending) = 0
        BY <1>6, <1>11, <4>1
      <4>2. CASE Len(pending) # 0
        <5>1. 1 \in 1..Len(pending) /\ pending # <<>>
          BY <1>10, <4>2
        <5> QED BY <1>10, <1>11, <5>1
      <4> QED BY <4>1, <4>2
    <3> QED BY <1>11, <2>2, <3>2, <3>3, <3>4
  <2> QED BY <1>3, <2>1, <2>2
<1>13. Typed'
  BY <1>0, <1>2, <1>3, <1>8, <1>12 DEF Typed
<1>14. Placed'
  <2>1. \A h \in HeadingStarts : h < Len(text')
    BY <1>2, <1>6, <1>7
  <2> QED BY <1>2, <1>6, <1>12, <2>1 DEF Placed
<1>15. Labelled'
  BY <1>2, <1>3 DEF Labelled, PageInv
<1> QED BY <1>9, <1>13, <1>14, <1>15 DEF PageInv

LEMMA EndPageKeeps ==
    ASSUME PageInv, EndPage
    PROVE  PageInv'
<1>1. /\ drafts' = Flush(text, drafts, pending, section) /\ pending' = <<>> /\ ended'
      /\ page' = page /\ text' = text /\ blocks' = blocks /\ path' = path /\ section' = section
      /\ ended' \in BOOLEAN
  BY DEF EndPage
<1>2. HeadingStarts' = HeadingStarts
  BY <1>1 DEF HeadingStarts
<1>3. Typed /\ Placed /\ Labelled /\ text \in AnyText
  BY DEF PageInv, Typed
<1>4. /\ drafts' \in Seq(Draft)
      /\ \A i \in 1..Len(drafts') : Filed(drafts'[i], HeadingStarts, page) /\ drafts'[i].origin < Len(text)
  BY <1>1, <1>3, FlushPending
<1>5. Typed'
  BY <1>1, <1>3, <1>4 DEF Typed
<1>6. Placed'
  BY <1>1, <1>2, <1>3 DEF Placed, PageOrder
<1>7. Labelled' /\ DraftsFiled'
  BY <1>1, <1>2, <1>3, <1>4 DEF Labelled, DraftsFiled
<1> QED BY <1>5, <1>6, <1>7 DEF PageInv

LEMMA NextPageKeeps ==
    ASSUME PageInv, NextPage
    PROVE  PageInv'
<1>1. /\ page < MaxPages /\ page' = page + 1 /\ text' = <<>> /\ blocks' = <<>> /\ pending' = <<>>
      /\ drafts' = <<>> /\ section' = path /\ ended' = FALSE /\ path' = path
  BY DEF NextPage
<1>2. HeadingStarts' = {}
  BY <1>1 DEF HeadingStarts
<1>3. page \in 1..MaxPages /\ path \in Labels /\ MaxPages \in Nat
  BY InputsAre DEF PageInv, Typed
<1>4. Typed'
  <2>1. <<>> \in AnyText /\ <<>> \in Seq(Block) /\ <<>> \in Seq(Draft)
    BY DEF AnyText
  <2>2. page + 1 \in 1..MaxPages
    BY <1>1, <1>3
  <2> QED BY <1>1, <1>3, <2>1, <2>2 DEF Typed
<1>5. Placed' /\ DraftsFiled'
  BY <1>1, <1>2 DEF Placed, PageOrder, DraftsFiled
<1>6. \A i \in 1..Len(path) : path[i].page \in Nat /\ path[i].page <= page
  <2>1. \A i \in 1..Len(path) : path[i] \in [page : Nat, start : Nat]
    BY <1>3, ElementOfSeq DEF Labels
  <2> QED BY <2>1 DEF PageInv, Labelled
<1>7. \A i \in 1..Len(path) : path[i].page < page + 1
  BY <1>3, <1>6
<1>8. path # <<>> => Len(path) \in 1..Len(path)
  BY <1>3 DEF Labels
<1>9. Labelled'
  BY <1>1, <1>2, <1>3, <1>6, <1>7, <1>8 DEF Labelled, LabelFits, Final
<1> QED BY <1>4, <1>5, <1>9 DEF PageInv

LEMMA PageInvIsKept == PageInv /\ [ChunkingNext]_chunking => PageInv'
<1> SUFFICES ASSUME PageInv, [ChunkingNext]_chunking PROVE PageInv'
  OBVIOUS
<1>1. CASE \E blank \in Blanks, block \in Headings, level \in Levels : ReadHeading(blank, block, level)
  BY <1>1, ReadHeadingKeeps
<1>2. CASE \E blank \in Blanks, block \in Tables : ReadTable(blank, block)
  BY <1>2, ReadTableKeeps
<1>3. CASE \E blank \in Blanks, block \in Paragraphs : ReadParagraph(blank, block)
  BY <1>3, ReadParagraphKeeps
<1>4. CASE EndPage
  BY <1>4, EndPageKeeps
<1>5. CASE NextPage
  BY <1>5, NextPageKeeps
<1>6. CASE UNCHANGED chunking
  <2>1. HeadingStarts' = HeadingStarts
    BY <1>6 DEF chunking, HeadingStarts
  <2> QED BY <1>6, <2>1 DEF chunking, PageInv, Typed, Placed, Labelled, DraftsFiled
<1> QED BY <1>1, <1>2, <1>3, <1>4, <1>5, <1>6 DEF ChunkingNext

LEMMA PageInvHolds == ChunkingSpec => []PageInv
<1> QED BY PageInvHoldsAtFirst, PageInvIsKept, PTL DEF ChunkingSpec

\* Pages, texts and the places of drafts are what they should be.
THEOREM ChunkingTyped == ChunkingSpec => []ChunkingTypeOK
<1>1. PageInv => ChunkingTypeOK
  <2> SUFFICES ASSUME PageInv PROVE ChunkingTypeOK
    OBVIOUS
  <2>1. \A i \in DOMAIN drafts : drafts[i] \in Draft
    BY ElementOfSeq DEF PageInv, Typed
  <2>2. \A i \in DOMAIN drafts : {drafts[i].start, drafts[i].end, drafts[i].origin} \subseteq Nat
    BY <2>1 DEF Draft
  <2> QED BY <2>2 DEF ChunkingTypeOK, PageInv, Typed, AnyText, Truth
<1> QED BY <1>1, PageInvHolds, PTL

\* However its pages are laid out, a document's drafts are filed under the heading they
\* follow: the label is taken when a group begins and no heading can interrupt a group, so
\* it is still the right one when the group is flushed (chunk_page, pending_section).
THEOREM FiledUnderTheirHeadings == ChunkingSpec => []FiledUnderLastHeading
<1>1. PageInv => FiledUnderLastHeading
  <2> SUFFICES ASSUME PageInv PROVE FiledUnderLastHeading
    OBVIOUS
  <2>1. \A i \in DOMAIN drafts : Filed(drafts[i], HeadingStarts, page)
    BY DEF PageInv, Typed, DraftsFiled
  <2> QED BY <2>1 DEF FiledUnderLastHeading, Filed, LabelFits
<1> QED BY <1>1, PageInvHolds, PTL

-----------------------------------------------------------------------------
(* Blocks, words and windows. *)

\* The text of the page reaches over the block.
Lies(t, b) == b \in Block /\ t \in AnyText /\ b.start < b.end /\ b.end <= Len(t)

\* A word lies in its block, has no space in it and ends at one or with the block.
IsWord(t, b, w) ==
    /\ w \in Span /\ b.start <= w[1] /\ w[1] < w[2] /\ w[2] <= b.end
    /\ \A p \in w[1]..(w[2] - 1) : ~IsSpace(t, p)
    /\ w[2] = b.end \/ IsSpace(t, w[2])

\* A window that ends within its block ends after a space or one character, and no space
\* follows among the characters that it could have had.
LEMMA WindowCuts ==
    ASSUME NEW t, NEW b, Lies(t, b), NEW from \in Nat, from < b.end,
           WindowEnd(t, from, b.end) < b.end
    PROVE  LET to == WindowEnd(t, from, b.end) IN
           /\ to \in Nat /\ from < to /\ from + MaxChars < b.end
           /\ to = from + 1 \/ IsSpace(t, to - 1)
           /\ \A p \in to..(from + MaxChars - 1) : ~IsSpace(t, p)
<1> DEFINE to == WindowEnd(t, from, b.end)
<1>1. /\ t \in AnyText /\ b.end \in Nat /\ b.end <= Len(t) /\ Len(t) \in Nat
      /\ MaxChars \in Nat /\ MaxChars >= 1
  BY ChunkingAssumption DEF Lies, Block, AnyText
<1>2. from + MaxChars < b.end /\ to = Snap(t, from + MaxChars, from + 1)
  <2>1. CASE from + MaxChars >= b.end
    <3>1. to = b.end
      BY <2>1 DEF WindowEnd
    <3> HIDE DEF to
    <3>2. to < b.end
      BY DEF to
    <3> QED BY <1>1, <3>1, <3>2
  <2>2. CASE ~(from + MaxChars >= b.end)
    BY <1>1, <2>2 DEF WindowEnd
  <2> QED BY <2>1, <2>2
<1> DEFINE x == Snap(t, from + MaxChars, from + 1)
<1>3. PICK position \in Nat : position = from + MaxChars
  BY <1>1
<1>4. PICK lower \in Nat : lower = from + 1
  OBVIOUS
<1>5. lower <= position /\ position < Len(t)
  BY <1>1, <1>2, <1>3, <1>4
<1>6. /\ x \in Nat /\ lower <= x /\ x <= position
      /\ x = lower \/ IsSpace(t, x - 1)
      /\ \A p \in (x + 1)..position : ~IsSpace(t, p - 1)
  <2> DEFINE y == Snap(t, position, lower)
  <2>1. y \in Nat /\ lower <= y /\ y <= position
    BY <1>1, <1>5, SnapIs
  <2>2. /\ y = lower \/ IsSpace(t, y - 1)
        /\ \A p \in (y + 1)..position : ~IsSpace(t, p - 1)
    <3>1. CASE lower < position
      BY <1>1, <1>5, <3>1, SnapIs
    <3>2. CASE lower = position
      <4>1. y = lower
        <5> HIDE DEF y
        <5> QED BY <2>1, <3>2
      <4> HIDE DEF y
      <4> QED BY <3>2, <4>1
    <3> QED BY <1>5, <3>1, <3>2
  <2>3. x = y
    BY <1>3, <1>4
  <2> HIDE DEF x, y
  <2> QED BY <2>1, <2>2, <2>3
<1>7. to = x
  BY <1>2
<1> HIDE DEF x, to
<1>8. ASSUME NEW p \in x..(from + MaxChars - 1) PROVE ~IsSpace(t, p)
  <2>1. PICK q \in (x + 1)..position : p = q - 1
    <3>1. p + 1 \in (x + 1)..position /\ p = (p + 1) - 1
      BY <1>1, <1>3, <1>6
    <3> QED BY <3>1
  <2> QED BY <1>6, <2>1
<1> QED BY <1>2, <1>4, <1>6, <1>7, <1>8 DEF to

HasText(t, from, to) == \E p \in from..(to - 1) : ~IsSpace(t, p)

\* No word ends among the characters of a window that begins here.
Long(t, from) ==
    /\ from + MaxChars <= Len(t)
    /\ \A p \in from..(from + MaxChars - 2) : IsSpace(t, p) \/ ~IsSpace(t, p + 1)

\* What the gate accepts, and what excuses that it does not.
Excused(t, list, from, to) ==
    \/ HasText(t, from, to)
    \/ Long(t, from)
    \/ \E k \in 1..Len(list) : list[k].end = to /\ IsSpace(t, to - 1)

\* A span ends with a block, or it is a window that ends within one.
LEMMA SpanEnds ==
    ASSUME NEW t, NEW group \in Seq(Block), group # <<>>,
           NEW P, Laid(P, t, group, 1, Len(group)), NEW i \in 1..Len(P)
    PROVE  \E m \in 1..Len(group) :
              \/ P[i][2] = group[m].end
              \/ P[i][2] < group[m].end /\ P[i][2] = WindowEnd(t, P[i][1], group[m].end)
<1>1. /\ Len(group) \in Nat /\ Len(P) \in Nat /\ P[Len(P)][2] = group[Len(group)].end
      /\ \A j \in 1..(Len(P) - 1) : Follows(P[j + 1], P[j], t, group, 1, Len(group))
  BY DEF Laid
<1>2. CASE i \in 1..(Len(P) - 1)
  <2>1. Follows(P[i + 1], P[i], t, group, 1, Len(group))
    BY <1>1, <1>2
  <2>2. 1..(Len(group) - 1) \subseteq 1..Len(group)
    BY <1>1
  <2> QED BY <2>1, <2>2, Zenon DEF Follows
<1>3. CASE i = Len(P)
  <2>1. Len(group) \in 1..Len(group)
    BY <1>3
  <2> QED BY <1>1, <1>3, <2>1
<1> QED BY <1>1, <1>2, <1>3

LEMMA SpansAccepted ==
    ASSUME NEW t, NEW group \in Seq(Block), group # <<>>, NEW P, Laid(P, t, group, 1, Len(group)),
           \A m \in 1..Len(group) : Lies(t, group[m]), NEW i \in 1..Len(P)
    PROVE  Excused(t, group, P[i][1], P[i][2])
<1>1. P \in Seq(Span) /\ P[i][1] < P[i][2]
  BY DEF Laid
<1>2. PICK from \in Nat, to \in Nat : from = P[i][1] /\ to = P[i][2] /\ from < to
  BY <1>1, SpanIs
<1>3. PICK m \in 1..Len(group) :
          \/ to = group[m].end
          \/ to < group[m].end /\ to = WindowEnd(t, from, group[m].end)
  BY <1>2, SpanEnds
<1>4. Lies(t, group[m]) /\ group[m].end \in Nat /\ group[m].end <= Len(t) /\ Len(t) \in Nat
  BY DEF Lies, Block, AnyText
<1>5. MaxChars \in Nat /\ MaxChars >= 1
  BY ChunkingAssumption
<1>6. CASE to = group[m].end
  <2>1. to - 1 \in from..(to - 1)
    BY <1>2
  <2>2. ~IsSpace(t, to - 1) => HasText(t, from, to)
    BY <2>1 DEF HasText
  <2>3. IsSpace(t, to - 1) => \E k \in 1..Len(group) : group[k].end = to /\ IsSpace(t, to - 1)
    BY <1>6
  <2>4. Excused(t, group, from, to)
    BY <2>2, <2>3 DEF Excused
  <2> QED BY <1>2, <2>4
<1>7. CASE to < group[m].end /\ to = WindowEnd(t, from, group[m].end)
  <2>1. from < group[m].end
    BY <1>2, <1>4, <1>7
  <2>2. from + MaxChars < group[m].end /\ \A p \in to..(from + MaxChars - 1) : ~IsSpace(t, p)
    BY <1>4, <1>7, <2>1, WindowCuts
  <2>3. ASSUME ~HasText(t, from, to) PROVE Long(t, from)
    <3>1. from + MaxChars <= Len(t)
      BY <1>4, <1>5, <2>2
    <3>2. ASSUME NEW p \in from..(from + MaxChars - 2)
          PROVE  IsSpace(t, p) \/ ~IsSpace(t, p + 1)
      <4>1. CASE p \in from..(to - 1)
        BY <2>3, <4>1 DEF HasText
      <4>2. CASE p \notin from..(to - 1)
        <5>1. p \in Int /\ from <= p /\ p <= from + MaxChars - 2
          BY <1>5
        <5>2. to <= p
          BY <4>2, <5>1
        <5>3. p + 1 \in to..(from + MaxChars - 1)
          BY <1>5, <5>1, <5>2
        <5> QED BY <2>2, <5>3
      <4> QED BY <4>1, <4>2
    <3> QED BY <3>1, <3>2 DEF Long
  <2>4. Excused(t, group, from, to)
    BY <2>3 DEF Excused
  <2> QED BY <1>2, <2>4
<1> QED BY <1>3, <1>6, <1>7

\* What excuses a span excuses the draft that begins further in front.
LEMMA WidenedAccepted ==
    ASSUME NEW t, NEW list, NEW start \in Nat, NEW from \in Nat, NEW to \in Nat,
           start <= from, from < to, Len(t) \in Nat, Excused(t, list, from, to)
    PROVE  Excused(t, list, start, to)
<1>0. MaxChars \in Nat
  BY ChunkingAssumption
<1>1. SUFFICES ASSUME ~HasText(t, start, to) PROVE Excused(t, list, start, to)
  BY DEF Excused
<1>2. \A p \in start..(to - 1) : IsSpace(t, p)
  BY <1>1 DEF HasText
<1>3. ~HasText(t, from, to)
  <2>1. \A p \in from..(to - 1) : p \in start..(to - 1)
    OBVIOUS
  <2> QED BY <1>2, <2>1 DEF HasText
<1>4. ASSUME Long(t, from) PROVE Long(t, start)
  <2>1. start + MaxChars <= Len(t)
    BY <1>0, <1>4 DEF Long
  <2>2. ASSUME NEW p \in start..(start + MaxChars - 2) PROVE IsSpace(t, p) \/ ~IsSpace(t, p + 1)
    <3>1. p \in start..(to - 1) \/ p \in from..(from + MaxChars - 2)
      BY <1>0
    <3> QED BY <1>2, <1>4, <3>1 DEF Long
  <2> QED BY <2>1, <2>2 DEF Long
<1> QED BY <1>3, <1>4 DEF Excused

\* Blocks in order do not interleave.
LEMMA BlocksApart ==
    ASSUME NEW group \in Seq(Block), PageOrder(group), NEW m \in 1..Len(group),
           NEW k \in 1..Len(group)
    PROVE  /\ group[m].start < group[k].end => m <= k
           /\ m <= k => group[m].start <= group[k].start /\ group[m].end <= group[k].end
<1>1. /\ group[m].start \in Nat /\ group[m].end \in Nat /\ group[m].start < group[m].end
      /\ m < k => group[m].end < group[k].start
  BY PlacesOf
<1>2. /\ group[k].start \in Nat /\ group[k].end \in Nat /\ group[k].start < group[k].end
      /\ k < m => group[k].end < group[m].start
  BY PlacesOf
<1>3. m < k \/ m = k \/ k < m
  OBVIOUS
<1>4. m < k => ~(k < m)
  OBVIOUS
<1>5. CASE m < k
  BY <1>1, <1>2, <1>5
<1>6. CASE m = k
  BY <1>1, <1>6
<1>7. CASE k < m
  BY <1>1, <1>2, <1>7
<1> QED BY <1>3, <1>5, <1>6, <1>7

\* The last span that begins at or before a place reaches over it: either it is the last
\* of all, or the next one begins after the place, with a block or in the span.
LEMMA SpanAt ==
    ASSUME NEW t, NEW group \in Seq(Block), PageOrder(group), group # <<>>,
           t \in AnyText, NEW P, Laid(P, t, group, 1, Len(group)),
           NEW m \in 1..Len(group), NEW p \in Nat, group[m].start <= p, p < group[m].end
    PROVE  \E i \in 1..Len(P) :
              /\ P[i] \in Span /\ P[i][1] <= p /\ p < P[i][2]
              /\ \/ group[m].end <= P[i][2]
                 \/ /\ group[m].start <= P[i][1] /\ P[i][2] < group[m].end
                    /\ P[i][2] = WindowEnd(t, P[i][1], group[m].end)
<1> DEFINE n == Len(group)
           T == {i \in 1..Len(P) : P[i][1] <= p}
<1>1. /\ P \in Seq(Span) /\ Len(P) \in Nat /\ Len(P) >= 1
      /\ P[1][1] = group[1].start /\ P[Len(P)][2] = group[n].end
      /\ \A i \in 1..Len(P) : P[i][1] < P[i][2]
      /\ \A i \in 1..(Len(P) - 1) : P[i][1] < P[i + 1][1] /\ Follows(P[i + 1], P[i], t, group, 1, n)
  <2> HIDE DEF T
  <2>1. Laid(P, t, group, 1, n)
    OBVIOUS
  <2> HIDE DEF n
  <2> QED BY <2>1 DEF Laid
<1>2. n \in Nat /\ 1 \in 1..n /\ n \in 1..n /\ m <= n
  OBVIOUS
<1>3. /\ group[1].start \in Nat /\ group[m].start \in Nat /\ group[m].end \in Nat /\ group[n].end \in Nat
      /\ group[1].start <= group[m].start /\ group[m].end <= group[n].end
  BY <1>2, PlacesOf, BlocksApart
<1>4. PICK i \in T : \A j \in T : j <= i
  <2>1. T \in SUBSET Nat /\ 1 \in T /\ \A j \in T : j <= Len(P)
    BY <1>1, <1>3
  <2> HIDE DEF T
  <2> QED BY <1>1, <2>1, GreatestNumber
<1>5. i \in 1..Len(P) /\ P[i] \in Span /\ P[i][1] \in Nat /\ P[i][2] \in Nat /\ P[i][1] <= p
  BY <1>1, SpanIs
<1>6. CASE i = Len(P)
  <2>1. group[m].end <= P[i][2] /\ p < P[i][2]
    BY <1>1, <1>3, <1>6
  <2> QED BY <1>5, <2>1
<1>7. CASE i # Len(P)
  <2>1. i \in 1..(Len(P) - 1) /\ i + 1 \in 1..Len(P) /\ i + 1 \notin T
    BY <1>1, <1>4, <1>5, <1>7
  <2>2. P[i + 1][1] \in Nat /\ p < P[i + 1][1]
    <3>1. P[i + 1][1] \in Nat
      BY <1>1, <2>1, SpanIs
    <3> QED BY <2>1, <3>1
  <2>3. Follows(P[i + 1], P[i], t, group, 1, n)
    BY <1>1, <2>1
  <2>4. CASE \E k \in 1..(n - 1) : P[i][2] = group[k].end /\ P[i + 1][1] = group[k + 1].start
    <3>1. PICK k \in 1..(n - 1) : P[i][2] = group[k].end /\ P[i + 1][1] = group[k + 1].start
      BY <2>4
    <3>2. k \in 1..n /\ k + 1 \in 1..n
      BY <1>2
    <3>3. m <= k
      <4> SUFFICES ASSUME k + 1 <= m PROVE FALSE
        BY <1>2, <3>2
      <4>1. group[k + 1].start <= group[m].start /\ group[k + 1].start \in Nat
        BY <3>2, BlocksApart, PlacesOf
      <4> QED BY SMTT(60), <1>3, <2>2, <3>1, <4>1
    <3>4. group[m].end <= group[k].end
      BY <3>2, <3>3, BlocksApart
    <3>5. group[m].end <= P[i][2] /\ p < P[i][2]
      BY <1>3, <1>5, <3>1, <3>4
    <3> QED BY <1>5, <3>5
  <2>5. CASE \E k \in 1..n : \E overlap \in {0, Overlap} :
                /\ group[k].start <= P[i][1] /\ P[i][2] < group[k].end
                /\ P[i][2] = WindowEnd(t, P[i][1], group[k].end)
                /\ P[i + 1][1] = NextWindow(t, P[i][1], P[i][2], overlap)
                /\ P[i + 1][2] = WindowEnd(t, P[i + 1][1], group[k].end)
    <3>1. PICK k \in 1..n : \E overlap \in {0, Overlap} :
                /\ group[k].start <= P[i][1] /\ P[i][2] < group[k].end
                /\ P[i][2] = WindowEnd(t, P[i][1], group[k].end)
                /\ P[i + 1][1] = NextWindow(t, P[i][1], P[i][2], overlap)
                /\ P[i + 1][2] = WindowEnd(t, P[i + 1][1], group[k].end)
      BY <2>5
    <3>2. PICK overlap \in {0, Overlap} :
                /\ group[k].start <= P[i][1] /\ P[i][2] < group[k].end
                /\ P[i][2] = WindowEnd(t, P[i][1], group[k].end)
                /\ P[i + 1][1] = NextWindow(t, P[i][1], P[i][2], overlap)
      BY <3>1
    <3>3. group[k].start \in Nat /\ group[k].end \in Nat /\ overlap \in Nat
      BY PlacesOf, ChunkingAssumption
    <3>4. P[i + 1][1] <= P[i][2] /\ P[i][1] < group[k].end
      <4>1. PICK x \in Nat : x = P[i][1]
        BY <1>5
      <4>2. PICK end \in Nat : end = group[k].end
        BY <3>3
      <4>3. P[i][1] < P[i][2] /\ P[i][2] < group[k].end
        BY <1>1, <1>5, <3>2
      <4>4. x < end
        BY <1>5, <4>1, <4>2, <4>3
      <4>5. WindowEnd(t, x, end) < end => NextWindow(t, x, WindowEnd(t, x, end), overlap) <= WindowEnd(t, x, end)
        BY <3>3, <4>4, WindowIs
      <4>6. WindowEnd(t, x, end) = P[i][2] /\ NextWindow(t, x, WindowEnd(t, x, end), overlap) = P[i + 1][1]
        BY <3>2, <4>1, <4>2
      <4> QED BY <4>1, <4>2, <4>3, <4>4, <4>5, <4>6
    <3>5. p < P[i][2] /\ p < group[k].end /\ group[k].start <= p
      BY SMTT(60), <1>5, <2>2, <3>2, <3>3, <3>4
    <3>6. k = m
      <4>1. k <= m /\ m <= k
        <5>1. group[k].start < group[m].end /\ group[m].start < group[k].end
          BY SMTT(60), <1>3, <3>3, <3>5
        <5> QED BY <5>1, BlocksApart
      <4> QED BY <4>1
    <3> QED BY <1>5, <3>2, <3>5, <3>6
  <2> QED BY <2>3, <2>4, <2>5 DEF Follows
<1> QED BY <1>6, <1>7

\* No character of a block is lost between spans, and a word shorter than a window is in one.
LEMMA SpansKeepWords ==
    ASSUME NEW t, t \in AnyText, NEW group \in Seq(Block), PageOrder(group), group # <<>>,
           NEW P, Laid(P, t, group, 1, Len(group)), NEW m \in 1..Len(group), Lies(t, group[m])
    PROVE  /\ \A p \in group[m].start..(group[m].end - 1) :
                 \E i \in 1..Len(P) : P[i][1] <= p /\ p < P[i][2]
           /\ \A w \in Span : IsWord(t, group[m], w) /\ w[2] - w[1] < MaxChars =>
                 \E i \in 1..Len(P) : P[i][1] <= w[1] /\ w[2] <= P[i][2]
<1> DEFINE b == group[m]
<1>1. b.start \in Nat /\ b.end \in Nat
  BY PlacesOf
<1>2. ASSUME NEW p \in b.start..(b.end - 1)
      PROVE  \E i \in 1..Len(P) : P[i][1] <= p /\ p < P[i][2]
  <2>1. p \in Nat /\ group[m].start <= p /\ p < group[m].end
    BY <1>1
  <2> QED BY <2>1, SpanAt
<1>3. ASSUME NEW w \in Span, IsWord(t, b, w), w[2] - w[1] < MaxChars
      PROVE  \E i \in 1..Len(P) : P[i][1] <= w[1] /\ w[2] <= P[i][2]
  <2>0. MaxChars \in Nat
    BY ChunkingAssumption
  <2>1. /\ w[1] \in Nat /\ w[2] \in Nat /\ b.start <= w[1] /\ w[1] < w[2] /\ w[2] <= b.end
        /\ \A p \in w[1]..(w[2] - 1) : ~IsSpace(t, p)
        /\ w[2] = b.end \/ IsSpace(t, w[2])
        /\ w[1] < b.end
    BY <1>1, <1>3 DEF IsWord, Span
  <2>2. PICK i \in 1..Len(P) :
              /\ P[i] \in Span /\ P[i][1] <= w[1] /\ w[1] < P[i][2]
              /\ \/ group[m].end <= P[i][2]
                 \/ /\ group[m].start <= P[i][1] /\ P[i][2] < group[m].end
                    /\ P[i][2] = WindowEnd(t, P[i][1], group[m].end)
    BY SMTT(60), <2>1, SpanAt
  <2> HIDE DEF b
  <2>3. PICK from \in Nat : from = P[i][1]
    BY <2>2 DEF Span
  <2>4. PICK to \in Nat : to = P[i][2]
    BY <2>2 DEF Span
  <2>5. from <= w[1] /\ w[1] < to
    BY <2>2, <2>3, <2>4
  <2>6. CASE b.end <= to
    <3>1. w[2] <= to
      BY <1>1, <2>1, <2>4, <2>6
    <3> QED BY <2>3, <2>4, <2>5, <3>1
  <2>7. CASE b.start <= from /\ to < b.end /\ to = WindowEnd(t, from, b.end)
    <3> SUFFICES ASSUME to < w[2] PROVE FALSE
      BY <2>1, <2>3, <2>4, <2>5
    <3>1. from < b.end
      BY SMTT(60), <1>1, <2>1, <2>5
    <3>2. /\ from < to /\ from + MaxChars < b.end
          /\ to = from + 1 \/ IsSpace(t, to - 1)
          /\ \A p \in to..(from + MaxChars - 1) : ~IsSpace(t, p)
      BY <2>7, <3>1, WindowCuts DEF b
    <3>3. to - 1 \in w[1]..(w[2] - 1)
      BY <2>1, <2>5
    <3>4. to = from + 1 /\ w[1] = from
      BY <2>1, <2>5, <3>2, <3>3
    <3>5. w[2] \in to..(from + MaxChars - 1)
      BY <1>3, <2>0, <2>1, <3>4
    <3>6. w[2] # b.end
      BY <1>1, <2>0, <3>2, <3>5
    <3> QED BY <2>1, <3>2, <3>5, <3>6
  <2> QED BY <2>2, <2>3, <2>4, <2>6, <2>7 DEF b
<1> QED BY <1>2, <1>3

-----------------------------------------------------------------------------
(* The drafts of a page. *)

Shares(c, d) == c.end - c.start > 1 /\ d.origin - c.end < Overlap => d.start < c.end

\* Drafts that come in order and reach no further back than the draft before them begins.
Sound(t, D) ==
    /\ D \in Seq(Draft)
    /\ \A i \in 1..Len(D) : /\ D[i].start <= D[i].origin /\ D[i].origin < D[i].end
                            /\ D[i].end <= Len(t)
    /\ \A i \in 1..(Len(D) - 1) : D[i].start < D[i + 1].start /\ Shares(D[i], D[i + 1])

Group(t, group) ==
    /\ t \in AnyText /\ group \in Seq(Block) /\ PageOrder(group)
    /\ \A k \in 1..Len(group) : Lies(t, group[k])

\* A draft that begins less than the overlap behind the one before it reaches into it.
LEMMA ReachesBack ==
    ASSUME NEW t \in AnyText, NEW start \in Nat, NEW e \in Nat, NEW from \in Nat,
           e - start > 1, from - e < Overlap
    PROVE  Reached(t, from, start) < e
<1>1. /\ Reached(t, from, start) \in Nat
      /\ \/ Reached(t, from, start) = start + 1
         \/ Reached(t, from, start) = Snap(t, Max({from - Overlap, 0}), 0)
  BY ReachedIs
<1> DEFINE back == Max({from - Overlap, 0})
<1>2. Overlap \in Nat
  BY ChunkingAssumption
<1>3. back = IF from - Overlap >= 0 THEN from - Overlap ELSE 0
  BY <1>2, MaxOfTwo
<1> HIDE DEF back
<1>4. back \in Nat /\ back < e
  BY <1>2, <1>3
<1>5. Snap(t, back, 0) < e
  <2>1. Snap(t, back, 0) \in Nat /\ Snap(t, back, 0) <= back
    BY <1>4, SnapIs
  <2> QED BY <1>4, <2>1
<1>6. CASE Reached(t, from, start) = start + 1
  BY <1>6
<1>7. CASE Reached(t, from, start) = Snap(t, back, 0)
  BY <1>5, <1>7
<1> QED BY <1>1, <1>6, <1>7 DEF back

\* No character of the block is lost, and its words are whole in a draft if they are shorter
\* than a window.
BlockKept(t, D, b) ==
    /\ \A p \in b.start..(b.end - 1) : \E i \in 1..Len(D) : D[i].start <= p /\ p < D[i].end
    /\ \A w \in Span : IsWord(t, b, w) /\ w[2] - w[1] < MaxChars =>
          \E i \in 1..Len(D) : D[i].start <= w[1] /\ w[2] <= D[i].end

LEMMA DraftIs ==
    ASSUME NEW D \in Seq(Draft), NEW i \in 1..Len(D)
    PROVE  /\ D[i] \in Draft /\ D[i].start \in Nat /\ D[i].end \in Nat /\ D[i].origin \in Nat
<1>1. D[i] \in Draft
  BY ElementOfSeq
<1> QED BY <1>1 DEF Draft

LEMMA FlushIsSound ==
    ASSUME NEW t, NEW done, NEW label \in Labels, NEW group, Group(t, group), group # <<>>,
           Sound(t, done), done # <<>> => Final(done).end <= group[1].start
    PROVE  LET F == Flush(t, done, group, label)
               a == Len(done)
           IN /\ Sound(t, F) /\ F # <<>> /\ Final(F).end = group[Len(group)].end
              /\ a \in Nat /\ Len(F) \in Nat /\ a <= Len(F) /\ \A i \in 1..a : F[i] = done[i]
              /\ \A k \in 1..Len(group) : BlockKept(t, F, group[k])
              /\ \A i \in (a + 1)..Len(F) : Excused(t, group, F[i].start, F[i].end)
<1> DEFINE F == Flush(t, done, group, label)
           P == Spans(t, group)
           n == Len(P)
           a == Len(done)
           last == Len(group)
<1>0. t \in AnyText /\ Len(t) \in Nat /\ group \in Seq(Block) /\ PageOrder(group)
      /\ done \in Seq(Draft) /\ last \in Nat /\ last >= 1
  BY DEF Group, Sound, AnyText
<1>1. Added(F, t, done, P, label, n) /\ Laid(P, t, group, 1, last)
  BY <1>0, FlushAdds, SpansLay
<1> HIDE DEF F, P
<1>2. /\ F \in Seq(Draft) /\ Len(F) = a + n /\ a \in Nat
      /\ \A i \in 1..a : F[i] = done[i]
      /\ \A i \in 1..n : IsNext(F, a + i, t, P[i], label)
  BY <1>1 DEF Added
<1>3. /\ P \in Seq(Span) /\ n \in Nat /\ n >= 1
      /\ P[1][1] = group[1].start /\ P[n][2] = group[last].end
      /\ \A i \in 1..n : P[i][1] < P[i][2] /\ P[i][2] <= group[last].end
      /\ \A i \in 1..(n - 1) : P[i][1] < P[i + 1][1]
  BY <1>1 DEF Laid
<1> HIDE DEF n, a
<1>4. /\ 1 \in 1..last /\ last \in 1..last /\ group[1].start \in Nat
      /\ group[last].end \in Nat /\ group[last].end <= Len(t)
  <2>1. 1 \in 1..last /\ last \in 1..last
    BY <1>0
  <2>2. Lies(t, group[last])
    BY <2>1 DEF Group
  <2> QED BY <1>0, <2>1, <2>2, PlacesOf DEF Lies
<1>5. \A i \in 1..n : P[i][1] \in Nat /\ P[i][2] \in Nat
  BY <1>3, SpanIs DEF n
<1>6. \A m \in 1..Len(F) : F[m] \in Draft /\ F[m].start \in Nat /\ F[m].end \in Nat /\ F[m].origin \in Nat
  BY <1>2, DraftIs
<1> DEFINE Next(m, i) ==
              /\ m = a + i /\ i \in 1..n
              /\ F[m].origin = P[i][1] /\ F[m].end = P[i][2]
              /\ F[m].start = IF Overlap > 0 /\ m > 1 /\ P[i][1] >= F[m - 1].end
                              THEN Reached(t, P[i][1], F[m - 1].start) ELSE P[i][1]
<1>7. ASSUME NEW m \in (a + 1)..Len(F) PROVE \E i \in 1..n : Next(m, i)
  <2>1. PICK i \in 1..n : m = a + i
    <3>1. m - a \in 1..n /\ m = a + (m - a)
      BY <1>2, <1>3
    <3> QED BY <3>1
  <2>2. IsNext(F, m, t, P[i], label)
    BY <1>2, <2>1
  <2> QED BY <2>1, <2>2 DEF IsNext
<1> HIDE DEF Next
\* the draft before one that is new
<1>8. ASSUME NEW m \in (a + 1)..Len(F), NEW i \in 1..n, Next(m, i), m > 1
      PROVE  F[m - 1].origin < F[m - 1].end => F[m - 1].origin < P[i][1]
  <2>1. CASE i = 1
    <3>1. m = a + 1 /\ a \in 1..a /\ m - 1 = a
      BY <1>2, <1>8, <2>1 DEF Next
    <3>2. F[m - 1] = done[a] /\ done # <<>> /\ Final(done) = done[a]
      BY <1>0, <1>2, <3>1 DEF Final, a
    <3>3. done[a].end <= P[i][1]
      BY <1>3, <2>1, <3>2
    <3>4. done[a].end \in Nat /\ done[a].origin \in Nat /\ P[i][1] \in Nat
      BY <1>0, <1>5, <3>1, DraftIs DEF a
    <3> QED BY <3>2, <3>3, <3>4
  <2>2. CASE i # 1
    <3>1. PICK j \in 1..(n - 1) : i = j + 1 /\ j \in 1..n
      <4>1. i - 1 \in 1..(n - 1) /\ i = (i - 1) + 1 /\ i - 1 \in 1..n
        BY <1>3, <2>2
      <4> QED BY <4>1
    <3>2. IsNext(F, a + j, t, P[j], label) /\ m - 1 = a + j
      BY <1>2, <1>8, <3>1 DEF Next
    <3>3. F[m - 1].origin = P[j][1] /\ F[m - 1].end = P[j][2]
      BY <3>2 DEF IsNext
    <3>4. P[j][1] < P[j + 1][1]
      BY <1>3
    <3> QED BY <3>1, <3>3, <3>4
  <2> QED BY <2>1, <2>2
<1> DEFINE good(m) == F[m].start <= F[m].origin /\ F[m].origin < F[m].end
           G == {k \in Nat : \A m \in 1..Len(F) : m <= k => good(m)}
<1>9. G = Nat
  <2>1. 0 \in G
    OBVIOUS
  <2>2. ASSUME NEW k \in G PROVE k + 1 \in G
    <3>1. k \in Nat /\ \A m \in 1..Len(F) : m <= k => good(m)
      OBVIOUS
    <3> HIDE DEF G, good
    <3>2. ASSUME NEW m \in 1..Len(F), m = k + 1 PROVE good(m)
      <4>1. CASE m \in 1..a
        <5>1. done[m].start <= done[m].origin /\ done[m].origin < done[m].end
          BY <4>1 DEF Sound, a
        <5> QED BY <1>2, <4>1, <5>1 DEF good
      <4>2. CASE m \notin 1..a
        <5>0. m \in (a + 1)..Len(F)
          BY <1>2, <4>2
        <5>1. PICK i \in 1..n : Next(m, i)
          BY <1>7, <5>0
        <5>2. F[m].origin = P[i][1] /\ F[m].end = P[i][2] /\ P[i][1] < P[i][2]
          BY <1>3, <5>1 DEF Next
        <5>3. F[m].start <= P[i][1]
          <6>1. CASE Overlap > 0 /\ m > 1 /\ P[i][1] >= F[m - 1].end
            <7>1. m - 1 \in 1..Len(F) /\ m - 1 <= k
              BY <1>2, <1>3, <3>1, <3>2, <6>1
            <7>2. good(m - 1)
              BY <3>1, <7>1
            <7>3. F[m - 1].start < P[i][1] /\ F[m - 1].start \in Nat /\ P[i][1] \in Nat
              <8>1. /\ F[m - 1].start \in Nat /\ F[m - 1].origin \in Nat /\ F[m - 1].end \in Nat
                    /\ P[i][1] \in Nat
                BY <1>5, <1>6, <7>1
              <8> QED BY <6>1, <7>2, <8>1 DEF good
            <7>4. Reached(t, P[i][1], F[m - 1].start) <= P[i][1]
              BY <1>0, <7>3, ReachedIs
            <7> QED BY <5>1, <6>1, <7>4 DEF Next
          <6>2. CASE ~(Overlap > 0 /\ m > 1 /\ P[i][1] >= F[m - 1].end)
            BY <1>5, <5>1, <6>2 DEF Next
          <6> QED BY <6>1, <6>2
        <5> QED BY <5>2, <5>3 DEF good
      <4> QED BY <4>1, <4>2
    <3>3. ASSUME NEW m \in 1..Len(F), m <= k + 1 PROVE good(m)
      <4>1. m \in Nat /\ k \in Nat
        BY <1>2, <1>3, <3>1
      <4>2. m <= k \/ m = k + 1
        BY <3>3, <4>1
      <4> QED BY <3>1, <3>2, <4>2
    <3> QED BY <3>1, <3>3 DEF G
  <2>3. G \in SUBSET Nat
    OBVIOUS
  <2> HIDE DEF G
  <2> QED BY <2>1, <2>2, <2>3, Induction
<1>10. \A m \in 1..Len(F) : F[m].start <= F[m].origin /\ F[m].origin < F[m].end
  <2>1. Len(F) \in G
    <3> HIDE DEF G
    <3> QED BY <1>2, <1>3, <1>9
  <2>2. \A m \in 1..Len(F) : m <= Len(F)
    BY <1>2, <1>3
  <2> QED BY <2>1, <2>2
<1> HIDE DEF G, good
<1>11. ASSUME NEW m \in 1..Len(F) PROVE F[m].end <= Len(t)
  <2>1. CASE m \in 1..a
    BY <1>2, <2>1 DEF Sound, a
  <2>2. CASE m \notin 1..a
    <3>1. m \in (a + 1)..Len(F)
      BY <1>2, <2>2
    <3>2. PICK i \in 1..n : Next(m, i)
      BY <1>7, <3>1
    <3>3. F[m].end = P[i][2] /\ P[i][2] <= group[last].end /\ P[i][2] \in Nat
      BY <1>3, <1>5, <3>2 DEF Next
    <3> QED BY <1>0, <1>4, <3>3
  <2> QED BY <2>1, <2>2
<1>12. ASSUME NEW h \in 1..(Len(F) - 1)
       PROVE  F[h].start < F[h + 1].start /\ Shares(F[h], F[h + 1])
  <2>1. CASE h + 1 \in 1..a
    <3>1. h \in 1..(a - 1) /\ F[h] = done[h] /\ F[h + 1] = done[h + 1]
      BY <1>2, <1>3, <2>1
    <3> QED BY <3>1 DEF Sound, a
  <2>2. CASE h + 1 \notin 1..a
    <3>1. PICK m \in (a + 1)..Len(F) : m = h + 1
      BY <1>2, <1>3, <2>2
    <3>2. PICK i \in 1..n : Next(m, i)
      BY <1>7
    <3>3. m > 1 /\ m - 1 = h /\ h \in 1..Len(F) /\ m \in 1..Len(F)
      BY <1>2, <1>3, <3>1
    <3>4. /\ F[h].start \in Nat /\ F[h].origin \in Nat /\ F[h].end \in Nat /\ F[m].start \in Nat
          /\ P[i][1] \in Nat /\ F[h].start <= F[h].origin /\ F[h].origin < F[h].end
      BY <1>5, <1>6, <1>10, <3>3
    <3>5. F[h].origin < P[i][1]
      BY <1>8, <3>2, <3>3, <3>4
    <3>6. F[m].start = IF Overlap > 0 /\ P[i][1] >= F[h].end
                       THEN Reached(t, P[i][1], F[h].start) ELSE P[i][1]
      BY <3>2, <3>3 DEF Next
    <3>7. F[h].start < F[m].start
      <4>1. F[h].start < Reached(t, P[i][1], F[h].start)
        BY <1>0, <3>4, ReachedIs
      <4>2. F[h].start < P[i][1]
        BY <3>4, <3>5
      <4> QED BY <3>6, <4>1, <4>2
    <3>8. ASSUME F[h].end - F[h].start > 1, F[m].origin - F[h].end < Overlap
          PROVE  F[m].start < F[h].end
      <4>0. Overlap \in Nat /\ F[m].origin = P[i][1]
        BY <3>2, ChunkingAssumption DEF Next
      <4>1. CASE P[i][1] < F[h].end
        BY <3>4, <3>6, <4>1
      <4>2. CASE ~(P[i][1] < F[h].end)
        <5>1. Overlap > 0 /\ P[i][1] >= F[h].end
          BY <3>4, <3>8, <4>0, <4>2
        <5>2. Reached(t, P[i][1], F[h].start) < F[h].end
          BY <1>0, <3>4, <3>8, <4>0, ReachesBack
        <5> QED BY <3>6, <5>1, <5>2
      <4> QED BY <4>1, <4>2
    <3> QED BY <3>1, <3>7, <3>8 DEF Shares
  <2> QED BY <2>1, <2>2
<1>13. F # <<>> /\ Final(F) = F[a + n] /\ F[a + n].end = group[last].end
  <2>1. n \in 1..n /\ IsNext(F, a + n, t, P[n], label)
    BY <1>2, <1>3
  <2>2. F[a + n].end = P[n][2]
    BY <2>1 DEF IsNext
  <2>3. F # <<>>
    BY <1>2, <1>3
  <2> QED BY <1>2, <1>3, <2>2, <2>3 DEF Final
<1>14. Sound(t, F)
  BY <1>2, <1>10, <1>11, <1>12 DEF Sound
\* a span lies in its draft
<1>15. ASSUME NEW i \in 1..n
       PROVE  \E m \in (a + 1)..Len(F) : F[m].start <= P[i][1] /\ P[i][2] = F[m].end
  <2>1. PICK m \in (a + 1)..Len(F) : m = a + i
    BY <1>2, <1>3
  <2>2. IsNext(F, m, t, P[i], label)
    BY <1>2, <2>1
  <2>3. F[m].origin = P[i][1] /\ F[m].end = P[i][2] /\ m \in 1..Len(F)
    BY <1>2, <2>2 DEF IsNext
  <2>4. F[m].start <= P[i][1]
    BY <1>10, <2>3
  <2> QED BY <2>3, <2>4
<1>16. ASSUME NEW k \in 1..last PROVE BlockKept(t, F, group[k])
  <2>1. Lies(t, group[k]) /\ group # <<>> /\ group[k].start \in Nat /\ group[k].end \in Nat
    BY <1>0, PlacesOf DEF Group
  <2>2. /\ \A p \in group[k].start..(group[k].end - 1) : \E i \in 1..n : P[i][1] <= p /\ p < P[i][2]
        /\ \A w \in Span : IsWord(t, group[k], w) /\ w[2] - w[1] < MaxChars =>
              \E i \in 1..n : P[i][1] <= w[1] /\ w[2] <= P[i][2]
    BY <1>0, <1>1, <2>1, SpansKeepWords DEF n
  <2>3. ASSUME NEW p \in group[k].start..(group[k].end - 1)
        PROVE  \E m \in 1..Len(F) : F[m].start <= p /\ p < F[m].end
    <3>1. PICK i \in 1..n : P[i][1] <= p /\ p < P[i][2]
      BY <2>2
    <3>2. PICK m \in (a + 1)..Len(F) : F[m].start <= P[i][1] /\ P[i][2] = F[m].end
      BY <1>15
    <3>3. m \in 1..Len(F)
      BY <1>2
    <3>4. F[m].start \in Nat /\ P[i][1] \in Nat /\ p \in Int
      BY <1>5, <1>6, <2>1, <3>3
    <3>5. F[m].start <= p /\ p < F[m].end
      BY SMTT(60), <3>1, <3>2, <3>4
    <3> QED BY <3>3, <3>5
  <2>4. ASSUME NEW w \in Span, IsWord(t, group[k], w), w[2] - w[1] < MaxChars
        PROVE  \E m \in 1..Len(F) : F[m].start <= w[1] /\ w[2] <= F[m].end
    <3>1. PICK i \in 1..n : P[i][1] <= w[1] /\ w[2] <= P[i][2]
      BY <2>2, <2>4
    <3>2. PICK m \in (a + 1)..Len(F) : F[m].start <= P[i][1] /\ P[i][2] = F[m].end
      BY <1>15
    <3>3. m \in 1..Len(F)
      BY <1>2
    <3>4. F[m].start \in Nat /\ P[i][1] \in Nat /\ w[1] \in Nat /\ w[2] \in Nat
      BY <1>5, <1>6, <3>3 DEF Span
    <3>5. F[m].start <= w[1] /\ w[2] <= F[m].end
      BY <3>1, <3>2, <3>4
    <3> QED BY <3>3, <3>5
  <2> QED BY <2>3, <2>4 DEF BlockKept
<1>17. ASSUME NEW m \in (a + 1)..Len(F) PROVE Excused(t, group, F[m].start, F[m].end)
  <2>1. PICK i \in 1..n : Next(m, i)
    BY <1>7
  <2>2. F[m].origin = P[i][1] /\ F[m].end = P[i][2]
    BY <2>1 DEF Next
  <2>3. \A k \in 1..last : Lies(t, group[k])
    BY DEF Group
  <2>4. Excused(t, group, P[i][1], P[i][2])
    BY <1>0, <1>1, <2>3, SpansAccepted DEF n
  <2>5. m \in 1..Len(F)
    BY <1>2
  <2>6. /\ F[m].start \in Nat /\ F[m].origin \in Nat /\ F[m].end \in Nat
        /\ F[m].start <= F[m].origin /\ F[m].origin < F[m].end
    BY <1>6, <1>10, <2>5
  <2>7. Excused(t, group, F[m].origin, F[m].end)
    BY <2>2, <2>4
  <2> QED BY <1>0, <2>6, <2>7, WidenedAccepted
<1>18. a <= Len(F) /\ Len(F) \in Nat
  BY <1>2, <1>3
<1> QED BY <1>2, <1>13, <1>14, <1>16, <1>17, <1>18 DEF F, a, last

-----------------------------------------------------------------------------
(* A page that is read as far as its character e: its blocks, those that no draft has yet, *)
(* and its drafts.                                                                         *)

Holds(list, b) == \E k \in 1..Len(list) : list[k] = b

\* Every character up to e that is no space is in a block, and a space follows each block
\* but the one that ends at e.
Covered(t, e, all) ==
    /\ e <= Len(t)
    /\ \A p \in 0..(e - 1) : ~IsSpace(t, p) =>
          \E i \in 1..Len(all) : all[i].start <= p /\ p < all[i].end
    /\ \A i \in 1..Len(all) : all[i].end = e \/ (all[i].end < e /\ IsSpace(t, all[i].end))

LaidOut(t, e, all, group, done) ==
    /\ e \in Nat /\ Group(t, group) /\ Sound(t, done)
    /\ all \in Seq(Block) /\ \A i \in 1..Len(all) : Lies(t, all[i])
    /\ Covered(t, e, all)
    /\ \A k \in 1..Len(group) : Holds(all, group[k])
    /\ group # <<>> => group[Len(group)].end = e
    /\ done # <<>> => Final(done).end <= (IF group = <<>> THEN e ELSE group[1].start)
    /\ \A i \in 1..Len(all) : ~Holds(group, all[i]) => BlockKept(t, done, all[i])
    /\ \A m \in 1..Len(done) : Excused(t, all, done[m].start, done[m].end)

LEMMA NothingLaidOut == LaidOut(<<>>, 0, <<>>, <<>>, <<>>)
<1>1. <<>> \in AnyText /\ <<>> \in Seq(Block) /\ <<>> \in Seq(Draft)
  BY DEF AnyText
<1>2. Group(<<>>, <<>>)
  BY <1>1 DEF Group, PageOrder
<1>3. Sound(<<>>, <<>>) /\ Covered(<<>>, 0, <<>>)
  BY <1>1 DEF Sound, Covered
<1> QED BY <1>1, <1>2, <1>3 DEF LaidOut

\* A text that goes on is the same text where it was.
LEMMA GoesOnTheSame ==
    ASSUME NEW t \in AnyText, NEW u \in AnyText, Extends(u, t)
    PROVE  /\ Len(t) \in Nat /\ Len(u) \in Nat /\ Len(t) <= Len(u)
           /\ \A p \in 0..(Len(t) - 1) : IsSpace(u, p) = IsSpace(t, p)
           /\ \A b : Lies(t, b) => Lies(u, b)
<1>1. Len(t) \in Nat /\ Len(u) \in Nat /\ Len(t) <= Len(u)
  BY DEF AnyText, Extends
<1>2. ASSUME NEW p \in 0..(Len(t) - 1) PROVE IsSpace(u, p) = IsSpace(t, p)
  <2>1. PICK q \in 1..Len(t) : q = p + 1
    BY <1>1
  <2>2. u[q] = t[q]
    BY DEF Extends
  <2> QED BY <2>1, <2>2, Zenon DEF IsSpace
<1>3. ASSUME NEW b, Lies(t, b) PROVE Lies(u, b)
  <2>1. b \in Block /\ b.start < b.end /\ b.end <= Len(t) /\ b.end \in Nat
    BY <1>3 DEF Lies, Block
  <2>2. b.end <= Len(u)
    BY <1>1, <2>1
  <2> QED BY <2>1, <2>2 DEF Lies
<1> QED BY <1>1, <1>2, <1>3

\* So are the words of its blocks,
LEMMA KeptAsItGoesOn ==
    ASSUME NEW t \in AnyText, NEW u \in AnyText, Extends(u, t), NEW D, NEW b, Lies(t, b),
           BlockKept(t, D, b)
    PROVE  BlockKept(u, D, b)
<1>1. /\ Len(t) \in Nat /\ Len(u) \in Nat /\ Len(t) <= Len(u)
      /\ \A p \in 0..(Len(t) - 1) : IsSpace(u, p) = IsSpace(t, p)
  BY GoesOnTheSame
<1>2. b.start \in Nat /\ b.end \in Nat /\ b.end <= Len(t)
  BY DEF Lies, Block
<1>3. ASSUME NEW w \in Span, IsWord(u, b, w) PROVE IsWord(t, b, w)
  <2>1. /\ w[1] \in Nat /\ w[2] \in Nat /\ b.start <= w[1] /\ w[1] < w[2] /\ w[2] <= b.end
        /\ \A p \in w[1]..(w[2] - 1) : ~IsSpace(u, p)
        /\ w[2] = b.end \/ IsSpace(u, w[2])
    BY <1>3 DEF IsWord, Span
  <2>2. \A p \in w[1]..(w[2] - 1) : p \in 0..(Len(t) - 1)
    BY <1>1, <1>2, <2>1
  <2>3. \A p \in w[1]..(w[2] - 1) : ~IsSpace(t, p)
    BY <1>1, <2>1, <2>2
  <2>4. w[2] = b.end \/ w[2] \in 0..(Len(t) - 1)
    BY <1>1, <1>2, <2>1
  <2>5. w[2] = b.end \/ IsSpace(t, w[2])
    BY <1>1, <2>1, <2>4
  <2> QED BY <2>1, <2>3, <2>5 DEF IsWord
<1> QED BY <1>3 DEF BlockKept

\* and what excuses a draft.
LEMMA AcceptedAsItGoesOn ==
    ASSUME NEW t \in AnyText, NEW u \in AnyText, Extends(u, t), NEW list,
           NEW from \in Nat, NEW to \in Nat, from < to, to <= Len(t), Excused(t, list, from, to)
    PROVE  Excused(u, list, from, to)
<1>1. /\ Len(t) \in Nat /\ Len(u) \in Nat /\ Len(t) <= Len(u)
      /\ \A p \in 0..(Len(t) - 1) : IsSpace(u, p) = IsSpace(t, p)
  BY GoesOnTheSame
<1>2. MaxChars \in Nat
  BY ChunkingAssumption
<1>3. CASE HasText(t, from, to)
  <2>1. PICK p \in from..(to - 1) : ~IsSpace(t, p)
    BY <1>3 DEF HasText
  <2>2. p \in 0..(Len(t) - 1)
    BY <1>1
  <2>3. ~IsSpace(u, p)
    BY <1>1, <2>1, <2>2
  <2> QED BY <2>3 DEF Excused, HasText
<1>4. CASE Long(t, from)
  <2>1. from + MaxChars <= Len(t)
    BY <1>4 DEF Long
  <2>2. ASSUME NEW p \in from..(from + MaxChars - 2) PROVE IsSpace(u, p) \/ ~IsSpace(u, p + 1)
    <3>1. p \in 0..(Len(t) - 1) /\ p + 1 \in 0..(Len(t) - 1)
      BY <1>1, <1>2, <2>1
    <3>2. IsSpace(t, p) \/ ~IsSpace(t, p + 1)
      BY <1>4 DEF Long
    <3> QED BY <1>1, <3>1, <3>2
  <2>3. from + MaxChars <= Len(u)
    BY <1>1, <1>2, <2>1
  <2> QED BY <2>2, <2>3 DEF Excused, Long
<1>5. CASE \E k \in 1..Len(list) : list[k].end = to /\ IsSpace(t, to - 1)
  <2>1. to - 1 \in 0..(Len(t) - 1)
    BY <1>1
  <2>2. IsSpace(u, to - 1)
    BY <1>1, <1>5, <2>1
  <2> QED BY <1>5, <2>2 DEF Excused
<1> QED BY <1>3, <1>4, <1>5 DEF Excused

LEMMA StaysLaidOut ==
    ASSUME NEW t \in AnyText, NEW u \in AnyText, Extends(u, t),
           NEW e, NEW all, NEW group, NEW done, LaidOut(t, e, all, group, done)
    PROVE  LaidOut(u, e, all, group, done)
<1>1. /\ Len(t) \in Nat /\ Len(u) \in Nat /\ Len(t) <= Len(u)
      /\ \A p \in 0..(Len(t) - 1) : IsSpace(u, p) = IsSpace(t, p)
      /\ \A b : Lies(t, b) => Lies(u, b)
  BY GoesOnTheSame
<1>2. /\ e \in Nat /\ Group(t, group) /\ Sound(t, done) /\ Covered(t, e, all)
      /\ all \in Seq(Block) /\ \A i \in 1..Len(all) : Lies(t, all[i])
  BY DEF LaidOut
<1>3. Group(u, group)
  BY <1>1, <1>2 DEF Group
<1>4. ASSUME NEW m \in 1..Len(done)
      PROVE  /\ done[m].start \in Nat /\ done[m].end \in Nat /\ done[m].start < done[m].end
             /\ done[m].end <= Len(t) /\ done[m].end <= Len(u)
  <2>1. done[m].start \in Nat /\ done[m].end \in Nat /\ done[m].origin \in Nat
    BY <1>2, DraftIs DEF Sound
  <2>2. /\ done[m].start <= done[m].origin /\ done[m].origin < done[m].end
        /\ done[m].end <= Len(t)
    BY <1>2 DEF Sound
  <2> QED BY <1>1, <2>1, <2>2
<1>5. Sound(u, done)
  <2>1. \A m \in 1..Len(done) : done[m].end <= Len(u)
    BY <1>4
  <2> QED BY <1>2, <2>1 DEF Sound
<1>6. Covered(u, e, all)
  <2>1. /\ e <= Len(t)
        /\ \A p \in 0..(e - 1) : ~IsSpace(t, p) =>
              \E i \in 1..Len(all) : all[i].start <= p /\ p < all[i].end
        /\ \A i \in 1..Len(all) : all[i].end = e \/ (all[i].end < e /\ IsSpace(t, all[i].end))
    BY <1>2 DEF Covered
  <2>2. e <= Len(u) /\ \A p \in 0..(e - 1) : p \in 0..(Len(t) - 1)
    BY <1>1, <1>2, <2>1
  <2>3. ASSUME NEW p \in 0..(e - 1), ~IsSpace(u, p)
        PROVE  \E i \in 1..Len(all) : all[i].start <= p /\ p < all[i].end
    BY <1>1, <2>1, <2>2, <2>3
  <2>4. ASSUME NEW i \in 1..Len(all), all[i].end # e PROVE all[i].end < e /\ IsSpace(u, all[i].end)
    <3>1. all[i].end < e /\ IsSpace(t, all[i].end)
      BY <2>1, <2>4
    <3>2. all[i].end \in Nat
      BY <1>2 DEF Lies, Block
    <3>3. all[i].end \in 0..(Len(t) - 1)
      BY <1>1, <1>2, <2>1, <3>1, <3>2
    <3> QED BY <1>1, <3>1, <3>3
  <2> QED BY <2>2, <2>3, <2>4 DEF Covered
<1>7. ASSUME NEW m \in 1..Len(done) PROVE Excused(u, all, done[m].start, done[m].end)
  <2>1. Excused(t, all, done[m].start, done[m].end)
    BY DEF LaidOut
  <2> QED BY <1>4, <2>1, AcceptedAsItGoesOn
<1>8. ASSUME NEW i \in 1..Len(all), ~Holds(group, all[i]) PROVE BlockKept(u, done, all[i])
  <2>1. BlockKept(t, done, all[i])
    BY <1>8 DEF LaidOut
  <2> QED BY <1>2, <2>1, KeptAsItGoesOn
<1>9. \A i \in 1..Len(all) : Lies(u, all[i])
  BY <1>1, <1>2
<1> QED BY <1>2, <1>3, <1>5, <1>6, <1>7, <1>8, <1>9 DEF LaidOut

LEMMA FlushedIsLaidOut ==
    ASSUME NEW t, NEW e, NEW all, NEW group, NEW done, LaidOut(t, e, all, group, done),
           NEW label \in Labels
    PROVE  LaidOut(t, e, all, <<>>, Flush(t, done, group, label))
<1> DEFINE F == Flush(t, done, group, label)
           a == Len(done)
<1>0. t \in AnyText /\ Group(t, <<>>)
  <2>1. t \in AnyText /\ <<>> \in Seq(Block)
    BY DEF LaidOut, Group
  <2> QED BY <2>1 DEF Group, PageOrder
<1>1. CASE group = <<>>
  <2>1. F = done
    BY <1>1 DEF Flush
  <2> QED BY <1>1, <2>1
<1>2. CASE group # <<>>
  <2>0. /\ Group(t, group) /\ Sound(t, done)
        /\ done # <<>> => Final(done).end <= group[1].start
    BY <1>2 DEF LaidOut
  <2>1. /\ Sound(t, F) /\ F # <<>> /\ Final(F).end = group[Len(group)].end
        /\ a \in Nat /\ Len(F) \in Nat /\ a <= Len(F) /\ \A i \in 1..a : F[i] = done[i]
        /\ \A k \in 1..Len(group) : BlockKept(t, F, group[k])
        /\ \A i \in (a + 1)..Len(F) : Excused(t, group, F[i].start, F[i].end)
    BY <1>2, <2>0, FlushIsSound
  <2> HIDE DEF F, a
  <2>2. ASSUME NEW b, BlockKept(t, done, b) PROVE BlockKept(t, F, b)
    <3>1. \A i \in 1..a : i \in 1..Len(F)
      BY <2>1
    <3> QED BY <2>1, <2>2, <3>1 DEF BlockKept, a
  <2>3. ASSUME NEW i \in 1..Len(all) PROVE BlockKept(t, F, all[i])
    <3>1. CASE Holds(group, all[i])
      BY <2>1, <3>1 DEF Holds
    <3>2. CASE ~Holds(group, all[i])
      BY <2>2, <3>2 DEF LaidOut
    <3> QED BY <3>1, <3>2
  <2>4. ASSUME NEW m \in 1..Len(F) PROVE Excused(t, all, F[m].start, F[m].end)
    <3>1. CASE m \in 1..a
      BY <2>1, <3>1 DEF LaidOut, a
    <3>2. CASE m \in (a + 1)..Len(F)
      <4>1. Excused(t, group, F[m].start, F[m].end)
        BY <2>1, <3>2
      <4>2. \A k \in 1..Len(group) : \E i \in 1..Len(all) : all[i] = group[k]
        BY DEF LaidOut, Holds
      <4> QED BY <4>1, <4>2 DEF Excused
    <3> QED BY <2>1, <3>1, <3>2
  <2>5. Final(F).end = e /\ e \in Nat /\ Final(F).end <= e
    BY <1>2, <2>1 DEF LaidOut
  <2>6. /\ all \in Seq(Block) /\ Covered(t, e, all) /\ \A i \in 1..Len(all) : Lies(t, all[i])
    BY DEF LaidOut
  <2>7. \A k \in 1..Len(<<>>) : Holds(all, <<>>[k])
    OBVIOUS
  <2> QED BY <1>0, <2>1, <2>3, <2>4, <2>5, <2>6, <2>7 DEF LaidOut, F
<1> QED BY <1>1, <1>2

\* The next block joins those that wait.
LEMMA OneBlockMore ==
    ASSUME NEW t, NEW e, NEW all, NEW group, NEW done, LaidOut(t, e, all, group, done),
           NEW b, Lies(t, b), e <= b.start, e # 0 => e < b.start,
           \A p \in e..(b.start - 1) : IsSpace(t, p)
    PROVE  LaidOut(t, b.end, Append(all, b), Append(group, b), done)
<1> DEFINE n == Len(group)
           more == Append(group, b)
           every == Append(all, b)
<1>1. /\ e \in Nat /\ t \in AnyText /\ group \in Seq(Block) /\ PageOrder(group)
      /\ Sound(t, done) /\ all \in Seq(Block) /\ n \in Nat /\ Len(all) \in Nat
      /\ \A k \in 1..n : Lies(t, group[k])
      /\ DOMAIN group = 1..n
  BY DEF LaidOut, Group
<1>2. b \in Block /\ b.start \in Nat /\ b.end \in Nat /\ b.start < b.end
  BY DEF Lies, Block
<1>3. /\ more \in Seq(Block) /\ more # <<>> /\ Len(more) = n + 1 /\ more[n + 1] = b
      /\ \A k \in 1..n : more[k] = group[k]
      /\ DOMAIN more = 1..(n + 1)
  BY <1>1, <1>2, AppendProperties
<1>4. /\ every \in Seq(Block) /\ Len(every) = Len(all) + 1 /\ every[Len(all) + 1] = b
      /\ \A i \in 1..Len(all) : every[i] = all[i]
  BY <1>1, <1>2, AppendProperties
<1> HIDE DEF more, every, n
<1>5. \A i \in 1..(n + 1) : i \in 1..n \/ i = n + 1
  BY <1>1
<1>6. ASSUME n # 0 PROVE group # <<>> /\ n \in 1..n /\ group[n].end = e /\ e < b.start
  <2>1. group # <<>> /\ n \in 1..n
    BY <1>1, <1>6 DEF n
  <2>2. group[n].end = e
    BY <2>1 DEF LaidOut, n
  <2>3. e > 0
    BY <1>1, <2>1, <2>2, PlacesOf DEF n
  <2> QED BY <1>1, <2>1, <2>2, <2>3
<1>7. ASSUME NEW i \in 1..n
      PROVE  /\ group[i].start \in Nat /\ group[i].end \in Nat /\ group[i].start < group[i].end
             /\ group[i].end < b.start
  <2>1. /\ group[i].start \in Nat /\ group[i].end \in Nat /\ group[i].start < group[i].end
        /\ \A k \in 1..n : i < k => group[i].end < group[k].start
    BY <1>1, PlacesOf DEF n
  <2>2. n # 0 /\ (i < n \/ i = n)
    BY <1>1
  <2>3. group[n].end = e /\ e < b.start /\ n \in 1..n
    BY <1>6, <2>2
  <2>4. group[n].start \in Nat /\ group[n].start < group[n].end
    BY <1>1, <2>3, PlacesOf DEF n
  <2>5. CASE i = n
    BY <1>1, <2>1, <2>3, <2>5
  <2>6. CASE i < n
    <3>1. group[i].end < group[n].start
      BY <2>1, <2>3, <2>6
    <3>2. group[i].end < e
      BY <1>1, <2>1, <2>3, <2>4, <3>1
    <3>3. group[i].end < b.start
      BY <1>1, <1>2, <2>1, <2>3, <3>2
    <3> QED BY <2>1, <3>3
  <2> QED BY <2>2, <2>1, <2>5, <2>6
<1>8. PageOrder(more)
  <2>1. ASSUME NEW i \in 1..(n + 1) PROVE more[i].start < more[i].end
    BY <1>2, <1>3, <1>5, <1>7
  <2>2. ASSUME NEW i \in 1..(n + 1), NEW j \in 1..(n + 1), i < j
        PROVE  more[i].end < more[j].start
    <3>1. i \in 1..n
      BY <1>1, <2>2
    <3>2. CASE j \in 1..n
      BY <1>1, <1>3, <2>2, <3>1, <3>2 DEF PageOrder
    <3>3. CASE j = n + 1
      BY <1>3, <1>7, <3>1, <3>3
    <3> QED BY <1>5, <3>2, <3>3
  <2> QED BY <1>3, <2>1, <2>2 DEF PageOrder
<1>10. Group(t, more)
  <2>1. \A k \in 1..(n + 1) : Lies(t, more[k])
    BY <1>1, <1>3, <1>5
  <2> QED BY <1>1, <1>3, <1>8, <2>1 DEF Group
<1>11. \A i \in 1..Len(every) : i \in 1..Len(all) \/ i = Len(all) + 1
  BY <1>1, <1>4
<1>12. \A i \in 1..Len(every) : Lies(t, every[i])
  BY <1>4, <1>11 DEF LaidOut
<1>13. Len(all) + 1 \in 1..Len(every) /\ n + 1 \in 1..Len(more) /\ \A i \in 1..Len(all) : i \in 1..Len(every)
  BY <1>1, <1>3, <1>4
<1>14. ASSUME NEW k \in 1..Len(more) PROVE Holds(every, more[k])
  <2>1. CASE k \in 1..n
    <3>1. PICK i \in 1..Len(all) : all[i] = group[k]
      BY <2>1 DEF LaidOut, Holds, n
    <3> QED BY <1>3, <1>4, <1>13, <2>1, <3>1 DEF Holds
  <2>2. CASE k = n + 1
    BY <1>3, <1>4, <1>13, <2>2 DEF Holds
  <2> QED BY <1>3, <1>5, <2>1, <2>2
<1>15. ASSUME NEW i \in 1..Len(every), ~Holds(more, every[i])
       PROVE  BlockKept(t, done, every[i])
  <2>1. i \in 1..Len(all)
    BY <1>3, <1>4, <1>11, <1>13, <1>15 DEF Holds
  <2>2. ~Holds(group, all[i])
    <3> SUFFICES ASSUME NEW k \in 1..n, group[k] = all[i] PROVE FALSE
      BY DEF Holds, n
    <3>1. k \in 1..Len(more)
      BY <1>1, <1>3
    <3> QED BY <1>3, <1>4, <1>15, <2>1, <3>1 DEF Holds
  <2> QED BY <1>4, <2>1, <2>2 DEF LaidOut
<1>16. ASSUME done # <<>> PROVE Final(done).end <= more[1].start
  <2>1. CASE n = 0
    <3>1. group = <<>> /\ more[1] = b
      BY <1>1, <1>3, <2>1 DEF n
    <3>2. Final(done).end <= e
      BY <1>16, <3>1 DEF LaidOut
    <3>3. Final(done) = done[Len(done)] /\ Len(done) \in 1..Len(done) /\ done \in Seq(Draft)
      BY <1>1, <1>16 DEF Sound, Final
    <3>4. Final(done).end \in Nat
      BY <3>3, DraftIs
    <3> QED BY <1>1, <1>2, <3>1, <3>2, <3>4
  <2>2. CASE n # 0
    <3>1. 1 \in 1..n /\ group # <<>>
      BY <1>1, <1>6, <2>2
    <3>2. Final(done).end <= group[1].start
      BY <1>16, <3>1 DEF LaidOut
    <3> QED BY <1>3, <3>1, <3>2
  <2> QED BY <2>1, <2>2
<1>17. ASSUME NEW m \in 1..Len(done) PROVE Excused(t, every, done[m].start, done[m].end)
  <2>1. Excused(t, all, done[m].start, done[m].end)
    BY DEF LaidOut
  <2> QED BY <1>4, <1>13, <2>1 DEF Excused
<1>18. Covered(t, b.end, every)
  <2>1. /\ e <= Len(t)
        /\ \A p \in 0..(e - 1) : ~IsSpace(t, p) =>
              \E i \in 1..Len(all) : all[i].start <= p /\ p < all[i].end
        /\ \A i \in 1..Len(all) : all[i].end = e \/ (all[i].end < e /\ IsSpace(t, all[i].end))
    BY DEF LaidOut, Covered
  <2>2. b.end <= Len(t)
    BY DEF Lies
  <2>3. ASSUME NEW p \in 0..(b.end - 1), ~IsSpace(t, p)
        PROVE  \E i \in 1..Len(every) : every[i].start <= p /\ p < every[i].end
    <3>1. CASE p < e
      <4>1. p \in 0..(e - 1)
        BY <1>1, <1>2, <3>1
      <4>2. PICK i \in 1..Len(all) : all[i].start <= p /\ p < all[i].end
        BY <2>1, <2>3, <4>1
      <4> QED BY <1>4, <1>13, <4>2
    <3>2. CASE e <= p
      <4>1. p \notin e..(b.start - 1)
        BY <2>3
      <4>2. b.start <= p /\ p < b.end
        BY <1>1, <1>2, <3>2, <4>1
      <4> QED BY <1>4, <1>13, <4>2
    <3> QED BY <1>1, <1>2, <3>1, <3>2
  <2>4. ASSUME NEW i \in 1..Len(every)
        PROVE  every[i].end = b.end \/ (every[i].end < b.end /\ IsSpace(t, every[i].end))
    <3>1. CASE i = Len(all) + 1
      BY <1>4, <3>1
    <3>2. CASE i \in 1..Len(all)
      <4>1. every[i] = all[i] /\ Lies(t, all[i])
        BY <1>4, <3>2 DEF LaidOut
      <4>2. all[i].start \in Nat /\ all[i].end \in Nat /\ all[i].start < all[i].end
        BY <4>1 DEF Lies, Block
      <4>3. CASE all[i].end = e
        <5>1. e < b.start
          BY <1>1, <4>2, <4>3
        <5>2. e \in e..(b.start - 1) /\ e < b.end
          BY <1>1, <1>2, <5>1
        <5> QED BY <4>1, <4>3, <5>2
      <4>4. CASE all[i].end < e /\ IsSpace(t, all[i].end)
        <5>1. all[i].end < b.end
          BY <1>1, <1>2, <4>2, <4>4
        <5> QED BY <4>1, <4>4, <5>1
      <4> QED BY <2>1, <3>2, <4>3, <4>4
    <3> QED BY <1>11, <3>1, <3>2
  <2> QED BY <2>2, <2>3, <2>4 DEF Covered
<1> QED BY <1>1, <1>2, <1>3, <1>4, <1>10, <1>12, <1>14, <1>15, <1>16, <1>17, <1>18
        DEF LaidOut, more, every

-----------------------------------------------------------------------------
(* The page, laid out. *)

PageLaid == LaidOut(text, Len(text), blocks, pending, drafts)

\* What reading a block does to the text and the blocks.
LEMMA ReadLies ==
    ASSUME PageInv, NEW blank \in Nat, NEW block \in AnyText, block # <<>>, NEW level \in Nat,
           NEW kind \in {"heading", "table", "paragraph"},
           Read(BlockOf(kind, level, blank, block), blank, block)
    PROVE  LET b == BlockOf(kind, level, blank, block) IN
           /\ text \in AnyText /\ text' \in AnyText /\ Extends(text', text)
           /\ Lies(text', b) /\ b.end = Len(text')
           /\ Len(text) <= b.start /\ (Len(text) # 0 => Len(text) < b.start)
           /\ \A p \in Len(text)..(b.start - 1) : IsSpace(text', p)
           /\ blocks' = Append(blocks, b) /\ section \in Labels
<1> DEFINE b == BlockOf(kind, level, blank, block)
           t == TextWith(blank, block)
<1>1. text \in AnyText /\ section \in Labels /\ Typed /\ Placed
  BY DEF PageInv, Typed
<1>2. /\ b \in Block /\ t \in AnyText /\ Extends(t, text)
      /\ b.start = Len(text) + blank /\ b.start < b.end /\ b.end = Len(t)
      /\ \A p \in Len(text)..(b.start - 1) : IsSpace(t, p)
  BY <1>1, PageGrows
<1>3. text' = t /\ blocks' = Append(blocks, b)
  BY DEF Read
<1>4. Len(text) # 0 => Len(text) < b.start
  BY <1>1, ReadIs
<1> HIDE DEF b, t
<1>5. b.end <= Len(t) /\ Len(text) <= b.start
  <2>1. Len(t) \in Nat /\ Len(text) \in Nat
    BY <1>1, <1>2 DEF AnyText
  <2> QED BY <1>2, <2>1
<1>6. Lies(t, b)
  BY <1>2, <1>5 DEF Lies
<1> QED BY <1>1, <1>2, <1>3, <1>4, <1>5, <1>6 DEF b, t

\* A block after a flush, and a block without one.
LEMMA BlockLaid ==
    ASSUME PageLaid, text \in AnyText, text' \in AnyText, Extends(text', text),
           NEW label \in Labels, NEW b, Lies(text', b), b.end = Len(text'),
           Len(text) <= b.start, Len(text) # 0 => Len(text) < b.start,
           \A p \in Len(text)..(b.start - 1) : IsSpace(text', p)
    PROVE  /\ LaidOut(text', Len(text'), Append(blocks, b), <<b>>,
                      Flush(text', drafts, pending, label))
           /\ LaidOut(text', Len(text'), Append(blocks, b), Append(pending, b), drafts)
<1>1. LaidOut(text', Len(text), blocks, pending, drafts)
  BY StaysLaidOut DEF PageLaid
<1>2. LaidOut(text', b.end, Append(blocks, b), Append(pending, b), drafts)
  BY <1>1, OneBlockMore
<1> DEFINE F == Flush(text', drafts, pending, label)
<1>3. LaidOut(text', Len(text), blocks, <<>>, F)
  BY <1>1, FlushedIsLaidOut
<1> HIDE DEF F
<1>4. LaidOut(text', b.end, Append(blocks, b), Append(<<>>, b), F)
  BY <1>3, OneBlockMore
<1>5. Append(<<>>, b) = <<b>>
  OBVIOUS
<1> QED BY <1>2, <1>4, <1>5 DEF F

LEMMA PageLaidIsKept == PageInv /\ PageLaid /\ [ChunkingNext]_chunking => PageLaid'
<1> SUFFICES ASSUME PageInv, PageLaid, [ChunkingNext]_chunking PROVE PageLaid'
  OBVIOUS
<1>0. section \in Labels /\ section = path /\ 0 \in Nat
  BY DEF PageInv, Typed
<1>1. ASSUME NEW blank \in Blanks, NEW block \in Headings, NEW level \in Levels,
             ReadHeading(blank, block, level)
      PROVE  PageLaid'
  <2> DEFINE b == BlockOf("heading", level, blank, block)
  <2>1. /\ blank \in Nat /\ block \in AnyText /\ block # <<>> /\ level \in Nat
        /\ Read(b, blank, block)
    BY <1>1, InputsAre DEF ReadHeading
  <2>2. /\ text \in AnyText /\ text' \in AnyText /\ Extends(text', text)
        /\ Lies(text', b) /\ b.end = Len(text')
        /\ Len(text) <= b.start /\ (Len(text) # 0 => Len(text) < b.start)
        /\ \A p \in Len(text)..(b.start - 1) : IsSpace(text', p)
        /\ blocks' = Append(blocks, b)
    BY <2>1, ReadLies
  <2>3. drafts' = Flush(text', drafts, pending, section) /\ pending' = <<b>>
    BY <1>1 DEF ReadHeading
  <2> HIDE DEF b
  <2>4. LaidOut(text', Len(text'), Append(blocks, b), <<b>>, Flush(text', drafts, pending, section))
    BY <1>0, <2>2, BlockLaid
  <2> QED BY <2>2, <2>3, <2>4 DEF PageLaid
<1>2. ASSUME NEW blank \in Blanks, NEW block \in Tables, ReadTable(blank, block) PROVE PageLaid'
  <2> DEFINE b == BlockOf("table", 0, blank, block)
             F == Flush(text', drafts, pending, section)
  <2>1. blank \in Nat /\ block \in AnyText /\ block # <<>> /\ Read(b, blank, block)
    BY <1>2, InputsAre DEF ReadTable
  <2>2. /\ text \in AnyText /\ text' \in AnyText /\ Extends(text', text)
        /\ Lies(text', b) /\ b.end = Len(text')
        /\ Len(text) <= b.start /\ (Len(text) # 0 => Len(text) < b.start)
        /\ \A p \in Len(text)..(b.start - 1) : IsSpace(text', p)
        /\ blocks' = Append(blocks, b)
    BY <1>0, <2>1, ReadLies
  <2>3. drafts' = Flush(text', F, <<b>>, section) /\ pending' = <<>>
    BY <1>2 DEF ReadTable
  <2> HIDE DEF b
  <2>4. LaidOut(text', Len(text'), Append(blocks, b), <<b>>, F)
    BY <1>0, <2>2, BlockLaid
  <2> HIDE DEF F
  <2>5. LaidOut(text', Len(text'), Append(blocks, b), <<>>, Flush(text', F, <<b>>, section))
    BY <1>0, <2>4, FlushedIsLaidOut
  <2> QED BY <2>2, <2>3, <2>5 DEF PageLaid
<1>3. ASSUME NEW blank \in Blanks, NEW block \in Paragraphs, ReadParagraph(blank, block) PROVE PageLaid'
  <2> DEFINE b == BlockOf("paragraph", 0, blank, block)
             F == Flush(text', drafts, pending, section)
  <2>1. blank \in Nat /\ block \in AnyText /\ block # <<>> /\ Read(b, blank, block)
    BY <1>3, InputsAre DEF ReadParagraph
  <2>2. /\ text \in AnyText /\ text' \in AnyText /\ Extends(text', text)
        /\ Lies(text', b) /\ b.end = Len(text')
        /\ Len(text) <= b.start /\ (Len(text) # 0 => Len(text) < b.start)
        /\ \A p \in Len(text)..(b.start - 1) : IsSpace(text', p)
        /\ blocks' = Append(blocks, b)
    BY <1>0, <2>1, ReadLies
  <2>3. \/ drafts' = F /\ pending' = <<b>>
        \/ drafts' = drafts /\ pending' = Append(pending, b)
    BY <1>3 DEF ReadParagraph
  <2> HIDE DEF b
  <2>4. /\ LaidOut(text', Len(text'), Append(blocks, b), <<b>>, F)
        /\ LaidOut(text', Len(text'), Append(blocks, b), Append(pending, b), drafts)
    BY <1>0, <2>2, BlockLaid
  <2> HIDE DEF F
  <2> QED BY <2>2, <2>3, <2>4 DEF PageLaid
<1>4. CASE EndPage
  <2>1. /\ drafts' = Flush(text, drafts, pending, section) /\ pending' = <<>>
        /\ text' = text /\ blocks' = blocks
    BY <1>4 DEF EndPage
  <2>2. LaidOut(text, Len(text), blocks, <<>>, Flush(text, drafts, pending, section))
    BY <1>0, FlushedIsLaidOut DEF PageLaid
  <2> QED BY <2>1, <2>2 DEF PageLaid
<1>5. CASE NextPage
  <2>1. text' = <<>> /\ blocks' = <<>> /\ pending' = <<>> /\ drafts' = <<>> /\ Len(<<>>) = 0
    BY <1>5 DEF NextPage
  <2> QED BY <2>1, NothingLaidOut DEF PageLaid
<1>6. CASE UNCHANGED chunking
  BY <1>6 DEF chunking, PageLaid
<1> QED BY <1>1, <1>2, <1>3, <1>4, <1>5, <1>6 DEF ChunkingNext

LEMMA PageLaidHolds == ChunkingSpec => [](PageInv /\ PageLaid)
<1>1. ChunkingInit => PageLaid
  <2>1. ChunkingInit => text = <<>> /\ blocks = <<>> /\ pending = <<>> /\ drafts = <<>> /\ Len(<<>>) = 0
    BY DEF ChunkingInit
  <2> QED BY <2>1, NothingLaidOut DEF PageLaid
<1> QED BY <1>1, PageInvHoldsAtFirst, PageInvIsKept, PageLaidIsKept, PTL DEF ChunkingSpec

LEMMA DraftsOfPage ==
    ASSUME PageLaid
    PROVE  drafts \in Seq(Draft) /\ DOMAIN drafts = 1..Len(drafts) /\ Len(drafts) \in Nat
<1>1. drafts \in Seq(Draft)
  BY DEF PageLaid, LaidOut, Sound
<1> QED BY <1>1

\* However a page is laid out, packed, split and widened, and whatever blanks it has, the gate
\* refuses a draft of it only for a run that fills a window or for the blanks that end a
\* block: a span ends with a block, or it is a window that ends at a space or, when it has
\* none, after one character (_split_oversized, validate_chunk_provenance).
THEOREM OnlyLongRunsAreRefused == ChunkingSpec => []RefusedOnlyForLongRuns
<1>1. PageInv /\ PageLaid => RefusedOnlyForLongRuns
  <2> SUFFICES ASSUME PageLaid, NEW m \in DOMAIN drafts
               PROVE  Passes(drafts[m]) \/ NoWordEnds(drafts[m].start) \/ EndsBlank(drafts[m])
    BY DEF RefusedOnlyForLongRuns
  <2>1. m \in 1..Len(drafts) /\ drafts \in Seq(Draft)
    BY DraftsOfPage
  <2>2. Excused(text, blocks, drafts[m].start, drafts[m].end)
    BY <2>1 DEF PageLaid, LaidOut
  <2>3. /\ drafts[m].start \in Nat /\ drafts[m].end \in Nat /\ drafts[m].origin \in Nat
        /\ drafts[m].start <= drafts[m].origin /\ drafts[m].origin < drafts[m].end
        /\ drafts[m].end <= Len(text)
    BY <2>1, DraftIs DEF PageLaid, LaidOut, Sound
  <2>4. 0 <= drafts[m].start /\ drafts[m].start < drafts[m].end
    BY <2>3
  <2>5. CASE HasText(text, drafts[m].start, drafts[m].end)
    BY <2>3, <2>4, <2>5 DEF Passes, HasText
  <2>6. CASE Long(text, drafts[m].start)
    BY <2>6 DEF Long, NoWordEnds
  <2>7. CASE \E k \in 1..Len(blocks) :
                blocks[k].end = drafts[m].end /\ IsSpace(text, drafts[m].end - 1)
    <3>1. DOMAIN blocks = 1..Len(blocks)
      BY DEF PageLaid, LaidOut
    <3> QED BY <2>7, <3>1 DEF EndsBlank
  <2> QED BY <2>2, <2>5, <2>6, <2>7 DEF Excused
<1> QED BY <1>1, PageLaidHolds, PTL

\* The drafts of a page come in the order of their beginnings.
LEMMA StartsAscend ==
    ASSUME PageLaid
    PROVE  \A i, j \in 1..Len(drafts) : i < j => drafts[i].start < drafts[j].start
<1> DEFINE n == Len(drafts)
           f == [m \in 1..n |-> drafts[m].start]
<1>1. drafts \in Seq(Draft) /\ n \in Nat
  BY DraftsOfPage
<1>2. f \in [1..n -> Int]
  BY <1>1, DraftIs
<1>3. \A m \in 1..(n - 1) : m \in 1..n /\ m + 1 \in 1..n
  BY <1>1
<1>4. \A m \in 1..(n - 1) : f[m] < f[m + 1]
  <2>1. \A m \in 1..(n - 1) : drafts[m].start < drafts[m + 1].start
    BY DEF PageLaid, LaidOut, Sound
  <2> QED BY <1>3, <2>1
<1>5. \A i \in 1..n : f[i] = drafts[i].start
  OBVIOUS
<1> HIDE DEF f
<1>6. \A i, j \in 1..n : i < j => f[i] < f[j]
  BY <1>1, <1>2, <1>4, StepsAscend
<1> QED BY <1>5, <1>6

\* A page has no more drafts than characters, however long its blocks are and however much
\* of a draft the next one repeats: each begins further on (overlap_chars may be anything
\* below max_chars).
THEOREM NoMoreDraftsThanCharacters == ChunkingSpec => [](Len(drafts) <= Len(text))
<1>1. PageInv /\ PageLaid => Len(drafts) <= Len(text)
  <2> SUFFICES ASSUME PageLaid PROVE Len(drafts) <= Len(text)
    OBVIOUS
  <2> DEFINE n == Len(drafts)
             places == 0..(Len(text) - 1)
             f == [m \in 1..n |-> drafts[m].start]
  <2>1. drafts \in Seq(Draft) /\ n \in Nat
    BY DraftsOfPage
  <2>2. Len(text) \in Nat
    BY DEF PageLaid, LaidOut
  <2>3. ASSUME NEW m \in 1..n PROVE drafts[m].start \in places
    <3>1. drafts[m].start \in Nat /\ drafts[m].origin \in Nat /\ drafts[m].end \in Nat
      BY <2>1, DraftIs
    <3>2. drafts[m].start <= drafts[m].origin /\ drafts[m].origin < drafts[m].end
          /\ drafts[m].end <= Len(text)
      BY <2>1 DEF PageLaid, LaidOut, Sound
    <3> QED BY <2>2, <3>1, <3>2
  <2>4. \A i, j \in 1..n : i < j => drafts[i].start < drafts[j].start
    BY StartsAscend
  <2>5. ASSUME NEW i \in 1..n, NEW j \in 1..n, drafts[i].start = drafts[j].start PROVE i = j
    <3>1. drafts[i].start \in Nat
      BY <2>2, <2>3
    <3>2. ~(i < j) /\ ~(j < i)
      BY <2>4, <2>5, <3>1
    <3> QED BY <2>1, <3>2
  <2>6. f \in Injection(1..n, places)
    <3> HIDE DEF places, n
    <3> QED BY <2>3, <2>5 DEF Injection, IsInjective
  <2>7. /\ IsFiniteSet(places) /\ Cardinality(places) = Len(text)
        /\ Cardinality(1..n) = n
    <3> HIDE DEF n
    <3>1. IsFiniteSet(1..n) /\ Cardinality(1..n) = IF 1 > n THEN 0 ELSE n - 1 + 1
      BY <2>1, FS_Interval
    <3>2. /\ Len(text) - 1 \in Int /\ IsFiniteSet(places)
          /\ Cardinality(places) = IF 0 > Len(text) - 1 THEN 0 ELSE (Len(text) - 1) - 0 + 1
      BY <2>2, FS_Interval
    <3> HIDE DEF places
    <3> QED BY <2>1, <2>2, <3>1, <3>2
  <2>8. Cardinality(1..n) <= Cardinality(places)
    <3> HIDE DEF places, n, f
    <3> QED BY <2>6, <2>7, FS_Injection
  <2> QED BY <2>7, <2>8
<1> QED BY <1>1, PageLaidHolds, PTL

\* Nothing but blanks is lost between the drafts of a page that has ended, they come in the
\* order of their beginnings, and a word shorter than a window is whole in one of them,
\* whatever the overlap (_snap_to_whitespace, "so words stay whole").
THEOREM WordsStayWholeOnEveryPage == ChunkingSpec => [](ended => WordsStayWhole)
<1>1. PageInv /\ PageLaid => (ended => WordsStayWhole)
  <2> SUFFICES ASSUME PageInv, PageLaid, ended PROVE WordsStayWhole
    OBVIOUS
  <2>0. /\ drafts \in Seq(Draft) /\ DOMAIN drafts = 1..Len(drafts)
        /\ text \in AnyText /\ Len(text) \in Nat /\ Covered(text, Len(text), blocks)
    BY DraftsOfPage DEF PageLaid, LaidOut, Group, AnyText
  <2>1. ASSUME NEW i \in 1..Len(blocks)
        PROVE  BlockKept(text, drafts, blocks[i]) /\ Lies(text, blocks[i])
    <3>1. pending = <<>>
      BY DEF PageInv, Typed
    <3>2. ~Holds(pending, blocks[i])
      BY <3>1 DEF Holds
    <3> QED BY <3>2 DEF PageLaid, LaidOut
  <2>2. ASSUME NEW p \in 0..(Len(text) - 1), ~IsSpace(text, p)
        PROVE  \E i \in 1..Len(blocks) :
                  /\ blocks[i].start \in Nat /\ blocks[i].end \in Nat /\ blocks[i].end <= Len(text)
                  /\ blocks[i].start <= p /\ p < blocks[i].end
    <3>1. PICK i \in 1..Len(blocks) : blocks[i].start <= p /\ p < blocks[i].end
      BY <2>0, <2>2 DEF Covered
    <3>2. Lies(text, blocks[i])
      BY <2>1
    <3> QED BY <3>1, <3>2 DEF Lies, Block
  <2>3. ASSUME NEW p \in 0..(Len(text) - 1), ~IsSpace(text, p)
        PROVE  \E m \in 1..Len(drafts) : drafts[m].start <= p /\ p < drafts[m].end
    <3>1. PICK i \in 1..Len(blocks) :
              /\ blocks[i].start \in Nat /\ blocks[i].end \in Nat
              /\ blocks[i].start <= p /\ p < blocks[i].end
      BY <2>2, <2>3
    <3>2. p \in blocks[i].start..(blocks[i].end - 1)
      BY <2>0, <3>1
    <3> QED BY <2>1, <3>2 DEF BlockKept
  <2>4. ASSUME NEW w \in PageWords, w[2] - w[1] < MaxChars
        PROVE  \E m \in 1..Len(drafts) : drafts[m].start <= w[1] /\ w[2] <= drafts[m].end
    <3>1. /\ w \in Span /\ w[1] \in Nat /\ w[2] \in Nat /\ w[1] < w[2] /\ w[2] <= Len(text)
          /\ \A p \in w[1]..(w[2] - 1) : ~IsSpace(text, p)
          /\ w[2] = Len(text) \/ IsSpace(text, w[2])
      BY <2>0 DEF PageWords, Span
    <3>2. w[1] \in 0..(Len(text) - 1) /\ ~IsSpace(text, w[1])
      BY <2>0, <3>1
    <3>3. PICK i \in 1..Len(blocks) :
              /\ blocks[i].start \in Nat /\ blocks[i].end \in Nat /\ blocks[i].end <= Len(text)
              /\ blocks[i].start <= w[1] /\ w[1] < blocks[i].end
      BY <2>2, <3>2
    <3>4. blocks[i].end = Len(text) \/ IsSpace(text, blocks[i].end)
      BY <2>0 DEF Covered
    <3>5. w[2] <= blocks[i].end
      <4> SUFFICES ASSUME blocks[i].end < w[2] PROVE FALSE
        BY <3>1, <3>3
      <4>1. blocks[i].end \in w[1]..(w[2] - 1) /\ blocks[i].end # Len(text)
        BY <2>0, <3>1, <3>3
      <4> QED BY <3>1, <3>4, <4>1
    <3>6. w[2] = blocks[i].end \/ IsSpace(text, w[2])
      BY <2>0, <3>1, <3>3, <3>5
    <3>7. IsWord(text, blocks[i], w)
      BY <3>1, <3>3, <3>5, <3>6 DEF IsWord
    <3> QED BY <2>1, <2>4, <3>1, <3>7 DEF BlockKept
  <2>5. \A i, j \in 1..Len(drafts) : i < j => drafts[i].start < drafts[j].start
    BY StartsAscend
  <2> QED BY <2>0, <2>3, <2>4, <2>5 DEF WordsStayWhole
<1> QED BY <1>1, PageLaidHolds, PTL

\* However a page is laid out, no split of it loses a word, or the context between drafts that
\* lie less than the overlap apart: each span that does not overlap the draft before it is
\* widened, and where it begins now lies in that draft, since blanks only move it further
\* to the left (flush, "so neighbors share context").
THEOREM NeighborsKeepContext == ChunkingSpec => []SplitKeepsContext
<1>1. PageInv /\ PageLaid => NeighborsShareText
  <2> SUFFICES ASSUME PageLaid PROVE NeighborsShareText
    OBVIOUS
  <2>1. \A i \in 1..(Len(drafts) - 1) : Shares(drafts[i], drafts[i + 1])
    BY DEF PageLaid, LaidOut, Sound
  <2> QED BY <2>1 DEF NeighborsShareText, Shares
<1>2. NeighborsShareText /\ (ended => WordsStayWhole) => SplitKeepsContext
  BY DEF SplitKeepsContext
<1> QED BY <1>1, <1>2, PageLaidHolds, WordsStayWholeOnEveryPage, PTL
=============================================================================
