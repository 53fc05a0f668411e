------------------------ MODULE HeuristicSplitterProofs ------------------------
(***************************************************************************)
(* For every document, every size and overlap, and whatever split_text()   *)
(* makes of the long blocks: no text is lost, the chunks come in order     *)
(* with growing numbers, and those made of whole blocks stay within their  *)
(* slack.  The difficult step is the overlap, which looks for the start of *)
(* the next chunk on its own: HandOK says that a boundary lies between the *)
(* start and the end of the chunk in hand, so it never steps back behind   *)
(* the start.                                                              *)
(***************************************************************************)
EXTENDS HeuristicSplitter, WellFoundedInduction, TLAPS

\* A set of naturals with a bound has a largest member.
LEMMA LargestExists ==
  ASSUME NEW N \in Nat, NEW S \in SUBSET (0 .. N), S # {}
  PROVE  \E x \in S : \A y \in S : x >= y
<1> DEFINE T == {N - x : x \in S}
<1>1. T \subseteq Nat /\ T # {}
  <2>1. \A x \in S : N - x \in Nat
    OBVIOUS
  <2> QED
    BY <2>1
<1>2. PICK m \in T : \A n \in T : ~ (<<n, m>> \in OpToRel(<, Nat))
  <2> HIDE DEF T
  <2> QED
    BY <1>1, WFMin, NatLessThanWellFounded, Zenon
<1>3. \A n \in T : ~ (n < m)
  <2> SUFFICES ASSUME NEW n \in T, n < m PROVE FALSE
    OBVIOUS
  <2>1. m \in Nat /\ n \in Nat
    BY <1>1
  <2>2. <<n, m>> \in OpToRel(<, Nat)
    BY <2>1, Zenon DEF OpToRel
  <2> QED
    BY <1>2, <2>2
<1>4. PICK x \in S : m = N - x
  OBVIOUS
<1>5. \A y \in S : x >= y
  <2> SUFFICES ASSUME NEW y \in S PROVE x >= y
    OBVIOUS
  <2>1. ~ (N - y < N - x)
    BY <1>3, <1>4
  <2>2. x \in Nat /\ y \in Nat
    OBVIOUS
  <2> HIDE DEF T
  <2> QED
    BY <2>1, <2>2
<1> QED
  BY <1>5

\* Max() of such a set.
LEMMA MaxBounded ==
  ASSUME NEW N \in Nat, NEW S \in SUBSET (0 .. N), S # {}
  PROVE  Max(S) \in S /\ \A y \in S : Max(S) >= y
BY LargestExists DEF Max

\* Max() of two numbers.
LEMMA MaxOfTwo ==
  ASSUME NEW a \in Int, NEW b \in Int
  PROVE  /\ Max({a, b}) \in {a, b}
         /\ Max({a, b}) >= a
         /\ Max({a, b}) >= b
<1>1. \E x \in {a, b} : \A y \in {a, b} : x >= y
  OBVIOUS
<1> QED
  BY <1>1 DEF Max

\* The last chunk is a chunk.
LEMMA LastChunk ==
  ASSUME NEW o \in Seq(Chunk), o # <<>>
  PROVE  /\ o[Len(o)] \in Chunk
         /\ o[Len(o)].start \in Nat /\ o[Len(o)].end \in Nat /\ o[Len(o)].seq \in Nat
<1>1. o[Len(o)] \in Chunk
  OBVIOUS
<1> QED
  BY <1>1 DEF Chunk

-------------------------------------------------------------------------------
\* Lines are not empty and end within the text.
DocOK ==
  /\ TextEnd \in Nat
  /\ \A j \in DOMAIN doc : doc[j].start < doc[j].end /\ doc[j].end <= TextEnd
  /\ \A j \in DOMAIN doc : doc[j].feed \subseteq 0 .. TextEnd

\* What is fixed while the splitter is at each place.
PhaseOK ==
  /\ pc \in {"read", "raised"} => out = <<>> /\ start = 0 /\ curEnd = 0 /\ seq = 0
  /\ pc = "fallback" => start = 0 /\ stop = TextEnd
  /\ pc = "pack" => {0, TextEnd} \subseteq bounds /\ curEnd \in bounds
  /\ pc = "inner" => /\ {0, TextEnd} \subseteq bounds
                     /\ start = curEnd
                     /\ stop \in bounds

Slack == cfg.size + Max({MinChunk - 1, 2 * cfg.overlap})

\* The chunk in hand: it comes after the chunks, holds a boundary and fits.
HandOK ==
  pc = "pack" =>
    /\ out # <<>> =>
         /\ out[Len(out)].start <= start
         /\ out[Len(out)].end <= curEnd
         /\ start < curEnd => out[Len(out)].end < curEnd
         /\ out[Len(out)].seq < seq
    /\ start < curEnd => \E c \in bounds : start <= c /\ c < curEnd
    /\ curEnd - start <= Slack

\* The long block in the hands of split_text(), untouched or begun.
BlockOK ==
  pc \in {"inner", "fallback"} =>
    /\ start < stop
    /\ out # <<>> =>
         \/ /\ out[Len(out)].end <= start
            /\ out[Len(out)].start <= start
            /\ out[Len(out)].seq < seq
         \/ /\ start < out[Len(out)].end
            /\ out[Len(out)].end < stop
            /\ out[Len(out)].seq < seq + Len(out)

SplitInv ==
  /\ TypeOK
  /\ DocOK
  /\ PhaseOK
  /\ HandOK
  /\ BlockOK
  /\ NoTextLost
  /\ InOrder
  /\ WithinSlack

-------------------------------------------------------------------------------
\* The configuration is made of numbers, and a chunk in hand that overflows
\* is not empty.
LEMMA ConfigFacts ==
  ASSUME TypeOK
  PROVE  /\ cfg.size \in Nat /\ cfg.overlap \in Nat
         /\ MinChunk \in Nat /\ MinChunk > 0
         /\ Slack \in Nat
         /\ Slack >= cfg.size + MinChunk - 1
         /\ Slack >= cfg.size + 2 * cfg.overlap
<1>1. cfg.size \in Nat /\ cfg.overlap \in Nat /\ MinFloor \in Nat /\ MinFloor > 0
  BY ConfigsAssumption DEF TypeOK
<1>2. cfg.size \div 4 \in Nat
  BY <1>1
<1>3. MinChunk \in Nat /\ MinChunk > 0
  <2> DEFINE q == cfg.size \div 4
  <2>1. q \in Int /\ MinFloor \in Int
    BY <1>1, <1>2
  <2>2. MinChunk = Max({q, MinFloor})
    BY DEF MinChunk
  <2> HIDE DEF q
  <2>3. Max({q, MinFloor}) \in {q, MinFloor} /\ Max({q, MinFloor}) >= MinFloor
    BY <2>1, MaxOfTwo
  <2> QED
    BY <1>1, <2>1, <2>2, <2>3
<1>4. /\ Max({MinChunk - 1, 2 * cfg.overlap}) \in Nat
      /\ Max({MinChunk - 1, 2 * cfg.overlap}) >= MinChunk - 1
      /\ Max({MinChunk - 1, 2 * cfg.overlap}) >= 2 * cfg.overlap
  <2> DEFINE a == MinChunk - 1
             b == 2 * cfg.overlap
  <2>1. a \in Nat /\ b \in Nat
    BY <1>1, <1>3
  <2> HIDE DEF a, b
  <2>2. Max({a, b}) \in {a, b} /\ Max({a, b}) >= a /\ Max({a, b}) >= b
    BY <2>1, MaxOfTwo
  <2>3. Max({a, b}) \in Nat
    BY <2>1, <2>2
  <2> QED
    BY <2>2, <2>3 DEF a, b
<1> QED
  BY <1>1, <1>3, <1>4 DEF Slack

\* Boundaries and text lie within the document.
LEMMA DocumentFacts ==
  ASSUME TypeOK, DocOK
  PROVE  /\ HeuristicBoundaries \subseteq 0 .. TextEnd
         /\ Ink \subseteq Nat
         /\ \A p \in Ink : p < TextEnd
<1>1. \A j \in DOMAIN doc : doc[j] \in Line
  BY DEF TypeOK
<1>2. \A j \in DOMAIN doc : /\ doc[j].start \in 0 .. TextEnd
                            /\ doc[j].end \in 0 .. TextEnd
                            /\ Newline(j) \in 0 .. TextEnd
  BY <1>1 DEF DocOK, Line, Newline
<1>3. FormFeeds \subseteq 0 .. TextEnd
  BY DEF DocOK, FormFeeds
<1>4. Marks \subseteq 0 .. TextEnd
  BY <1>2 DEF Marks
<1>5. BlankRuns \subseteq 0 .. TextEnd
  BY <1>2 DEF BlankRuns
<1>6. \A p \in Ink : p \in Nat /\ p < TextEnd
  <2> SUFFICES ASSUME NEW p \in Ink PROVE p \in Nat /\ p < TextEnd
    OBVIOUS
  <2>1. PICK j \in DOMAIN doc :
          p \in (doc[j].start .. Newline(j) - 1) \ doc[j].feed
    BY DEF Ink
  <2> QED
    BY <1>2, <2>1 DEF DocOK
<1> QED
  BY <1>3, <1>4, <1>5, <1>6 DEF HeuristicBoundaries

(***************************************************************************)
(* The aligned overlap stays within the chunk before it: not behind its    *)
(* end, not more than twice the overlap back, and not before any boundary  *)
(* of that window.                                                         *)
(***************************************************************************)
LEMMA OverlapFacts ==
  ASSUME TypeOK, DocOK, NEW end \in Nat, NEW low \in bounds, low < end
  PROVE  /\ AlignedOverlap(end) \in Nat
         /\ AlignedOverlap(end) <= end
         /\ end - AlignedOverlap(end) <= 2 * cfg.overlap
         /\ low <= AlignedOverlap(end)
<1> DEFINE target == Minus(end, cfg.overlap)
           window == Minus(end, 2 * cfg.overlap)
           near == {b \in bounds : window <= b /\ b < end}
           newlines == {p \in window + 1 .. target : \E j \in DOMAIN doc : p = Newline(j)}
<1>1. cfg.overlap \in Nat
  BY ConfigFacts
<1>2. /\ target \in Nat /\ window \in Nat /\ window <= target /\ target <= end
      /\ end - window <= 2 * cfg.overlap
      /\ cfg.overlap # 0 /\ target > 0 => target < end
  BY <1>1 DEF Minus
<1>3. low \in Nat /\ bounds \subseteq 0 .. TextEnd /\ TextEnd \in Nat
  BY DEF TypeOK, DocOK
<1>4. near = {} => low < window
  BY <1>2, <1>3
<1>5. CASE cfg.overlap = 0
  <2>1. AlignedOverlap(end) = end
    BY <1>5 DEF AlignedOverlap
  <2> HIDE DEF newlines, near, target, window
  <2> QED
    BY <1>3, <1>5, <2>1
<1>6. CASE cfg.overlap # 0 /\ near # {}
  <2>1. near \in SUBSET (0 .. TextEnd)
    BY <1>3
  <2>2. AlignedOverlap(end) = Max(near)
    BY <1>6 DEF AlignedOverlap
  <2>3. Max(near) \in near /\ \A y \in near : Max(near) >= y
    <3> HIDE DEF near
    <3> QED
      BY <1>3, <1>6, <2>1, MaxBounded
  <2>4. low \in near \/ low < window
    BY <1>2, <1>3
  <2>5. Max(near) \in Nat /\ window <= Max(near) /\ Max(near) < end
    <3>1. \A m \in near : m \in Nat /\ window <= m /\ m < end
      BY <1>3
    <3> QED
      BY <2>3, <3>1, Zenon
  <2>6. low <= Max(near)
    <3> HIDE DEF near, window
    <3> QED
      BY <1>2, <1>3, <2>3, <2>4, <2>5
  <2> HIDE DEF newlines, near, target, window
  <2> QED
    BY <1>1, <1>2, <1>3, <2>2, <2>5, <2>6
<1>7. CASE cfg.overlap # 0 /\ near = {} /\ newlines # {}
  <2>1. newlines \in SUBSET (0 .. target)
    BY <1>2
  <2>2. AlignedOverlap(end) = Max(newlines) + 1
    BY <1>7 DEF AlignedOverlap
  <2>3. Max(newlines) \in newlines
    <3> HIDE DEF newlines
    <3> QED
      BY <1>2, <1>7, <2>1, MaxBounded
  <2>4. Max(newlines) \in window + 1 .. target
    BY <2>3
  <2> HIDE DEF newlines, near, target, window
  <2> QED
    BY <1>1, <1>2, <1>3, <1>4, <1>7, <2>2, <2>4
<1>8. CASE cfg.overlap # 0 /\ near = {} /\ newlines = {}
  <2>1. AlignedOverlap(end) = target
    BY <1>8 DEF AlignedOverlap
  <2> HIDE DEF newlines, near, target, window
  <2> QED
    BY <1>1, <1>2, <1>3, <1>4, <1>8, <2>1
<1> QED
  BY <1>5, <1>6, <1>7, <1>8

-------------------------------------------------------------------------------
\* The three properties of the chunks, of any sequence of chunks.
Ordered(o) ==
  \A i \in 1 .. Len(o) - 1 :
    /\ o[i].start <= o[i + 1].start
    /\ o[i].end < o[i + 1].end
    /\ o[i].seq < o[i + 1].seq

Fits(o) == \A i \in DOMAIN o : ~ o[i].inner => o[i].end - o[i].start <= Slack

Holds(o, limit) == \A p \in Ink : p < limit => \E i \in DOMAIN o : In(p, o[i])

\* One more chunk, right with regard to the last one.
LEMMA AppendKeeps ==
  ASSUME TypeOK, NEW c \in Chunk, Ordered(out), Fits(out),
         out # <<>> => /\ out[Len(out)].start <= c.start
                       /\ out[Len(out)].end < c.end
                       /\ out[Len(out)].seq < c.seq,
         ~ c.inner => c.end - c.start <= Slack
  PROVE  LET o == Append(out, c)
         IN  /\ o \in Seq(Chunk)
             /\ o # <<>>
             /\ Len(o) = Len(out) + 1
             /\ o[Len(o)] = c
             /\ Ordered(o)
             /\ Fits(o)
<1> DEFINE o == Append(out, c)
<1>1. out \in Seq(Chunk)
  BY DEF TypeOK
<1>2. /\ o \in Seq(Chunk) /\ o # <<>> /\ Len(o) = Len(out) + 1 /\ o[Len(o)] = c
      /\ \A i \in 1 .. Len(out) : o[i] = out[i]
      /\ DOMAIN out = 1 .. Len(out) /\ DOMAIN o = 1 .. Len(out) + 1
      /\ Len(out) \in Nat
  <2>1. o \in Seq(Chunk) /\ Len(out) \in Nat /\ Len(o) = Len(out) + 1
    BY <1>1
  <2>2. o[Len(out) + 1] = c /\ \A i \in 1 .. Len(out) : o[i] = out[i]
    BY <1>1
  <2>3. DOMAIN out = 1 .. Len(out) /\ DOMAIN o = 1 .. Len(out) + 1
    BY <1>1, <2>1
  <2>4. o # <<>>
    BY <2>1
  <2> HIDE DEF o
  <2> QED
    BY <2>1, <2>2, <2>3, <2>4
<1> HIDE DEF o
<1>3. Ordered(o)
  <2> SUFFICES ASSUME NEW i \in 1 .. Len(o) - 1
               PROVE  /\ o[i].start <= o[i + 1].start
                      /\ o[i].end < o[i + 1].end
                      /\ o[i].seq < o[i + 1].seq
    BY DEF Ordered
  <2>1. CASE i = Len(out)
    <3>1. out # <<>> /\ o[i] = out[Len(out)] /\ o[i + 1] = c
      BY <1>1, <1>2, <2>1
    <3> QED
      BY <3>1
  <2>2. CASE i \in 1 .. Len(out) - 1
    <3>1. o[i] = out[i] /\ o[i + 1] = out[i + 1]
      BY <1>2, <2>2
    <3> QED
      BY <2>2, <3>1 DEF Ordered
  <2>3. i = Len(out) \/ i \in 1 .. Len(out) - 1
    <3>1. Len(o) - 1 = Len(out) /\ Len(out) \in Nat
      BY <1>2
    <3>2. i \in 1 .. Len(out)
      BY <3>1
    <3> QED
      BY <3>1, <3>2
  <2> QED
    BY <2>1, <2>2, <2>3
<1>4. Fits(o)
  <2> SUFFICES ASSUME NEW i \in 1 .. Len(out) + 1, ~ o[i].inner
               PROVE  o[i].end - o[i].start <= Slack
    BY <1>2 DEF Fits
  <2>1. CASE i = Len(out) + 1
    BY <1>2, <2>1
  <2>2. CASE i \in 1 .. Len(out)
    BY <1>2, <2>2 DEF Fits
  <2> QED
    BY <1>2, <2>1, <2>2
<1> QED
  BY <1>2, <1>3, <1>4 DEF o

\* What was in a chunk stays in one, and what is in the new one is added.
LEMMA AppendHolds ==
  ASSUME TypeOK, NEW c \in Chunk, NEW low \in Nat, Holds(out, low),
         NEW high \in Nat, Ink \subseteq Nat,
         \A p \in Ink : low <= p /\ p < high => In(p, c)
  PROVE  Holds(Append(out, c), high)
<1> DEFINE o == Append(out, c)
<1>1. /\ \A i \in 1 .. Len(out) : o[i] = out[i]
      /\ o[Len(out) + 1] = c
      /\ DOMAIN out = 1 .. Len(out) /\ DOMAIN o = 1 .. Len(out) + 1
      /\ Len(out) \in Nat
  BY DEF TypeOK
<1> HIDE DEF o
<1>2. SUFFICES ASSUME NEW p \in Ink, p < high PROVE \E i \in DOMAIN o : In(p, o[i])
  BY DEF Holds, o
<1>3. CASE p < low
  <2>1. PICK i \in DOMAIN out : In(p, out[i])
    BY <1>3 DEF Holds
  <2>2. i \in DOMAIN o /\ o[i] = out[i]
    BY <1>1, <2>1
  <2> QED
    BY <2>1, <2>2
<1>4. CASE low <= p
  <2>1. In(p, c)
    BY <1>2, <1>4
  <2>2. Len(out) + 1 \in DOMAIN o
    BY <1>1
  <2> QED
    BY <1>1, <2>1, <2>2
<1> QED
  BY <1>3, <1>4

\* The properties of the specification are those of its chunks.
LEMMA PropertiesOfChunks ==
  /\ InOrder <=> Ordered(out)
  /\ WithinSlack <=> Fits(out)
  /\ NoTextLost <=> Holds(out, IF pc = "done" THEN TextEnd ELSE HandStart)
BY DEF InOrder, Ordered, WithinSlack, Fits, Slack, NoTextLost, Holds

(***************************************************************************)
(* append_chunk() of the chunk in hand: the chunks stay right and hold all *)
(* text up to the end of it, also when the slice is blank and left out.    *)
(***************************************************************************)
LEMMA FlushFacts ==
  ASSUME SplitInv, pc = "pack"
  PROVE  LET o == AppendChunk(start, curEnd, seq)
         IN  /\ o \in Seq(Chunk)
             /\ Ordered(o)
             /\ Fits(o)
             /\ Holds(o, curEnd)
             /\ o # <<>> => /\ o[Len(o)].start <= start
                            /\ o[Len(o)].end <= curEnd
                            /\ o[Len(o)].seq <= seq
                            /\ start = curEnd => o[Len(o)].seq < seq
<1> DEFINE o == AppendChunk(start, curEnd, seq)
           c == MakeChunk(start, curEnd, seq, FALSE)
<1>1. /\ start \in Nat /\ curEnd \in Nat /\ start <= curEnd /\ seq \in Nat
      /\ out \in Seq(Chunk) /\ Ink \subseteq Nat
      /\ Ordered(out) /\ Fits(out) /\ Holds(out, start)
  <2>1. curEnd \in Nat
    <3>1. curEnd \in bounds \cup {0, TextEnd} /\ bounds \subseteq 0 .. TextEnd /\ TextEnd \in Nat
      BY DEF SplitInv, TypeOK, DocOK
    <3> QED
      BY <3>1
  <2> QED
    BY <2>1, DocumentFacts, PropertiesOfChunks DEF SplitInv, TypeOK, HandStart
<1>2. out # <<>> => out[Len(out)] \in Chunk
  BY <1>1
<1>3. CASE start < curEnd /\ HasText(start, curEnd)
  <2>1. c \in Chunk /\ c.start = start /\ c.end = curEnd /\ c.seq = seq /\ c.inner = FALSE
    BY <1>1 DEF MakeChunk, Chunk
  <2>2. curEnd - start <= Slack
    BY DEF SplitInv, HandOK
  <2>3. o = Append(out, c)
    BY <1>3 DEF AppendChunk
  <2>4. \A p \in Ink : start <= p /\ p < curEnd => In(p, c)
    BY <2>1 DEF In
  <2>5. out # <<>> => /\ out[Len(out)].start <= c.start
                      /\ out[Len(out)].end < c.end
                      /\ out[Len(out)].seq < c.seq
    BY <1>3, <2>1 DEF SplitInv, HandOK
  <2>6. ~ c.inner => c.end - c.start <= Slack
    BY <2>1, <2>2
  <2>7. TypeOK
    BY DEF SplitInv
  <2> HIDE DEF c, o
  <2>8. Holds(o, curEnd)
    BY <1>1, <2>1, <2>3, <2>4, <2>7, AppendHolds
  <2>9. /\ o \in Seq(Chunk) /\ o # <<>> /\ o[Len(o)] = c /\ Ordered(o) /\ Fits(o)
    BY <1>1, <2>1, <2>3, <2>5, <2>6, <2>7, AppendKeeps
  <2> QED
    BY <1>1, <1>3, <2>1, <2>8, <2>9 DEF o
<1>4. CASE ~ (start < curEnd /\ HasText(start, curEnd))
  <2>1. o = out
    BY <1>4 DEF AppendChunk
  <2>2. Holds(out, curEnd)
    <3> SUFFICES ASSUME NEW p \in Ink, p < curEnd
                 PROVE  \E i \in DOMAIN out : In(p, out[i])
      BY DEF Holds
    <3>1. p < start
      BY <1>1, <1>4 DEF HasText
    <3> QED
      BY <1>1, <3>1 DEF Holds
  <2> HIDE DEF o
  <2>3. out # <<>> => /\ out[Len(out)].start <= start
                      /\ out[Len(out)].end <= curEnd
                      /\ out[Len(out)].seq < seq
    BY DEF SplitInv, HandOK
  <2>4. out # <<>> => out[Len(out)].seq \in Nat
    BY <1>2 DEF Chunk
  <2> QED
    BY <1>1, <2>1, <2>2, <2>3, <2>4 DEF o
<1> QED
  BY <1>3, <1>4

-------------------------------------------------------------------------------
\* Nothing has been read, nothing has been lost.
LEMMA InitSplitInv == Init => SplitInv
<1> SUFFICES ASSUME Init PROVE SplitInv
  OBVIOUS
<1>1. TextEnd = 0 /\ DOMAIN doc = {}
  BY DEF Init, TextEnd
<1>2. TypeOK
  BY <1>1 DEF Init, TypeOK
<1>3. DocOK /\ PhaseOK /\ HandOK /\ BlockOK
  BY <1>1 DEF Init, DocOK, PhaseOK, HandOK, BlockOK
<1>4. Ink = {}
  BY <1>1 DEF Ink
<1>5. NoTextLost /\ InOrder /\ WithinSlack
  BY <1>4 DEF Init, NoTextLost, InOrder, WithinSlack
<1> QED
  BY <1>2, <1>3, <1>5 DEF SplitInv

\* A line is read: the text grows at its end, before anything is cut.
LEMMA ReadLineKeeps ==
  ASSUME SplitInv, NEW s \in LineShapes, ReadLine(s)
  PROVE  SplitInv'
<1> DEFINE line == At(s, TextEnd)
<1>1. TextEnd \in Nat /\ doc \in Seq(Line)
  BY DEF SplitInv, TypeOK, DocOK
<1>2. s.kind \in Kinds /\ s.feed \in SUBSET Nat /\ s.prot \in BOOLEAN /\ s.len \in Nat \ {0}
  BY LinesAssumption DEF Shape
<1>3. /\ line \in Line /\ line.start = TextEnd /\ line.end = TextEnd + s.len
      /\ line.feed \subseteq 0 .. TextEnd + s.len
  <2>1. \A k \in s.feed : k \in Nat /\ k < s.len
    BY <1>2, LinesAssumption DEF Shape
  <2>2. {TextEnd + k : k \in s.feed} \subseteq 0 .. TextEnd + s.len
    BY <1>1, <1>2, <2>1
  <2>3. {TextEnd + k : k \in s.feed} \in SUBSET Nat
    BY <1>1, <1>2, <2>2
  <2> QED
    BY <1>1, <1>2, <2>2, <2>3 DEF At, Line
<1> HIDE DEF line
<1>4. doc' = Append(doc, line)
  BY DEF ReadLine, line
<1>5. /\ doc' \in Seq(Line) /\ doc' # <<>>
      /\ DOMAIN doc' = 1 .. Len(doc) + 1 /\ Len(doc') = Len(doc) + 1
      /\ doc'[Len(doc) + 1] = line
      /\ \A j \in 1 .. Len(doc) : doc'[j] = doc[j]
      /\ DOMAIN doc = 1 .. Len(doc)
      /\ Len(doc) \in Nat
  BY <1>1, <1>3, <1>4
<1>6. TextEnd' = TextEnd + s.len
  BY <1>3, <1>5 DEF TextEnd
<1>7. DocOK'
  <2>1. \A j \in DOMAIN doc' : doc'[j].start < doc'[j].end /\ doc'[j].end <= TextEnd'
    <3> SUFFICES ASSUME NEW j \in 1 .. Len(doc) + 1
                 PROVE  doc'[j].start < doc'[j].end /\ doc'[j].end <= TextEnd'
      BY <1>5
    <3>1. CASE j = Len(doc) + 1
      BY <1>1, <1>2, <1>3, <1>5, <1>6, <3>1
    <3>2. CASE j \in 1 .. Len(doc)
      <4>1. doc[j].start < doc[j].end /\ doc[j].end <= TextEnd /\ doc[j] \in Line
        BY <1>1, <1>5, <3>2 DEF SplitInv, DocOK
      <4>2. doc[j].start \in Nat /\ doc[j].end \in Nat
        BY <4>1 DEF Line
      <4> QED
        BY <1>1, <1>2, <1>5, <1>6, <3>2, <4>1, <4>2
    <3> QED
      BY <1>5, <3>1, <3>2
  <2>2. \A j \in DOMAIN doc' : doc'[j].feed \subseteq 0 .. TextEnd'
    <3> SUFFICES ASSUME NEW j \in 1 .. Len(doc) + 1
                 PROVE  doc'[j].feed \subseteq 0 .. TextEnd'
      BY <1>5
    <3>1. CASE j = Len(doc) + 1
      BY <1>3, <1>5, <1>6, <3>1
    <3>2. CASE j \in 1 .. Len(doc)
      <4>1. doc[j].feed \subseteq 0 .. TextEnd
        BY <1>5, <3>2 DEF SplitInv, DocOK
      <4> QED
        BY <1>1, <1>2, <1>5, <1>6, <3>2, <4>1
    <3> QED
      BY <3>1, <3>2
  <2> QED
    BY <1>1, <1>2, <1>6, <2>1, <2>2 DEF DocOK
<1>8. /\ pc = "read" /\ out = <<>> /\ start = 0 /\ curEnd = 0 /\ seq = 0
      /\ UNCHANGED <<cfg, pc, bounds, start, curEnd, stop, seq, out>>
  BY DEF ReadLine, SplitInv, PhaseOK
<1>9. 0 .. TextEnd \subseteq 0 .. TextEnd'
  BY <1>1, <1>2, <1>6
<1>10. TypeOK'
  BY <1>5, <1>8, <1>9 DEF SplitInv, TypeOK
<1>11. (Ink \subseteq Nat)'
  BY <1>7, <1>10, DocumentFacts, PTL
<1>12. PhaseOK' /\ HandOK' /\ BlockOK'
  BY <1>8 DEF PhaseOK, HandOK, BlockOK
<1>13. NoTextLost' /\ InOrder' /\ WithinSlack'
  BY <1>8, <1>11 DEF NoTextLost, HandStart, InOrder, WithinSlack
<1> QED
  BY <1>7, <1>10, <1>12, <1>13 DEF SplitInv

\* After the reading the document and the configuration stay what they are.
LEMMA SameDocument ==
  ASSUME SplitInv, doc' = doc, cfg' = cfg
  PROVE  /\ DocOK' /\ TextEnd' = TextEnd /\ Ink' = Ink /\ Slack' = Slack
         /\ Ordered(out') => InOrder'
         /\ Fits(out') => WithinSlack'
         /\ Holds(out', IF pc' = "done" THEN TextEnd ELSE HandStart') => NoTextLost'
<1>1. TextEnd' = TextEnd
  BY DEF TextEnd
<1>2. Ink' = Ink
  BY DEF Ink, Newline
<1>3. Slack' = Slack
  BY DEF Slack, MinChunk
<1>4. DocOK'
  BY <1>1 DEF SplitInv, DocOK
<1>5. Ordered(out') => InOrder'
  BY DEF InOrder, Ordered
<1>6. Fits(out') => WithinSlack'
  BY <1>3 DEF WithinSlack, Fits, Slack
<1>7. Holds(out', IF pc' = "done" THEN TextEnd ELSE HandStart') => NoTextLost'
  BY <1>1, <1>2 DEF NoTextLost, Holds
<1> QED
  BY <1>1, <1>2, <1>3, <1>4, <1>5, <1>6, <1>7

\* The ways out of the reading, before anything has been cut.
LEMMA StartKeeps ==
  ASSUME SplitInv, ReturnNothing \/ FallBack \/ DropRaises \/ StartPacking
  PROVE  SplitInv'
<1>1. /\ pc = "read" /\ out = <<>> /\ start = 0 /\ curEnd = 0 /\ seq = 0
      /\ UNCHANGED <<doc, cfg, start, curEnd, seq, out>>
  BY DEF ReturnNothing, FallBack, DropRaises, StartPacking, SplitInv, PhaseOK
<1>2. /\ TextEnd \in Nat /\ Ink \subseteq Nat /\ HeuristicBoundaries \subseteq 0 .. TextEnd
      /\ \A p \in Ink : p < TextEnd
      /\ cfg.size \in Nat /\ Slack \in Nat
  BY DocumentFacts, ConfigFacts DEF SplitInv, DocOK
<1>3. DocOK' /\ TextEnd' = TextEnd /\ Ink' = Ink /\ Slack' = Slack
  BY <1>1, SameDocument
<1>4. InOrder' /\ WithinSlack'
  BY <1>1 DEF InOrder, WithinSlack
<1>5. CASE ReturnNothing
  <2>1. TextEnd = 0
    BY <1>5 DEF ReturnNothing, TextEnd
  <2>2. TypeOK' /\ PhaseOK' /\ HandOK' /\ BlockOK'
    BY <1>1, <1>3, <1>5 DEF ReturnNothing, SplitInv, TypeOK, PhaseOK, HandOK, BlockOK
  <2>3. NoTextLost'
    BY <1>2, <1>3, <2>1 DEF NoTextLost, HandStart
  <2> QED
    BY <1>3, <1>4, <2>2, <2>3 DEF SplitInv
<1>6. CASE FallBack
  <2>1. TextEnd > 0
    <3>1. doc \in Seq(Line) /\ doc # <<>>
      BY <1>6 DEF FallBack, SplitInv, TypeOK
    <3>2. Len(doc) \in DOMAIN doc /\ doc[Len(doc)] \in Line
      BY <3>1
    <3>3. doc[Len(doc)].start < TextEnd /\ doc[Len(doc)].start \in Nat
      BY <3>1, <3>2 DEF SplitInv, DocOK, TextEnd, Line
    <3> QED
      BY <1>2, <3>3
  <2>2. TypeOK' /\ PhaseOK' /\ HandOK' /\ BlockOK'
    BY <1>1, <1>2, <1>3, <1>6, <2>1
    DEF FallBack, SplitInv, TypeOK, PhaseOK, HandOK, BlockOK
  <2>3. NoTextLost'
    BY <1>1, <1>2, <1>3, <1>6 DEF FallBack, NoTextLost, HandStart, Reached
  <2> QED
    BY <1>3, <1>4, <2>2, <2>3 DEF SplitInv
<1>7. CASE DropRaises
  <2>1. TypeOK' /\ PhaseOK' /\ HandOK' /\ BlockOK'
    BY <1>1, <1>3, <1>7 DEF DropRaises, SplitInv, TypeOK, PhaseOK, HandOK, BlockOK
  <2>2. NoTextLost'
    BY <1>1, <1>2, <1>3, <1>7 DEF DropRaises, NoTextLost, HandStart
  <2> QED
    BY <1>3, <1>4, <2>1, <2>2 DEF SplitInv
<1>8. CASE StartPacking
  <2>1. pc' = "pack" /\ bounds' = HeuristicBoundaries \cup {0, TextEnd} /\ stop' = stop
    BY <1>8 DEF StartPacking
  <2>2. TypeOK'
    BY <1>1, <1>2, <1>3, <2>1 DEF SplitInv, TypeOK
  <2>3. PhaseOK' /\ BlockOK'
    BY <1>1, <1>3, <2>1 DEF PhaseOK, BlockOK
  <2>4. HandOK'
    BY <1>1, <1>2, <1>3, <2>1 DEF HandOK
  <2>5. NoTextLost'
    BY <1>1, <1>2, <1>3, <2>1 DEF NoTextLost, HandStart
  <2> QED
    BY <1>3, <1>4, <2>2, <2>3, <2>4, <2>5 DEF SplitInv
<1> QED
  BY <1>5, <1>6, <1>7, <1>8

\* What holds whenever the packing loop is at work.
LEMMA PackFacts ==
  ASSUME SplitInv, pc = "pack"
  PROVE  /\ TextEnd \in Nat /\ bounds \subseteq 0 .. TextEnd
         /\ start \in Nat /\ curEnd \in Nat /\ start <= curEnd
         /\ curEnd \in bounds /\ 0 \in bounds /\ TextEnd \in bounds
         /\ seq \in Nat /\ out \in Seq(Chunk) /\ Ink \subseteq Nat
         /\ cfg.size \in Nat /\ Slack \in Nat
<1>1. TextEnd \in Nat /\ Ink \subseteq Nat
  BY DocumentFacts DEF SplitInv, DocOK
<1>2. bounds \subseteq 0 .. TextEnd /\ curEnd \in bounds /\ 0 \in bounds /\ TextEnd \in bounds
  BY DEF SplitInv, TypeOK, PhaseOK
<1>3. start \in Nat /\ curEnd \in Nat /\ start <= curEnd
  BY <1>1, <1>2 DEF SplitInv, TypeOK
<1>4. seq \in Nat /\ out \in Seq(Chunk)
  BY DEF SplitInv, TypeOK
<1> QED
  BY <1>1, <1>2, <1>3, <1>4, ConfigFacts DEF SplitInv

\* What is in hand is flushed, and the long block behind it taken up.
LEMMA TakeLongBlockKeeps ==
  ASSUME SplitInv, NEW b \in bounds, TakeLongBlock(b)
  PROVE  SplitInv'
<1> DEFINE o == AppendChunk(start, curEnd, seq)
<1>1. /\ pc = "pack" /\ b > curEnd
      /\ out' = o
      /\ seq' = (IF start < curEnd THEN seq + 1 ELSE seq)
      /\ start' = curEnd /\ stop' = b /\ pc' = "inner"
      /\ UNCHANGED <<doc, cfg, bounds, curEnd>>
  BY DEF TakeLongBlock, NextBound
<1>2. /\ o \in Seq(Chunk)
      /\ Ordered(o)
      /\ Fits(o)
      /\ Holds(o, curEnd)
      /\ o # <<>> => /\ o[Len(o)].start <= start
                     /\ o[Len(o)].end <= curEnd
                     /\ o[Len(o)].seq <= seq
                     /\ start = curEnd => o[Len(o)].seq < seq
  BY <1>1, FlushFacts
<1> HIDE DEF o
<1>3. DocOK' /\ TextEnd' = TextEnd /\ Ink' = Ink /\ Slack' = Slack
  BY <1>1, SameDocument
<1>4. InOrder' /\ WithinSlack'
  BY <1>1, <1>2, SameDocument
<1>5. o # <<>> => o[Len(o)] \in Chunk
  BY <1>2
<1>6. TypeOK'
  <2>1. b \in 0 .. TextEnd /\ curEnd \in 0 .. curEnd /\ seq' \in Nat
    BY <1>1, PackFacts
  <2> QED
    BY <1>1, <1>2, <1>3, <2>1 DEF SplitInv, TypeOK
<1>7. PhaseOK' /\ HandOK'
  BY <1>1, <1>3, PackFacts DEF PhaseOK, HandOK
<1>8. BlockOK'
  <2>1. o # <<>> => /\ o[Len(o)].end <= curEnd
                    /\ o[Len(o)].start <= curEnd
                    /\ o[Len(o)].seq < seq'
    <3>1. o # <<>> => /\ o[Len(o)].start \in Nat
                      /\ o[Len(o)].end \in Nat
                      /\ o[Len(o)].seq \in Nat
      BY <1>5 DEF Chunk
    <3>2. start \in Nat /\ curEnd \in Nat /\ start <= curEnd /\ seq \in Nat
      BY <1>1, PackFacts
    <3>3. seq' = IF start < curEnd THEN seq + 1 ELSE seq
      BY <1>1
    <3> QED
      BY <1>2, <3>1, <3>2, <3>3
  <2> QED
    BY <1>1, <2>1 DEF BlockOK
<1>9. NoTextLost'
  <2>1. HandStart' = curEnd
    BY <1>1, <1>2, <1>5, PackFacts, SMTT(30) DEF HandStart, Reached, Chunk
  <2> QED
    BY <1>1, <1>2, <2>1, SameDocument
<1> QED
  BY <1>3, <1>4, <1>6, <1>7, <1>8, <1>9 DEF SplitInv

\* What is in hand is flushed, and the next chunk starts with an overlap.
LEMMA FlushAndOverlapKeeps ==
  ASSUME SplitInv, NEW b \in bounds, FlushAndOverlap(b)
  PROVE  SplitInv'
<1> DEFINE o == AppendChunk(start, curEnd, seq)
           a == AlignedOverlap(curEnd)
<1>1. /\ pc = "pack" /\ b > curEnd /\ b - curEnd <= cfg.size
      /\ curEnd - start >= MinChunk
      /\ out' = o /\ seq' = seq + 1 /\ start' = a /\ curEnd' = b
      /\ UNCHANGED <<doc, cfg, pc, bounds, stop>>
  <2>1. pc = "pack" /\ b > curEnd /\ ~ (b - curEnd > cfg.size)
    BY DEF FlushAndOverlap, NextBound, TooLong
  <2>2. b \in Nat /\ curEnd \in Nat /\ cfg.size \in Nat
    BY <2>1, PackFacts
  <2>3. b - curEnd <= cfg.size
    BY <2>1, <2>2
  <2> QED
    BY <2>1, <2>3 DEF FlushAndOverlap, Overflows
<1>2. /\ o \in Seq(Chunk)
      /\ Ordered(o)
      /\ Fits(o)
      /\ Holds(o, curEnd)
      /\ o # <<>> => /\ o[Len(o)].start <= start
                     /\ o[Len(o)].end <= curEnd
                     /\ o[Len(o)].seq <= seq
  BY <1>1, FlushFacts
<1>3. /\ start \in Nat /\ curEnd \in Nat /\ b \in Nat /\ seq \in Nat /\ Ink \subseteq Nat
      /\ curEnd \in bounds /\ bounds \subseteq 0 .. TextEnd
  BY <1>1, PackFacts
<1>4. /\ cfg.overlap \in Nat /\ cfg.size \in Nat /\ MinChunk \in Nat /\ MinChunk > 0
      /\ Slack \in Nat /\ Slack >= cfg.size + 2 * cfg.overlap
  BY ConfigFacts DEF SplitInv
<1>5. PICK c \in bounds : start <= c /\ c < curEnd
  <2>1. start < curEnd
    BY <1>1, <1>3, <1>4
  <2> QED
    BY <1>1, <2>1 DEF SplitInv, HandOK
<1>6. a \in Nat /\ a <= curEnd /\ curEnd - a <= 2 * cfg.overlap /\ c <= a
  BY <1>3, <1>5, OverlapFacts DEF SplitInv
<1> HIDE DEF o, a
<1>7. start <= a
  <2>1. c \in Nat
    BY <1>3
  <2> QED
    BY <1>3, <1>5, <1>6, <2>1
<1>8. DocOK' /\ TextEnd' = TextEnd /\ Ink' = Ink /\ Slack' = Slack
  BY <1>1, SameDocument
<1>9. InOrder' /\ WithinSlack'
  BY <1>1, <1>2, SameDocument
<1>10. o # <<>> => /\ o[Len(o)].start \in Nat
                   /\ o[Len(o)].end \in Nat
                   /\ o[Len(o)].seq \in Nat
  BY <1>2, LastChunk
<1>11. TypeOK'
  <2>1. a \in 0 .. b /\ seq + 1 \in Nat /\ b \in bounds
    BY <1>1, <1>3, <1>6
  <2> QED
    BY <1>1, <1>2, <1>8, <2>1 DEF SplitInv, TypeOK
<1>12. PhaseOK' /\ BlockOK'
  BY <1>1, <1>8 DEF SplitInv, PhaseOK, BlockOK
<1>13. HandOK'
  <2>1. o # <<>> => /\ o[Len(o)].start <= a
                    /\ o[Len(o)].end <= b
                    /\ o[Len(o)].end < b
                    /\ o[Len(o)].seq < seq + 1
    <3>1. start <= a /\ curEnd < b /\ b \in Nat /\ seq \in Nat /\ curEnd \in Nat
      BY <1>1, <1>3, <1>7
    <3>2. o # <<>> => /\ o[Len(o)].start <= start
                      /\ o[Len(o)].end <= curEnd
                      /\ o[Len(o)].seq <= seq
      BY <1>2
    <3> QED
      BY <1>3, <1>6, <1>10, <3>1, <3>2, SMTT(30)
  <2>2. a <= curEnd /\ curEnd < b
    BY <1>1, <1>3, <1>6
  <2>3. b - a <= Slack
    BY <1>1, <1>3, <1>4, <1>6
  <2> QED
    BY <1>1, <1>3, <1>8, <2>1, <2>2, <2>3 DEF HandOK
<1>14. NoTextLost'
  <2>1. Holds(o, a)
    BY <1>2, <1>3, <1>6 DEF Holds
  <2> QED
    BY <1>1, <2>1, SameDocument DEF HandStart
<1> QED
  BY <1>8, <1>9, <1>11, <1>12, <1>13, <1>14 DEF SplitInv

\* The chunk in hand takes the next block.
LEMMA ExtendKeeps ==
  ASSUME SplitInv, NEW b \in bounds, Extend(b)
  PROVE  SplitInv'
<1>1. /\ pc = "pack" /\ b > curEnd /\ ~ (b - curEnd > cfg.size)
      /\ ~ (b - start > cfg.size /\ curEnd - start >= MinChunk)
      /\ curEnd' = b
      /\ UNCHANGED <<doc, cfg, pc, bounds, start, stop, seq, out>>
  BY DEF Extend, NextBound, TooLong, Overflows
<1>2. /\ start \in Nat /\ curEnd \in Nat /\ start <= curEnd /\ b \in Nat
      /\ curEnd \in bounds /\ bounds \subseteq 0 .. TextEnd /\ TextEnd \in Nat
      /\ out \in Seq(Chunk)
  BY <1>1, PackFacts
<1>3. /\ cfg.size \in Nat /\ MinChunk \in Nat /\ MinChunk > 0
      /\ Slack \in Nat /\ Slack >= cfg.size + MinChunk - 1
  BY ConfigFacts DEF SplitInv
<1>4. DocOK' /\ TextEnd' = TextEnd /\ Ink' = Ink /\ Slack' = Slack
  BY <1>1, SameDocument
<1>5. InOrder' /\ WithinSlack' /\ NoTextLost'
  BY <1>1, SameDocument, PropertiesOfChunks DEF SplitInv, HandStart
<1>6. TypeOK'
  <2>1. start \in 0 .. b
    BY <1>1, <1>2
  <2> QED
    BY <1>1, <1>4, <2>1 DEF SplitInv, TypeOK
<1>7. PhaseOK' /\ BlockOK'
  BY <1>1, <1>4 DEF SplitInv, PhaseOK, BlockOK
<1>8. HandOK'
  <2>1. b - start <= Slack
    BY <1>1, <1>2, <1>3
  <2>2. out # <<>> => out[Len(out)].end \in Nat
    BY <1>2, LastChunk
  <2>3. out # <<>> => /\ out[Len(out)].start <= start
                      /\ out[Len(out)].end < b
                      /\ out[Len(out)].end <= b
                      /\ out[Len(out)].seq < seq
    BY <1>1, <1>2, <2>2 DEF SplitInv, HandOK
  <2>4. \E c \in bounds : start <= c /\ c < b
    <3>1. start <= curEnd /\ curEnd < b
      BY <1>1, <1>2
    <3> QED
      BY <1>2, <3>1
  <2> QED
    BY <1>1, <1>4, <2>1, <2>3, <2>4 DEF HandOK
<1> QED
  BY <1>4, <1>5, <1>6, <1>7, <1>8 DEF SplitInv

\* The last chunk.
LEMMA FlushRestKeeps ==
  ASSUME SplitInv, FlushRest
  PROVE  SplitInv'
<1>1. /\ pc = "pack" /\ curEnd = TextEnd
      /\ out' = AppendChunk(start, curEnd, seq)
      /\ pc' = "done"
      /\ UNCHANGED <<doc, cfg, bounds, start, curEnd, stop, seq>>
  BY DEF FlushRest
<1>2. /\ out' \in Seq(Chunk) /\ Ordered(out') /\ Fits(out') /\ Holds(out', TextEnd)
  BY <1>1, FlushFacts
<1>3. DocOK' /\ TextEnd' = TextEnd
  BY <1>1, SameDocument
<1>4. InOrder' /\ WithinSlack' /\ NoTextLost'
  BY <1>1, <1>2, SameDocument
<1>5. TypeOK' /\ PhaseOK' /\ HandOK' /\ BlockOK'
  BY <1>1, <1>2, <1>3 DEF SplitInv, TypeOK, PhaseOK, HandOK, BlockOK
<1> QED
  BY <1>3, <1>4, <1>5 DEF SplitInv

\* The next chunk of a long block, or of the whole text.
LEMMA InnerChunkKeeps ==
  ASSUME SplitInv, pc \in {"inner", "fallback"},
         NEW s \in InnerStarts(out, start), NEW e \in InnerEnds(out, start, stop),
         InnerChunk(s, e)
  PROVE  SplitInv'
<1> DEFINE r == Reached(out, start)
           n == InnerNumber
           c == MakeChunk(s, e, n, TRUE)
           last == out[Len(out)]
<1>1. /\ TextEnd \in Nat /\ Ink \subseteq Nat /\ \A p \in Ink : p < TextEnd
      /\ out \in Seq(Chunk) /\ Len(out) \in Nat /\ seq \in Nat
      /\ curEnd \in Nat /\ start \in Nat /\ stop \in Nat /\ start < stop
      /\ stop <= TextEnd
  <2>1. TextEnd \in Nat /\ Ink \subseteq Nat /\ \A p \in Ink : p < TextEnd
    BY DocumentFacts DEF SplitInv, DocOK
  <2>2. curEnd \in 0 .. TextEnd
    BY <2>1 DEF SplitInv, TypeOK
  <2>3. stop \in 0 .. TextEnd /\ start \in 0 .. curEnd /\ out \in Seq(Chunk) /\ seq \in Nat
    BY DEF SplitInv, TypeOK
  <2>4. start < stop
    BY DEF SplitInv, BlockOK
  <2> QED
    BY <2>1, <2>2, <2>3, <2>4
<1>2. out # <<>> => last \in Chunk /\ last.start \in Nat /\ last.end \in Nat /\ last.seq \in Nat
  BY <1>1, LastChunk
<1>3. out # <<>> =>
         \/ last.end <= start /\ last.start <= start /\ last.seq < seq
         \/ start < last.end /\ last.end < stop /\ last.seq < seq + Len(out)
  BY DEF SplitInv, BlockOK
<1>4. /\ r \in Nat /\ start <= r
      /\ out # <<>> => last.end <= r
      /\ r = start \/ (out # <<>> /\ r = last.end)
  BY <1>1, <1>2 DEF Reached
<1>5. e \in Nat /\ r < e /\ e <= stop
  BY <1>1, CutsAssumption DEF InnerEnds
<1>6. s \in Nat /\ start <= s /\ s <= r /\ (out # <<>> => last.start <= s)
  <2>1. CASE r = start
    <3>1. s = start
      BY <2>1 DEF InnerStarts
    <3>2. out # <<>> => last.start <= start
      <4>1. CASE out # <<>> /\ start < last.end
        BY <1>1, <1>2, <1>4, <2>1, <4>1
      <4> QED
        BY <1>1, <1>2, <1>3, <4>1
    <3> QED
      BY <1>1, <2>1, <3>1, <3>2
  <2>2. CASE r # start
    <3>1. s \in Cuts \cup {r} /\ start <= s /\ last.start <= s /\ s <= r
      BY <2>2 DEF InnerStarts
    <3> QED
      BY <1>4, <3>1, CutsAssumption
  <2> QED
    BY <2>1, <2>2
<1>7. n \in Nat /\ (out # <<>> => last.seq < n) /\ n < seq + Len(out) + 1
  <2>1. CASE start < r
    <3>1. out # <<>> /\ n = last.seq + 1 /\ last.end = r
      BY <1>1, <1>4, <2>1 DEF InnerNumber
    <3>2. last.seq < seq + Len(out)
      BY <1>1, <1>2, <1>3, <2>1, <3>1
    <3> HIDE DEF n, r, last
    <3> QED
      BY <1>1, <1>2, <3>1, <3>2
  <2>2. CASE r = start
    <3>1. n = seq
      BY <1>1, <2>2 DEF InnerNumber
    <3>2. out # <<>> => last.end <= start
      BY <1>4, <2>2
    <3> HIDE DEF n, r, last
    <3> QED
      BY <1>1, <1>2, <1>3, <3>1, <3>2
  <2> QED
    BY <1>1, <1>4, <2>1, <2>2
<1>8. /\ c \in Chunk /\ c.start = s /\ c.end = e /\ c.seq = n /\ c.inner = TRUE
  BY <1>5, <1>6, <1>7 DEF MakeChunk, Chunk
<1>9. /\ out' = Append(out, c)
      /\ UNCHANGED <<doc, cfg, bounds, stop>>
      /\ \/ e < stop /\ UNCHANGED <<pc, start, curEnd, seq>>
         \/ /\ ~ (e < stop)
            /\ pc' = IF pc = "inner" THEN "pack" ELSE "done"
            /\ seq' = seq + Len(out') /\ start' = stop /\ curEnd' = stop
  BY DEF InnerChunk
<1> HIDE DEF c, n, r
<1>10. TypeOK /\ Ordered(out) /\ Fits(out) /\ Holds(out, r)
  BY PropertiesOfChunks DEF SplitInv, HandStart, r
<1>11. /\ out' \in Seq(Chunk) /\ out' # <<>> /\ Len(out') = Len(out) + 1
       /\ out'[Len(out')] = c /\ Ordered(out') /\ Fits(out')
  <2>1. out # <<>> => last.start <= c.start /\ last.end < c.end /\ last.seq < c.seq
    BY <1>1, <1>2, <1>4, <1>5, <1>6, <1>7, <1>8
  <2> QED
    BY <1>8, <1>9, <1>10, <2>1, AppendKeeps
<1>12. Holds(out', e)
  <2>1. \A p \in Ink : r <= p /\ p < e => In(p, c)
    BY <1>1, <1>4, <1>5, <1>6, <1>8 DEF In
  <2> QED
    BY <1>1, <1>4, <1>5, <1>8, <1>9, <1>10, <2>1, AppendHolds
<1>13. DocOK' /\ TextEnd' = TextEnd /\ Ink' = Ink /\ Slack' = Slack
  BY <1>9, SameDocument
<1>14. InOrder' /\ WithinSlack'
  BY <1>9, <1>11, SameDocument
<1>15. CASE e < stop /\ UNCHANGED <<pc, start, curEnd, seq>>
  <2>1. TypeOK' /\ PhaseOK' /\ HandOK'
    BY <1>9, <1>11, <1>13, <1>15 DEF SplitInv, TypeOK, PhaseOK, HandOK
  <2>2. BlockOK'
    <3>1. start < e /\ n < seq + Len(out')
      BY <1>1, <1>4, <1>5, <1>7, <1>11
    <3> QED
      BY <1>1, <1>8, <1>9, <1>11, <1>15, <3>1 DEF BlockOK
  <2>3. NoTextLost'
    <3>1. HandStart' = e
      BY <1>1, <1>4, <1>5, <1>8, <1>11, <1>15 DEF HandStart, Reached
    <3>2. pc' # "done"
      BY <1>15
    <3> QED
      BY <1>9, <1>12, <3>1, <3>2, SameDocument
  <2> QED
    BY <1>13, <1>14, <2>1, <2>2, <2>3 DEF SplitInv
<1>16. CASE /\ ~ (e < stop)
            /\ pc' = IF pc = "inner" THEN "pack" ELSE "done"
            /\ seq' = seq + Len(out') /\ start' = stop /\ curEnd' = stop
  <2>1. e = stop
    BY <1>1, <1>5, <1>16
  <2>2. stop \in bounds \cup {0, TextEnd} /\ (pc = "inner" => stop \in bounds)
    BY DEF SplitInv, PhaseOK
  <2>3. TypeOK'
    <3>1. seq' \in Nat /\ stop \in 0 .. stop /\ stop \in 0 .. TextEnd
      BY <1>1, <1>11, <1>16
    <3> QED
      BY <1>9, <1>11, <1>13, <1>16, <2>2, <3>1 DEF SplitInv, TypeOK
  <2>4. PhaseOK' /\ BlockOK'
    BY <1>9, <1>13, <1>16, <2>2 DEF SplitInv, PhaseOK, BlockOK
  <2>5. HandOK'
    <3>1. n < seq' /\ s <= stop /\ stop - stop <= Slack /\ ~ (stop < stop) /\ e <= stop
      BY <1>1, <1>4, <1>5, <1>6, <1>7, <1>11, <1>16, <2>1, ConfigFacts DEF SplitInv
    <3> QED
      BY <1>8, <1>11, <1>13, <1>16, <3>1 DEF HandOK
  <2>6. NoTextLost'
    <3>1. CASE pc = "inner"
      <4>1. HandStart' = stop /\ pc' # "done"
        BY <1>16, <3>1 DEF HandStart
      <4> QED
        BY <1>9, <1>12, <2>1, <4>1, SameDocument
    <3>2. CASE pc = "fallback"
      <4>1. pc' = "done" /\ stop = TextEnd
        BY <1>16, <3>2 DEF SplitInv, PhaseOK
      <4> QED
        BY <1>9, <1>12, <2>1, <4>1, SameDocument
    <3> QED
      BY <3>1, <3>2
  <2> QED
    BY <1>13, <1>14, <2>3, <2>4, <2>5, <2>6 DEF SplitInv
<1> QED
  BY <1>9, <1>15, <1>16

\* A step that changes nothing keeps everything.
LEMMA StutterKeepsSplit == SplitInv /\ UNCHANGED vars => SplitInv'
<1> SUFFICES ASSUME SplitInv, UNCHANGED vars PROVE SplitInv'
  OBVIOUS
<1>1. UNCHANGED <<doc, cfg, pc, bounds, start, curEnd, stop, seq, out>>
  BY DEF vars
<1>2. DocOK' /\ TextEnd' = TextEnd /\ Slack' = Slack
  BY <1>1, SameDocument
<1>3. InOrder' /\ WithinSlack' /\ NoTextLost'
  BY <1>1, SameDocument, PropertiesOfChunks DEF SplitInv, HandStart
<1>4. TypeOK' /\ PhaseOK' /\ HandOK' /\ BlockOK'
  BY <1>1, <1>2 DEF SplitInv, TypeOK, PhaseOK, HandOK, BlockOK
<1> QED
  BY <1>2, <1>3, <1>4 DEF SplitInv

\* Every step of the splitter keeps the invariant.
LEMMA StepKeepsSplit == SplitInv /\ [Next]_vars => SplitInv'
<1> SUFFICES ASSUME SplitInv, [Next]_vars PROVE SplitInv'
  OBVIOUS
<1>1. CASE \E s \in LineShapes : ReadLine(s)
  BY <1>1, ReadLineKeeps
<1>2. CASE ReturnNothing \/ FallBack \/ DropRaises \/ StartPacking
  BY <1>2, StartKeeps
<1>3. CASE \E b \in bounds : TakeLongBlock(b) \/ FlushAndOverlap(b) \/ Extend(b)
  BY <1>3, TakeLongBlockKeeps, FlushAndOverlapKeeps, ExtendKeeps
<1>4. CASE SplitBlock
  BY <1>4, InnerChunkKeeps DEF SplitBlock
<1>5. CASE FlushRest
  BY <1>5, FlushRestKeeps
<1>6. CASE UNCHANGED vars
  BY <1>6, StutterKeepsSplit
<1> QED
  BY <1>1, <1>2, <1>3, <1>4, <1>5, <1>6 DEF Next

\* The invariant holds throughout.
LEMMA SplitInvAlways == Spec => []SplitInv
BY InitSplitInv, StepKeepsSplit, PTL DEF Spec

\* TypeOK: the chunk in hand always ends at a boundary, and is in the text.
THEOREM SplitterTypes == Spec => []TypeOK
<1>1. SplitInv => TypeOK
  BY DEF SplitInv
<1> QED
  BY <1>1, SplitInvAlways, PTL

(***************************************************************************)
(* NoTextLost: blank slices are left out and overlaps step back, but all   *)
(* text in front of the chunk in hand is in a chunk, in the end all of it. *)
(***************************************************************************)
THEOREM TextIsKept == Spec => []NoTextLost
<1>1. SplitInv => NoTextLost
  BY DEF SplitInv
<1> QED
  BY <1>1, SplitInvAlways, PTL

(***************************************************************************)
(* InOrder: no chunk starts before the one in front of it or lies inside   *)
(* of it, and the numbers grow, whatever is added to seq.                  *)
(***************************************************************************)
THEOREM ChunksInOrder == Spec => []InOrder
<1>1. SplitInv => InOrder
  BY DEF SplitInv
<1> QED
  BY <1>1, SplitInvAlways, PTL

(***************************************************************************)
(* WithinSlack: a chunk of whole blocks exceeds chunk_size by less than    *)
(* min_chunk_size, or by no more than the window of its overlap.           *)
(***************************************************************************)
THEOREM SlackIsLimited == Spec => []WithinSlack
<1>1. SplitInv => WithinSlack
  BY DEF SplitInv
<1> QED
  BY <1>1, SplitInvAlways, PTL
===============================================================================
