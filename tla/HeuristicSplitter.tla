--------------------------- MODULE HeuristicSplitter ---------------------------
(***************************************************************************)
(* chunker/heuristic_splitter.py: a document is cut at positions that look *)
(* like the start of something new (form feeds, chapter lines, runs of     *)
(* empty lines), the blocks between them are packed greedily into chunks,  *)
(* a chunk starts with an aligned overlap, a slice without text is left    *)
(* out, and a block that is too long goes to split_text().                 *)
(*                                                                         *)
(* The document is read a line at a time, each with its newline.  A line   *)
(* matches one of the patterns ("mark"), is a fence, is blank, or is       *)
(* anything else; it may hold form feeds, at any offset, and something     *)
(* protected (a table row, a link, an image).                              *)
(***************************************************************************)
EXTENDS SplitText, FiniteSetsExt

CONSTANTS
  LineShapes,  \* the lines a document can be made of
  MaxLines,    \* bound on the number of lines
  Configs,     \* chunk_size and chunk_overlap, repaired by ensure_defaults()
  MinFloor     \* the smallest min_chunk_size

Kinds == {"mark", "fence", "blank", "plain"}

\* feed: the offsets of the form feeds, which lie before the newline.
Shape == [kind : Kinds, feed : SUBSET Nat, prot : BOOLEAN, len : Nat \ {0}]

ASSUME LinesAssumption ==
  /\ LineShapes \subseteq Shape
  /\ \A s \in LineShapes : \A k \in s.feed : k < s.len - 1
  /\ MaxLines \in Nat

ASSUME ConfigsAssumption ==
  /\ Configs \subseteq [size : Nat \ {0}, overlap : Nat]
  /\ \A c \in Configs : 2 * c.overlap <= c.size
  /\ MinFloor \in Nat \ {0}

VARIABLES
  doc,     \* the lines read so far, each with its position
  cfg,     \* the SplitterConfig
  pc,      \* where the splitter is
  bounds,  \* the positions of the boundaries, with both ends of the document
  start,   \* chunk_start
  curEnd,  \* cur_end, always a boundary
  stop,    \* where the block in the hands of split_text() ends
  seq,     \* the number of the next chunk
  out      \* the chunks

vars == <<doc, cfg, pc, bounds, start, curEnd, stop, seq, out>>

Line == [kind : Kinds, feed : SUBSET Nat, prot : BOOLEAN, start : Nat, end : Nat]

Chunk == [start : Nat, end : Nat, seq : Nat, inner : BOOLEAN]

TextEnd == IF doc = <<>> THEN 0 ELSE doc[Len(doc)].end

\* The line s at a position; its form feeds are kept by their positions.
At(s, pos) == [kind |-> s.kind, feed |-> {pos + k : k \in s.feed}, prot |-> s.prot,
               start |-> pos, end |-> pos + s.len]

-------------------------------------------------------------------------------
(***************************************************************************)
(* find_heuristic_boundaries()                                             *)
(***************************************************************************)
FormFeeds == UNION {doc[j].feed : j \in DOMAIN doc}

Outside(j) == Cardinality({m \in 1 .. j - 1 : doc[m].kind = "fence"}) % 2 = 0

Marks == {doc[j].start : j \in {k \in DOMAIN doc : doc[k].kind = "mark" /\ Outside(k)}}

Newline(j) == doc[j].end - 1

Empty(j) == doc[j].start = Newline(j)

\* The newline of line j is the first of at least three in a row.
StartsBlankRun(j) ==
  /\ j + 2 <= Len(doc)
  /\ Empty(j + 1) /\ Empty(j + 2)
  /\ j > 1 => ~ Empty(j)

BlankRuns == {Newline(j) : j \in {k \in DOMAIN doc : StartsBlankRun(k)}}

HeuristicBoundaries == FormFeeds \cup Marks \cup BlankRuns

\* protected_spans(): something protected in a line, or two fences.
HasProtected ==
  \/ \E j \in DOMAIN doc : doc[j].prot
  \/ Cardinality({j \in DOMAIN doc : doc[j].kind = "fence"}) >= 2

(***************************************************************************)
(* The positions that hold text; str.strip() takes everything else away,   *)
(* newlines and form feeds included.                                       *)
(***************************************************************************)
Ink ==
  UNION {(doc[j].start .. Newline(j) - 1) \ doc[j].feed :
           j \in {k \in DOMAIN doc : doc[k].kind # "blank"}}

HasText(s, e) == \E p \in Ink : s <= p /\ p < e

-------------------------------------------------------------------------------
NextBound(b) ==
  /\ b \in bounds
  /\ b > curEnd
  /\ \A c \in bounds : c > curEnd => b <= c

MinChunk == Max({cfg.size \div 4, MinFloor})

\* max(0, a - b)
Minus(a, b) == IF a < b THEN 0 ELSE a - b

\* Fault: the overlap is not snapped to anything, and not limited either.
UnlimitedOverlap(end) == Max({0} \cup {b \in bounds : b < end})

(***************************************************************************)
(* apply_overlap_aligned(): the last boundary in the window, or what       *)
(* follows the last newline up to the target in it, or the target.         *)
(***************************************************************************)
AlignedOverlap(end) ==
  LET target   == Minus(end, cfg.overlap)
      window   == Minus(end, 2 * cfg.overlap)
      near     == {b \in bounds : window <= b /\ b < end}
      newlines == {p \in window + 1 .. target : \E j \in DOMAIN doc : p = Newline(j)}
  IN  IF cfg.overlap = 0 THEN end
      ELSE IF near # {} THEN Max(near)
      ELSE IF newlines # {} THEN Max(newlines) + 1
      ELSE target

MakeChunk(s, e, n, inner) == [start |-> s, end |-> e, seq |-> n, inner |-> inner]

\* Fault: a slice is taken for blank when its last character is.
AppendUnlessEndsBlank(s, e, n) ==
  IF s < e /\ HasText(e - 1, e) THEN Append(out, MakeChunk(s, e, n, FALSE)) ELSE out

\* append_chunk()
AppendChunk(s, e, n) ==
  IF s < e /\ HasText(s, e) THEN Append(out, MakeChunk(s, e, n, FALSE)) ELSE out

Init ==
  /\ doc = <<>>
  /\ cfg \in Configs
  /\ pc = "read"
  /\ bounds = {}
  /\ start = 0
  /\ curEnd = 0
  /\ stop = 0
  /\ seq = 0
  /\ out = <<>>

ReadLine(s) ==
  /\ pc = "read"
  /\ Len(doc) < MaxLines
  /\ doc' = Append(doc, At(s, TextEnd))
  /\ UNCHANGED <<cfg, pc, bounds, start, curEnd, stop, seq, out>>

ReturnNothing ==
  /\ pc = "read"
  /\ doc = <<>>
  /\ pc' = "done"
  /\ UNCHANGED <<doc, cfg, bounds, start, curEnd, stop, seq, out>>

\* A short text, or one without boundaries, goes to split_text() as a whole.
FallBack ==
  /\ pc = "read"
  /\ doc # <<>>
  /\ TextEnd <= cfg.size \/ HeuristicBoundaries = {}
  /\ stop' = TextEnd
  /\ pc' = "fallback"
  /\ UNCHANGED <<doc, cfg, bounds, start, curEnd, seq, out>>

Usable == doc # <<>> /\ TextEnd > cfg.size /\ HeuristicBoundaries # {}

(***************************************************************************)
(* drop_bounds_inside_spans() indexes a span, which is a tuple, by name:   *)
(* with a boundary and a span to compare, it raises a TypeError.           *)
(***************************************************************************)
DropRaises ==
  /\ pc = "read"
  /\ Usable
  /\ HasProtected
  /\ pc' = "raised"
  /\ UNCHANGED <<doc, cfg, bounds, start, curEnd, stop, seq, out>>

StartPacking ==
  /\ pc = "read"
  /\ Usable
  /\ ~ HasProtected
  /\ bounds' = HeuristicBoundaries \cup {0, TextEnd}
  /\ pc' = "pack"
  /\ UNCHANGED <<doc, cfg, start, curEnd, stop, seq, out>>

-------------------------------------------------------------------------------
(***************************************************************************)
(* One turn of the packing loop, for the block that ends at b.             *)
(***************************************************************************)
TooLong(b) == b - curEnd > cfg.size

\* Fault: chunk_start is moved behind the block before it is split.
TakeLongBlockAhead(b) ==
  /\ pc = "pack"
  /\ NextBound(b)
  /\ TooLong(b)
  /\ out' = AppendChunk(start, curEnd, seq)
  /\ seq' = IF start < curEnd THEN seq + 1 ELSE seq
  /\ start' = b
  /\ stop' = b
  /\ pc' = "inner"
  /\ UNCHANGED <<doc, cfg, bounds, curEnd>>

\* A block that is too long: flush what is in hand, split the block.
TakeLongBlock(b) ==
  /\ pc = "pack"
  /\ NextBound(b)
  /\ TooLong(b)
  /\ out' = AppendChunk(start, curEnd, seq)
  /\ seq' = IF start < curEnd THEN seq + 1 ELSE seq
  /\ start' = curEnd
  /\ stop' = b
  /\ pc' = "inner"
  /\ UNCHANGED <<doc, cfg, bounds, curEnd>>

Overflows(b) == b - start > cfg.size /\ curEnd - start >= MinChunk

FlushAndOverlap(b) ==
  /\ pc = "pack"
  /\ NextBound(b)
  /\ ~ TooLong(b)
  /\ Overflows(b)
  /\ out' = AppendChunk(start, curEnd, seq)
  /\ seq' = seq + 1
  /\ start' = AlignedOverlap(curEnd)
  /\ curEnd' = b
  /\ UNCHANGED <<doc, cfg, pc, bounds, stop>>

Extend(b) ==
  /\ pc = "pack"
  /\ NextBound(b)
  /\ ~ TooLong(b)
  /\ ~ Overflows(b)
  /\ curEnd' = b
  /\ UNCHANGED <<doc, cfg, pc, bounds, start, stop, seq, out>>

FlushRest ==
  /\ pc = "pack"
  /\ curEnd = TextEnd
  /\ out' = AppendChunk(start, curEnd, seq)
  /\ pc' = "done"
  /\ UNCHANGED <<doc, cfg, bounds, start, curEnd, stop, seq>>

\* The chunks of a block come next in number; chunk_start stands at its start.
InnerNumber == IF start < Reached(out, start) THEN out[Len(out)].seq + 1 ELSE seq

\* Fault: after a block the numbers go on where they were before it.
InnerChunkSameNumber(s, e) ==
  /\ pc \in {"inner", "fallback"}
  /\ out' = Append(out, MakeChunk(s, e, InnerNumber, TRUE))
  /\ IF e < stop
     THEN UNCHANGED <<pc, start, curEnd, seq>>
     ELSE /\ pc' = IF pc = "inner" THEN "pack" ELSE "done"
          /\ seq' = seq
          /\ start' = stop
          /\ curEnd' = stop
  /\ UNCHANGED <<doc, cfg, bounds, stop>>

\* append_oversize_block(); then the number of ALL chunks is added to seq.
InnerChunk(s, e) ==
  /\ pc \in {"inner", "fallback"}
  /\ out' = Append(out, MakeChunk(s, e, InnerNumber, TRUE))
  /\ IF e < stop
     THEN UNCHANGED <<pc, start, curEnd, seq>>
     ELSE /\ pc' = IF pc = "inner" THEN "pack" ELSE "done"
          /\ seq' = seq + Len(out')
          /\ start' = stop
          /\ curEnd' = stop
  /\ UNCHANGED <<doc, cfg, bounds, stop>>

SplitBlock ==
  /\ pc \in {"inner", "fallback"}
  /\ \E s \in InnerStarts(out, start), e \in InnerEnds(out, start, stop) :
       InnerChunk(s, e)

Next ==
  \/ \E s \in LineShapes : ReadLine(s)
  \/ ReturnNothing
  \/ FallBack
  \/ DropRaises
  \/ StartPacking
  \/ \E b \in bounds : TakeLongBlock(b) \/ FlushAndOverlap(b) \/ Extend(b)
  \/ SplitBlock
  \/ FlushRest

Spec == Init /\ [][Next]_vars

-------------------------------------------------------------------------------
\* The variables have their types; the chunk in hand ends at a boundary.
TypeOK ==
  /\ doc \in Seq(Line)
  /\ cfg \in Configs
  /\ pc \in {"read", "fallback", "pack", "inner", "done", "raised"}
  /\ bounds \subseteq 0 .. TextEnd
  /\ start \in 0 .. curEnd
  /\ curEnd \in bounds \cup {0, TextEnd}
  /\ stop \in 0 .. TextEnd
  /\ seq \in Nat
  /\ out \in Seq(Chunk)

(***************************************************************************)
(* Blank slices are skipped and overlaps step back, but no text is lost:   *)
(* what lies before the chunk in hand is in a chunk already.               *)
(***************************************************************************)
In(p, c) == c.start <= p /\ p < c.end

HandStart == IF pc \in {"inner", "fallback"} THEN Reached(out, start) ELSE start

NoTextLost ==
  \A p \in Ink :
    p < (IF pc = "done" THEN TextEnd ELSE HandStart) =>
      \E i \in DOMAIN out : In(p, out[i])

(***************************************************************************)
(* The chunks are in order: none starts before the one in front of it, or  *)
(* lies inside of it, although every overlap looks for its start on its    *)
(* own; and their numbers grow, although slices are skipped and seq is     *)
(* moved on by a wrong amount after a long block.                          *)
(***************************************************************************)
InOrder ==
  \A i \in 1 .. Len(out) - 1 :
    /\ out[i].start <= out[i + 1].start
    /\ out[i].end < out[i + 1].end
    /\ out[i].seq < out[i + 1].seq

(***************************************************************************)
(* A chunk made of whole blocks exceeds chunk_size by less than            *)
(* min_chunk_size, or by no more than the window of its overlap.           *)
(***************************************************************************)
WithinSlack ==
  \A i \in DOMAIN out :
    ~ out[i].inner =>
      out[i].end - out[i].start <= cfg.size + Max({MinChunk - 1, 2 * cfg.overlap})

(***************************************************************************)
(* "callers always receive at least one chunk-set" (profiler.py:294); the  *)
(* callers of this splitter catch nothing.                                 *)
(***************************************************************************)
AlwaysAnswers == pc # "raised"
===============================================================================
