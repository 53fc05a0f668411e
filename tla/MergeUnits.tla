------------------------------ MODULE MergeUnits ------------------------------
(***************************************************************************)
(* chunker/splitter.py, merge_units() and what it calls: the loop that     *)
(* packs the atomic pieces of a document ("units") into chunks of at most  *)
(* ChunkSize characters, repeats the tail of a chunk at the start of the   *)
(* next one, repeats the header of a table that is cut, and cuts a unit    *)
(* that is larger than the absolute maximum.                               *)
(*                                                                         *)
(* The units arrive one at a time, any shape at any time: the splitter     *)
(* never looks ahead.  A unit of the document is a record of the kind that *)
(* HeaderTracker describes, with its position and its length; a "marker"   *)
(* is the zero-width unit that carries a repeated header.                  *)
(***************************************************************************)
EXTENDS HeaderTracker, SequencesExt

CONSTANTS
  UnitShapes,   \* the pieces a document can be made of
  Configs,      \* the SplitterConfigs split_text() is called with
  DefaultSize,  \* the chunk size that replaces one that is not positive
  AbsMax,       \* ABSOLUTE_MAX_SIZE
  BreakWindow,  \* how far back a forced cut looks for a space or newline
  MaxUnits      \* bound on the number of units of a document

Kinds == {"head", "row", "pipe", "text", "blank", "marker"}

Shape == [kind : Kinds \ {"marker"}, len : Nat \ {0}, cols : Nat,
          brk : BOOLEAN, bare : BOOLEAN]

ASSUME ShapesAssumption == UnitShapes \subseteq Shape

ASSUME SizesAssumption ==
  /\ Configs \subseteq [size : Int, overlap : Int]
  /\ DefaultSize \in Nat \ {0}
  /\ AbsMax \in Nat \ {0}
  /\ BreakWindow \in 1 .. AbsMax
  /\ MaxUnits \in Nat

VARIABLES
  cfg,      \* the configuration of this call
  units,    \* the units of the document read so far
  ht,       \* the header tracker
  current,  \* the units of the chunk being filled
  curLen,   \* cur_len
  chunks,   \* the chunks produced
  rest,     \* what is left of an oversized unit that is being cut
  phase     \* "merging" | "done"

vars == <<cfg, units, ht, current, curLen, chunks, rest, phase>>

\* chunk_size and chunk_overlap, as merge_units() receives them.
ChunkSize == cfg.size
ChunkOverlap == cfg.overlap

Unit == [start : Nat, end : Nat, len : Nat, kind : Kinds, cols : Nat,
         brk : BOOLEAN, bare : BOOLEAN, src : Nat]

Chunk == [start : Nat, end : Nat, content : Seq(Unit)]

TextEnd == IF units = <<>> THEN 0 ELSE units[Len(units)].end

At(s, pos) == [start |-> pos, end |-> pos + s.len, len |-> s.len,
               kind |-> s.kind, cols |-> s.cols, brk |-> s.brk,
               bare |-> s.bare, src |-> pos]

Marker(h, pos) == [start |-> pos, end |-> pos, len |-> h.len,
                   kind |-> "marker", cols |-> h.cols, brk |-> FALSE,
                   bare |-> FALSE, src |-> h.src]

IsMarker(u) == u.start = u.end

ShownExtra(u) == IF IsMarker(u) THEN u.len ELSE 0

(***************************************************************************)
(* The number of characters in us[k], us[k + 1], ... : the units of a      *)
(* chunk lie next to each other in the document, and only a marker shows   *)
(* text that its own positions do not count.                               *)
(***************************************************************************)
RunLen(us, k) ==
  IF k > Len(us) THEN 0
  ELSE us[Len(us)].end - us[k].start + ShownExtra(us[k])

From(us, k) == SubSeq(us, k, Len(us))

BuildChunk(us) ==
  [start |-> us[1].start, end |-> us[Len(us)].end, content |-> us]

-------------------------------------------------------------------------------
(***************************************************************************)
(* compute_overlap(): the two loops, each described by where it stops.     *)
(***************************************************************************)
\* Fault: the overlap ignores the unit that is to follow it.
OverlapIgnoresNext(us, k, nextLen) == RunLen(us, k) <= ChunkOverlap

OverlapFits(us, k, nextLen) ==
  /\ RunLen(us, k) <= ChunkOverlap
  /\ RunLen(us, k) + nextLen <= ChunkSize

\* The walk back from the end of us stops at k.
WalkBackStops(us, k, nextLen) ==
  /\ \A j \in k .. Len(us) : OverlapFits(us, j, nextLen)
  /\ k > 1 => ~ OverlapFits(us, k - 1, nextLen)

Skipped(u) == IsMarker(u) \/ u.kind = "blank"

\* Skipping leading markers and blanks from k on stops at t.
SkipStops(us, k, t) ==
  /\ k <= t
  /\ \A j \in k .. t - 1 : Skipped(us[j])
  /\ t <= Len(us) => ~ Skipped(us[t])

\* Dropping units from the front until the rest fits in room stops at s.
ShrinkStops(us, t, s, room) ==
  /\ t <= s
  /\ \A j \in t .. s - 1 : RunLen(us, j) > room
  /\ s <= Len(us) => RunLen(us, s) <= room

\* The header merge_units() reserves room for: none longer than a chunk.
Usable(h) == h # NoHeader /\ h.len <= ChunkSize

HeaderLen(h) == IF Usable(h) THEN h.len ELSE 0

\* header_already_present(): the unit that shows the column names is there.
Shows(us, u, h) ==
  u.src = h.src \/ \E i \in 1 .. Len(us) : us[i].src = h.src

(***************************************************************************)
(* A new chunk starts with base, of baseLen characters, after us has been  *)
(* flushed because u did not fit: the overlap and, in front of it, the     *)
(* header h of the table if there is room for it and it is not shown yet.  *)
(***************************************************************************)
OverlapFrom(us, t, nextLen) ==
  \E k \in 1 .. Len(us) + 1 : WalkBackStops(us, k, nextLen) /\ SkipStops(us, k, t)

NeedsMarker(kept, u, h) == ~ Shows(kept, u, h) /\ ~ WidthDiffers(h, u)

\* Fault: the marker stands at the new unit, behind the overlap's start.
MarkerAtUnit(kept, u, h) == <<Marker(h, u.start)>> \o kept

WithMarker(kept, u, h) ==
  <<Marker(h, IF kept # <<>> THEN kept[1].start ELSE u.start)>> \o kept

-------------------------------------------------------------------------------
\* Fault: a negative overlap is passed on.
RepairedSizeOnly(c) == [size    |-> IF c.size <= 0 THEN DefaultSize ELSE c.size,
                        overlap |-> c.overlap]

\* split_text() repairs a configuration before it uses it.
Repaired(c) == [size    |-> IF c.size <= 0 THEN DefaultSize ELSE c.size,
                overlap |-> IF c.overlap < 0 THEN 0 ELSE c.overlap]

Init ==
  /\ cfg \in {Repaired(c) : c \in Configs}
  /\ units = <<>>
  /\ ht = NewTracker
  /\ current = <<>>
  /\ curLen = 0
  /\ chunks = <<>>
  /\ rest = <<>>
  /\ phase = "merging"

\* The loop takes the next unit of the document.
Read(u) ==
  /\ phase = "merging"
  /\ rest = <<>>
  /\ Len(units) < MaxUnits
  /\ units' = Append(units, u)
  /\ ht' = Update(ht, u)
  /\ UNCHANGED <<cfg, phase>>

\* ht.header_ended_this_unit and current
AtTableBoundary == ht'.endedNow /\ current # <<>>

\* Fault: no room is reserved for the header of the next chunk.
OverflowsWithoutHeader(u) == current # <<>> /\ curLen + u.len > ChunkSize

\* Fault: room is reserved for an overlap as well.
OverflowsWithOverlap(u) ==
  current # <<>> /\ curLen + u.len + HeaderLen(ht'.active) + ChunkOverlap > ChunkSize

Overflows(u) ==
  current # <<>> /\ curLen + u.len + HeaderLen(ht'.active) > ChunkSize

\* Fault: cur_len is not reset after the flush at the absolute maximum.
PlaceWithoutReset(cs, base, baseLen, u) ==
  /\ curLen' = baseLen + u.len
  /\ IF baseLen + u.len > AbsMax /\ base # <<>>
     THEN chunks' = Append(cs, BuildChunk(base)) /\ current' = <<u>>
     ELSE chunks' = cs /\ current' = Append(base, u)

(***************************************************************************)
(* The end of the loop body: u joins base, unless the two together exceed  *)
(* the absolute maximum; then base becomes a chunk of its own first.       *)
(***************************************************************************)
Place(cs, base, baseLen, u) ==
  IF baseLen + u.len > AbsMax /\ base # <<>>
  THEN /\ chunks' = Append(cs, BuildChunk(base))
       /\ current' = <<u>>
       /\ curLen' = u.len
  ELSE /\ chunks' = cs
       /\ current' = Append(base, u)
       /\ curLen' = baseLen + u.len

\* A new table starts: the chunk of the previous one is flushed before it.
FlushAtTableBoundary(u) ==
  /\ u.len <= AbsMax
  /\ Read(u)
  /\ AtTableBoundary
  /\ Place(Append(chunks, BuildChunk(current)), <<>>, 0, u)
  /\ UNCHANGED rest

\* The unit fits into the chunk being filled.
Extend(u) ==
  /\ u.len <= AbsMax
  /\ Read(u)
  /\ ~ AtTableBoundary
  /\ ~ Overflows(u)
  /\ Place(chunks, current, curLen, u)
  /\ UNCHANGED rest

\* The chunk is full; the unit starts the next one, after its overlap.
FlushAndOverlap(u) ==
  /\ u.len <= AbsMax
  /\ Read(u)
  /\ ~ AtTableBoundary
  /\ Overflows(u)
  /\ \E t \in 1 .. Len(current) + 1 :
       /\ OverlapFrom(current, t, u.len)
       /\ LET h  == ht'.active
              cs == Append(chunks, BuildChunk(current))
          IN  IF Usable(h) /\ h.len + u.len <= ChunkSize
              THEN \E s \in t .. Len(current) + 1 :
                     /\ ShrinkStops(current, t, s, ChunkSize - u.len - h.len)
                     /\ LET kept == From(current, s)
                        IN  IF NeedsMarker(kept, u, h)
                            THEN Place(cs, WithMarker(kept, u, h),
                                       RunLen(current, s) + h.len, u)
                            ELSE Place(cs, kept, RunLen(current, s), u)
              ELSE Place(cs, From(current, t), RunLen(current, t), u)
  /\ UNCHANGED rest

\* Fault: the chunk in hand is flushed but not emptied.
CutWithoutReset(u) ==
  /\ u.len > AbsMax
  /\ Read(u)
  /\ chunks' = IF current = <<>> THEN chunks
               ELSE Append(chunks, BuildChunk(current))
  /\ rest' = <<u>>
  /\ UNCHANGED <<current, curLen>>

\* Fault: the chunk in hand is dropped.
CutWithoutFlush(u) ==
  /\ u.len > AbsMax
  /\ Read(u)
  /\ current' = <<>>
  /\ curLen' = 0
  /\ rest' = <<u>>
  /\ UNCHANGED chunks

\* A unit larger than the absolute maximum: flush, then cut it up.
StartCutting(u) ==
  /\ u.len > AbsMax
  /\ Read(u)
  /\ chunks' = IF current = <<>> THEN chunks
               ELSE Append(chunks, BuildChunk(current))
  /\ current' = <<>>
  /\ curLen' = 0
  /\ rest' = <<u>>

\* The lengths of the next piece: a full one, or up to a space or newline
\* near its end; what is shorter than a full piece is the last one.
PieceLengths(len) ==
  IF len < AbsMax THEN {len} ELSE (AbsMax - BreakWindow + 2 .. AbsMax) \cup {AbsMax}

Piece(u, n) == [u EXCEPT !.end = u.start + n, !.len = n]

Remainder(u, n) == [u EXCEPT !.start = u.start + n, !.len = u.len - n]

\* Fault: the loop condition is still true when the unit is used up.
CutPieceForever(n) ==
  /\ rest # <<>>
  /\ LET u == rest[1]
     IN  /\ n \in PieceLengths(u.len)
         /\ chunks' = Append(chunks, BuildChunk(<<Piece(u, n)>>))
         /\ rest' = <<Remainder(u, n)>>
  /\ UNCHANGED <<cfg, units, ht, current, curLen, phase>>

CutPiece(n) ==
  /\ rest # <<>>
  /\ LET u == rest[1]
     IN  /\ n \in PieceLengths(u.len)
         /\ chunks' = Append(chunks, BuildChunk(<<Piece(u, n)>>))
         /\ rest' = IF n = u.len THEN <<>>
                    ELSE <<Remainder(u, n)>>
  /\ UNCHANGED <<cfg, units, ht, current, curLen, phase>>

\* The document is at its end: flush what is left and return.
Finish ==
  /\ phase = "merging"
  /\ rest = <<>>
  /\ chunks' = IF current = <<>> THEN chunks
               ELSE Append(chunks, BuildChunk(current))
  /\ phase' = "done"
  /\ UNCHANGED <<cfg, units, ht, current, curLen, rest>>

NextUnit ==
  \E s \in UnitShapes :
    LET u == At(s, TextEnd)
    IN  \/ FlushAtTableBoundary(u)
        \/ Extend(u)
        \/ FlushAndOverlap(u)
        \/ StartCutting(u)

Next ==
  \/ NextUnit
  \/ \E n \in 1 .. AbsMax : CutPiece(n)
  \/ Finish

Spec == Init /\ [][Next]_vars

\* The loop is a plain Python loop over a finite list: it never stops early.
FairSpec == Spec /\ WF_vars(Next)

-------------------------------------------------------------------------------
(***************************************************************************)
(* What the chunks are for.  The document is the sequence units; a chunk   *)
(* shows it from start to end, after a marker or without one.              *)
(***************************************************************************)
TypeOK ==
  /\ cfg \in [size : Nat \ {0}, overlap : Nat]
  /\ units \in Seq(Unit)
  /\ ht \in Tracker
  /\ current \in Seq(Unit)
  /\ curLen \in Nat
  /\ chunks \in Seq(Chunk)
  /\ rest \in Seq(Unit)
  /\ Len(rest) <= 1
  /\ phase \in {"merging", "done"}

HasMarker(us) == us # <<>> /\ us[1].kind = "marker"

ContentLen(us) ==
  LET sum[k \in 0 .. Len(us)] == IF k = 0 THEN 0 ELSE sum[k - 1] + us[k].len
  IN  sum[Len(us)]

(***************************************************************************)
(* us shows one stretch of the document without a hole; a repeated header  *)
(* can only stand in front of it.                                          *)
(***************************************************************************)
IsSlice(us) ==
  /\ \A i \in 1 .. Len(us) :
       /\ us[i].kind = "marker" => i = 1 /\ us[i].end = us[i].start
       /\ us[i].kind # "marker" => us[i].end = us[i].start + us[i].len /\ us[i].len > 0
  /\ \A i \in 1 .. Len(us) - 1 : us[i + 1].start = us[i].end

(***************************************************************************)
(* text[start:end] is the content of a chunk without its repeated header:  *)
(* what splitter_test.py checks on one document ("Verify text[Start:End]   *)
(* matches the non-header portion of Content").                            *)
(***************************************************************************)
ChunksAreSlices ==
  \A i \in 1 .. Len(chunks) :
    LET c == chunks[i]
    IN  /\ c.content # <<>>
        /\ IsSlice(c.content)
        /\ c.start = c.content[1].start
        /\ c.end = c.content[Len(c.content)].end

(***************************************************************************)
(* cur_len, which merge_units() keeps up to date by hand through overlap,  *)
(* shrinking and header repetition, is the number of characters of the     *)
(* chunk in hand; and every chunk has the length its positions tell.       *)
(***************************************************************************)
LengthsAreExact ==
  /\ curLen = ContentLen(current)
  /\ \A i \in 1 .. Len(chunks) :
       RunLen(chunks[i].content, 1) = ContentLen(chunks[i].content)

(***************************************************************************)
(* "Enforces an absolute maximum chunk size": no chunk is longer than      *)
(* that, and none but a single unit is longer than chunk_size, repeated    *)
(* header included.  A chunk_size above the absolute maximum is the one    *)
(* case where a repeated header can push a chunk over it.                  *)
(***************************************************************************)
Allowed(us, len) ==
  /\ len <= AbsMax \/ (ChunkSize > AbsMax /\ HasMarker(us))
  /\ len <= ChunkSize \/ Len(us) = 1

WithinBudget ==
  \A i \in 1 .. Len(chunks) :
    Allowed(chunks[i].content, RunLen(chunks[i].content, 1))

(***************************************************************************)
(* Every chunk reaches further into the document than the one before it:   *)
(* none consists only of text that an earlier chunk already holds.         *)
(***************************************************************************)
EveryChunkIsNew ==
  ChunkSize <= AbsMax =>
    \A i \in 1 .. Len(chunks) - 1 : chunks[i].end < chunks[i + 1].end

(***************************************************************************)
(* A chunk that repeats a header and no text of the chunk before it would  *)
(* not have fit into that chunk: coalesce_tiny_chunks(), which joins what  *)
(* touches and fits, can never bury a repeated header.                     *)
(***************************************************************************)
RepeatedHeadersDoNotFit ==
  ChunkSize <= AbsMax =>
    \A i \in 1 .. Len(chunks) - 1 :
      LET c == chunks[i]
          d == chunks[i + 1]
      IN  HasMarker(d.content) /\ c.end = d.start =>
            RunLen(c.content, 1) + RunLen(d.content, 1) > ChunkSize

-------------------------------------------------------------------------------
(***************************************************************************)
(* Tables, as a reader of the document sees them: a table starts at a      *)
(* header that does not continue the rows above it, and goes on to the     *)
(* next empty line or the next unit that is no row.  It owes nothing to    *)
(* the tracker.                                                            *)
(***************************************************************************)
IsRow(u) == u.kind \in {"row", "head"}
Piped(u) == u.kind \in {"row", "head", "pipe"}

StartsTable(j) ==
  /\ units[j].kind = "head"
  /\ j > 1 => ~ IsRow(units[j - 1]) \/ units[j - 1].brk

InTable(j, i) ==
  /\ j <= i
  /\ StartsTable(j)
  /\ \A m \in j + 1 .. i : IsRow(units[m]) /\ ~ units[m - 1].brk

IndexOf(u) == CHOOSE i \in 1 .. Len(units) : units[i].src = u.src

\* The unit that names the columns of the table that starts at j.
NamesAt(j) == IF units[j].bare THEN j + 1 ELSE j

RepeatedLen(j) ==
  IF units[j].bare THEN units[j + 1].len + SepLen ELSE units[j].len

\* The chunks with a marker, the one in hand included.
Marked ==
  {us \in {chunks[i].content : i \in 1 .. Len(chunks)} \cup {current} : HasMarker(us)}

(***************************************************************************)
(* A repeated header never travels across prose, nor in front of a row of  *)
(* another width ("Flush at table boundary so the next table is not merged *)
(* into a chunk that still carries the previous table's prepended header   *)
(* context", splitter.py).                                                 *)
(***************************************************************************)
HeaderStaysInItsTables ==
  \A us \in {m \in Marked : Len(m) > 1} :
    /\ \A i \in IndexOf(us[1]) .. IndexOf(us[2]) : Piped(units[i])
    /\ ~ WidthDiffers(us[1], us[2])

(***************************************************************************)
(* The row just read is put into a chunk that shows the column names of    *)
(* its table, when the table was the first one after prose, its rows have  *)
(* one width, none of them had to be cut, header and row fit into          *)
(* chunk_size together, and that is at most the absolute maximum.          *)
(***************************************************************************)
Regular(j, n) ==
  \A m \in j .. n :
    HasRow(units[m]) /\ units[m].cols = units[n].cols /\ units[m].len <= AbsMax

RowOwesHeader(j, n) ==
  /\ InTable(j, n)
  /\ n >= NamesAt(j)
  /\ Regular(j, n)
  /\ RepeatedLen(j) + units[n].len <= ChunkSize
  /\ ChunkSize <= AbsMax

ShowsNames(j) ==
  \E i \in 1 .. Len(current) : current[i].src = units[NamesAt(j)].src

RowsCarryHeader ==
  (phase = "merging" /\ current # <<>>) =>
    \A j \in 1 .. Len(units) :
      RowOwesHeader(j, Len(units)) /\ (j > 1 => ~ Piped(units[j - 1])) => ShowsNames(j)

(***************************************************************************)
(* The same for every table of one header and rows, one that follows       *)
(* another included ("chunk with table-2 rows should have table-2 header", *)
(* splitter_test.py).                                                      *)
(***************************************************************************)
OneHeader(j, n) == \A m \in j + 1 .. n : units[m].kind = "row"

EveryTableCarriesHeader ==
  (phase = "merging" /\ current # <<>>) =>
    \A j \in 1 .. Len(units) :
      RowOwesHeader(j, Len(units)) /\ OneHeader(j, Len(units)) => ShowsNames(j)

(***************************************************************************)
(* A repeated header in front of a row of a table is the header of that    *)
(* table ("chunk with table-2 rows should NOT have table-1 header",        *)
(* splitter_test.py).                                                      *)
(***************************************************************************)
HeaderIsOwn ==
  \A us \in {m \in Marked : Len(m) > 1}, j \in 1 .. Len(units) :
    InTable(j, IndexOf(us[2])) => InTable(j, IndexOf(us[1]))

-------------------------------------------------------------------------------
Spans == [i \in 1 .. Len(chunks) |-> <<chunks[i].start, chunks[i].end>>]

\* merge_units() keeps the promise of every splitter.
Cover == INSTANCE ChunkCover
           WITH length <- TextEnd, spans <- Spans, done <- (phase = "done")

CoversDocument == Cover!Spec

\* The merge loop and the loop that cuts an oversized unit come to an end.
Terminates == <>(phase = "done")
===============================================================================
