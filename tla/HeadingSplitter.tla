---------------------------- MODULE HeadingSplitter ----------------------------
(***************************************************************************)
(* chunker/heading_splitter.py and chunker/heading_hierarchy.py: a         *)
(* document is cut before every Markdown heading of its dominant level or  *)
(* above, each section carries the headings it stands under as its         *)
(* breadcrumb, a section that is too long is cut further by split_text(),  *)
(* and neighbours that are tiny are joined under the headings they share.  *)
(*                                                                         *)
(* A line is a heading, a fence or anything else; the profiler reads the   *)
(* lines one at a time, each with its newline.  A breadcrumb is a sequence *)
(* of <<level, title>>.  The chunks of split_text() are any that MergeUnits *)
(* allows.                                                                 *)
(***************************************************************************)
EXTENDS SplitText, SequencesExt

CONSTANTS
  LineShapes,   \* the lines a document can be made of
  MaxLines,     \* bound on the number of lines
  MaxLevel,     \* the deepest heading level
  Titles,       \* what headings can say
  TitleLen,     \* how long that is
  Sizes,        \* the chunk sizes, repaired by ensure_defaults()
  MinRepeats,   \* headings a level needs to be the backbone of a document
  MinTarget,    \* the smallest length up to which tiny chunks are joined
  HeaderLens    \* lengths of the table headers split_text() may repeat

Levels == 1 .. MaxLevel

Kinds == {"heading", "fence", "plain"}

Shape == [kind : Kinds, level : 0 .. MaxLevel, title : Titles \cup {""},
          len : Nat \ {0}]

ASSUME LinesAssumption ==
  /\ MaxLevel \in Nat \ {0}
  /\ "" \notin Titles
  /\ LineShapes \subseteq Shape
  /\ \A s \in LineShapes : s.kind = "heading" => s.level \in Levels /\ s.title \in Titles

ASSUME SizesAssumption ==
  /\ MaxLines \in Nat
  /\ TitleLen \in Nat
  /\ Sizes \subseteq Nat \ {0}
  /\ MinRepeats \in Nat
  /\ MinTarget \in Nat
  /\ HeaderLens \subseteq Nat

VARIABLES
  doc,     \* the lines read so far, each with its position
  size,    \* cfg.chunk_size
  pc,      \* where the splitter is
  primary, \* primary_level
  hier,    \* the HeadingHierarchy, at the end of the last section
  seed,    \* section_start: the hierarchy at the start of that section
  from,    \* the line that section starts with
  sec,     \* the line the next section starts with
  out,     \* the chunks before coalescing
  cur,     \* the chunk being coalesced
  nxt,     \* the next of out to be coalesced
  result   \* the chunks returned

vars == <<doc, size, pc, primary, hier, seed, from, sec, out, cur, nxt, result>>

sectionVars == <<primary, hier, seed, from, sec, out>>
mergeVars == <<cur, nxt, result>>

Line == [kind : Kinds, level : 0 .. MaxLevel, title : Titles \cup {""},
         start : Nat, end : Nat]

Piece == [start : Nat, end : Nat, extra : Nat]

Crumb == Seq(Levels \X Titles)

Chunk == [start : Nat, end : Nat, text : Seq(Piece), crumb : Crumb]

TextEnd == IF doc = <<>> THEN 0 ELSE doc[Len(doc)].end

At(s, pos) == [kind |-> s.kind, level |-> s.level, title |-> s.title,
               start |-> pos, end |-> pos + s.len]

\* Where line j starts; the line after the last one starts at the end.
StartOf(j) == IF j <= Len(doc) THEN doc[j].start ELSE TextEnd

-------------------------------------------------------------------------------
(***************************************************************************)
(* heading_hierarchy.py                                                    *)
(***************************************************************************)
NewHierarchy == [stack |-> [i \in Levels |-> ""], depth |-> 0]

Deepest(stack) == Max({0} \cup {i \in Levels : stack[i] # ""})

\* Fault: a heading clears the deeper levels with something that is no text.
ObserveWithNone(h, line) ==
  LET stack == [i \in Levels |-> IF i > line.level THEN "None"
                                 ELSE IF i = line.level THEN line.title
                                 ELSE h.stack[i]]
  IN  [stack |-> stack,
       depth |-> IF line.level > h.depth THEN line.level ELSE Deepest(stack)]

Observe(h, line) ==
  LET stack == [i \in Levels |-> IF i > line.level THEN ""
                                 ELSE IF i = line.level THEN line.title
                                 ELSE h.stack[i]]
  IN  [stack |-> stack,
       depth |-> IF line.level > h.depth THEN line.level ELSE Deepest(stack)]

\* breadcrumb_with_hashes()
Breadcrumb(h) ==
  LET lines[i \in 0 .. h.depth] ==
        IF i = 0 THEN <<>>
        ELSE IF h.stack[i] = "" THEN lines[i - 1]
        ELSE Append(lines[i - 1], <<i, h.stack[i]>>)
  IN  lines[h.depth]

\* The length of its text: "# " before each title, newlines between them.
CrumbLen(crumb) ==
  IF crumb = <<>> THEN 0
  ELSE FoldLeft(LAMBDA n, e : n + e[1] + 2 + TitleLen, 0, crumb) - 1

-------------------------------------------------------------------------------
(***************************************************************************)
(* Which lines are headings, for a scan that starts at line f outside of a *)
(* fence: every fence line before them has been closed.                    *)
(***************************************************************************)
IsFence(j) == doc[j].kind = "fence"

IsHeading(f, j) ==
  /\ doc[j].kind = "heading"
  /\ Cardinality({m \in f .. j - 1 : IsFence(m)}) % 2 = 0

CountAt(level) ==
  Cardinality({j \in DOMAIN doc : IsHeading(1, j) /\ doc[j].level = level})

\* DocProfile.dominant_heading_level()
DominantLevel ==
  LET present  == {l \in Levels : CountAt(l) > 0}
      backbone == {l \in Levels : CountAt(l) >= MinRepeats /\ CountAt(l) > 0}
  IN  IF backbone # {} THEN Min(backbone)
      ELSE Max({0} \cup present)

Opens(j, level) == IsHeading(1, j) /\ doc[j].level <= level

\* find_heading_boundaries(): the start of the document, and every heading above.
Boundaries(level) == {1} \cup {j \in DOMAIN doc : Opens(j, level)}

\* The section that starts at line f goes on to the next boundary, or the end.
SectionEnd(f, e) ==
  /\ f < e
  /\ e <= Len(doc) => Opens(e, primary)
  /\ \A j \in f + 1 .. e - 1 : ~ Opens(j, primary)

\* The hierarchy after the deeper headings of the lines f .. t up to pos.
ObserveDeeper(h, f, t, pos) ==
  LET after[j \in 0 .. t] ==
        IF j < f THEN h
        ELSE IF IsHeading(f, j) /\ doc[j].level > primary /\ doc[j].start <= pos
        THEN Observe(after[j - 1], doc[j])
        ELSE after[j - 1]
  IN  after[t]

(***************************************************************************)
(* breadcrumb_at_offset(section_breadcrumbs(..), ..): the headings of the  *)
(* section that start no later than pos have been observed.                *)
(***************************************************************************)
CrumbAt(pos) == Breadcrumb(ObserveDeeper(seed, from, sec - 1, pos))

-------------------------------------------------------------------------------
TextLen(text) ==
  LET sum[k \in 0 .. Len(text)] ==
        IF k = 0 THEN 0
        ELSE sum[k - 1] + text[k].extra + (text[k].end - text[k].start)
  IN  sum[Len(text)]

MakeChunk(s, e, x, crumb) ==
  [start |-> s, end |-> e, crumb |-> crumb,
   text |-> <<[start |-> s, end |-> e, extra |-> x]>>]

Init ==
  /\ doc = <<>>
  /\ size \in Sizes
  /\ pc = "profile"
  /\ primary = 0
  /\ hier = NewHierarchy
  /\ seed = NewHierarchy
  /\ from = 1
  /\ sec = 1
  /\ out = <<>>
  /\ cur = <<>>
  /\ nxt = 1
  /\ result = <<>>

\* profile_document() takes the next line.
ReadLine(s) ==
  /\ pc = "profile"
  /\ Len(doc) < MaxLines
  /\ doc' = Append(doc, At(s, TextEnd))
  /\ UNCHANGED <<size, pc, sectionVars, mergeVars>>

\* An empty text has no chunks.
ReturnNothing ==
  /\ pc = "profile"
  /\ doc = <<>>
  /\ pc' = "done"
  /\ UNCHANGED <<doc, size, sectionVars, mergeVars>>

NoStructure(level) == level = 0 \/ Cardinality(Boundaries(level)) <= 1

\* Fault: a document without structure is given back to the same splitter.
FallBackToItself ==
  /\ pc = "profile"
  /\ doc # <<>>
  /\ NoStructure(DominantLevel)
  /\ pc' = "profile"
  /\ UNCHANGED <<doc, size, sectionVars, mergeVars>>

\* Without a usable heading structure the whole text goes to split_text().
FallBack ==
  /\ pc = "profile"
  /\ doc # <<>>
  /\ NoStructure(DominantLevel)
  /\ pc' = "fallback"
  /\ sec' = Len(doc) + 1
  /\ UNCHANGED <<doc, size, primary, hier, seed, from, out, mergeVars>>

StartSections ==
  /\ pc = "profile"
  /\ doc # <<>>
  /\ primary' = DominantLevel
  /\ ~ NoStructure(primary')
  /\ pc' = "split"
  /\ UNCHANGED <<doc, size, hier, seed, from, sec, out, mergeVars>>

(***************************************************************************)
(* The loop over the boundaries: the heading of the section is observed,   *)
(* then its deeper ones, so that the hierarchy is right for the next       *)
(* section.  A section that fits is a chunk, a longer one is cut further.  *)
(***************************************************************************)
NextSection(e) ==
  /\ pc = "split"
  /\ sec <= Len(doc)
  /\ SectionEnd(sec, e)
  /\ from' = sec
  /\ sec' = e
  /\ seed' = IF Opens(sec, primary) THEN Observe(hier, doc[sec]) ELSE hier
  /\ hier' = ObserveDeeper(seed', sec, e - 1, TextEnd)
  /\ LET crumb == Breadcrumb(seed')
         lo    == StartOf(sec)
         hi    == StartOf(e)
     IN  IF CrumbLen(crumb) + 2 + (hi - lo) <= size
         THEN /\ out' = Append(out, MakeChunk(lo, hi, 0, crumb))
              /\ pc' = "split"
         ELSE /\ out' = out
              /\ pc' = "inner"
  /\ UNCHANGED <<doc, size, primary, mergeVars>>

(***************************************************************************)
(* The next chunk of split_text() on the lines from .. sec - 1.  A chunk   *)
(* that repeats a table header without an overlap did not fit into the one *)
(* before it (MergeUnits, RepeatedHeadersDoNotFit).                        *)
(***************************************************************************)
Headers(s, e) ==
  LET r == Reached(out, StartOf(from))
  IN  IF r = StartOf(from) THEN {0}
      ELSE {x \in HeaderLens \cup {0} :
              x > 0 /\ s = r => TextLen(out[Len(out)].text) + x + (e - s) > size}

InnerChunk(s, e, x) ==
  /\ out' = Append(out, MakeChunk(s, e, x, CrumbAt(s)))
  /\ pc' = IF e = StartOf(sec) THEN "split" ELSE "inner"
  /\ UNCHANGED <<doc, size, primary, hier, seed, from, sec, mergeVars>>

FallbackChunk(s, e, x) ==
  /\ out' = Append(out, MakeChunk(s, e, x, <<>>))
  /\ IF e = StartOf(sec)
     THEN pc' = "done" /\ result' = out'
     ELSE UNCHANGED <<pc, result>>
  /\ UNCHANGED <<doc, size, primary, hier, seed, from, sec, cur, nxt>>

-------------------------------------------------------------------------------
(***************************************************************************)
(* coalesce_tiny_chunks()                                                  *)
(***************************************************************************)
\* Fault: the target has no lower bound.
TargetHalf == size \div 2

Target == Max({size \div 2, MinTarget})

StartCoalescing ==
  /\ pc = "split"
  /\ sec > Len(doc)
  /\ IF Len(out) <= 1
     THEN pc' = "done" /\ result' = out /\ UNCHANGED <<cur, nxt>>
     ELSE pc' = "coalesce" /\ cur' = out[1] /\ nxt' = 2 /\ UNCHANGED result
  /\ UNCHANGED <<doc, size, sectionVars>>

\* Fault: the joined chunk keeps the breadcrumb of the first one.
FirstCrumb(a, b) == IF a = <<>> \/ b = <<>> \/ a[1] # b[1] THEN <<>> ELSE a

\* common_heading_prefix()
SharedCrumb(a, b) ==
  SubSeq(a, 1, Max({n \in 0 .. Min({Len(a), Len(b)}) :
                      \A i \in 1 .. n : a[i] = b[i]}))

\* Fault: chunks that overlap are joined as well.
JoinableOverlap(c, d) ==
  /\ SharedCrumb(c.crumb, d.crumb) # <<>>
  /\ TextLen(c.text) < Target
  /\ TextLen(c.text) + TextLen(d.text) <= size

Joinable(c, d) ==
  /\ SharedCrumb(c.crumb, d.crumb) # <<>>
  /\ c.end = d.start
  /\ TextLen(c.text) < Target
  /\ TextLen(c.text) + TextLen(d.text) <= size

\* Fault: the joined chunk keeps the end of the first one.
JoinedShort(c, d) ==
  [start |-> c.start, end |-> c.end, text |-> c.text \o d.text,
   crumb |-> SharedCrumb(c.crumb, d.crumb)]

Joined(c, d) ==
  [start |-> c.start, end |-> d.end, text |-> c.text \o d.text,
   crumb |-> SharedCrumb(c.crumb, d.crumb)]

Coalesce ==
  /\ pc = "coalesce"
  /\ nxt <= Len(out)
  /\ LET d == out[nxt]
     IN  IF Joinable(cur, d)
         THEN cur' = Joined(cur, d) /\ UNCHANGED result
         ELSE cur' = d /\ result' = Append(result, cur)
  /\ nxt' = nxt + 1
  /\ UNCHANGED <<doc, size, pc, sectionVars>>

\* The numbering that follows writes an attribute nobody reads (chunk.Seq).
FinishCoalescing ==
  /\ pc = "coalesce"
  /\ nxt > Len(out)
  /\ result' = Append(result, cur)
  /\ pc' = "done"
  /\ UNCHANGED <<doc, size, sectionVars, cur, nxt>>

SplitText ==
  /\ pc \in {"inner", "fallback"}
  /\ \E s \in InnerStarts(out, StartOf(from)),
        e \in InnerEnds(out, StartOf(from), StartOf(sec)) :
       \E x \in Headers(s, e) :
         IF pc = "inner" THEN InnerChunk(s, e, x) ELSE FallbackChunk(s, e, x)

ReadNext == \E s \in LineShapes : ReadLine(s)

SplitNext ==
  \/ ReturnNothing
  \/ FallBack
  \/ StartSections
  \/ \E e \in 1 .. Len(doc) + 1 : NextSection(e)
  \/ SplitText
  \/ StartCoalescing
  \/ Coalesce
  \/ FinishCoalescing

Next == ReadNext \/ SplitNext

Spec == Init /\ [][Next]_vars

\* The loops are plain Python loops: none of them stops by itself.
FairSpec == Spec /\ WF_vars(Next)

-------------------------------------------------------------------------------
\* The variables have their types.
TypeOK ==
  /\ doc \in Seq(Line)
  /\ size \in Nat \ {0}
  /\ pc \in {"profile", "fallback", "split", "inner", "coalesce", "done"}
  /\ primary \in 0 .. MaxLevel
  /\ hier \in [stack : [Levels -> Titles \cup {""}], depth : 0 .. MaxLevel]
  /\ seed \in [stack : [Levels -> Titles \cup {""}], depth : 0 .. MaxLevel]
  /\ from \in 1 .. Len(doc) + 1
  /\ sec \in 1 .. Len(doc) + 1
  /\ out \in Seq(Chunk)
  /\ cur \in Chunk \cup {<<>>}
  /\ nxt \in 1 .. Len(out) + 1
  /\ result \in Seq(Chunk)

(***************************************************************************)
(* The headings a reader of the document sees above position pos: every    *)
(* heading up to there that no later one of its level or above has ended.  *)
(***************************************************************************)
FencesBefore(j) == {m \in 1 .. j - 1 : doc[m].kind = "fence"}

PathAt(pos) ==
  LET seen == {j \in DOMAIN doc : /\ doc[j].kind = "heading"
                                  /\ doc[j].start <= pos
                                  /\ Cardinality(FencesBefore(j)) % 2 = 0}
      open == {j \in seen : \A m \in seen : m > j => doc[m].level > doc[j].level}
  IN  {<<doc[j].level, doc[j].title>> : j \in open}

Upto(level, path) == {e \in path : e[1] <= level}

LeadsTo(crumb, path) ==
  /\ \A i \in 1 .. Len(crumb) - 1 : crumb[i][1] < crumb[i + 1][1]
  /\ crumb # <<>> => ToSet(crumb) = Upto(crumb[Len(crumb)][1], path)

(***************************************************************************)
(* The breadcrumb of a chunk is true: where the chunk starts, these        *)
(* headings are open, with none left out between them, and all of them are *)
(* given unless the chunk was joined or opens the document; those of the   *)
(* dominant level and above stay open up to its end.                       *)
(***************************************************************************)
CrumbsTrue ==
  \A i \in DOMAIN result :
    LET c     == result[i]
        major == Upto(primary, ToSet(c.crumb))
    IN  primary > 0 =>
        /\ LeadsTo(c.crumb, PathAt(c.start))
        /\ Len(c.text) = 1 /\ c.start > 0 => ToSet(c.crumb) = PathAt(c.start)
        /\ \A j \in DOMAIN doc :
             c.start <= doc[j].start /\ doc[j].start < c.end =>
               major \subseteq PathAt(doc[j].start)

(***************************************************************************)
(* Every chunk shows one stretch of the document without a hole or a       *)
(* repetition, behind at most one repeated table header: joining never     *)
(* buries such a header in the middle of a text.                           *)
(***************************************************************************)
ChunksAreStretches ==
  \A i \in DOMAIN result :
    LET c == result[i]
    IN  /\ c.start = c.text[1].start
        /\ c.end = c.text[Len(c.text)].end
        /\ \A k \in 1 .. Len(c.text) - 1 :
             /\ c.text[k + 1].start = c.text[k].end
             /\ c.text[k + 1].extra = 0

(***************************************************************************)
(* One pass over the chunks is enough: in what is returned, neighbours     *)
(* that touch, have a heading in common and fit into one chunk are only    *)
(* left apart when the first one is no tiny chunk, whatever has been       *)
(* joined to either of them since they were looked at.                     *)
(***************************************************************************)
NothingLeftToJoin ==
  \A i \in 1 .. Len(result) - 1 :
    LET c == result[i]
        d == result[i + 1]
    IN  /\ c.crumb # <<>> /\ d.crumb # <<>> /\ c.crumb[1] = d.crumb[1]
        /\ c.end = d.start
        /\ TextLen(c.text) + TextLen(d.text) <= size
        => TextLen(c.text) >= MinTarget /\ TextLen(c.text) >= size \div 2

\* The chunks returned cover the document, in order and without a gap.
Spans == [i \in DOMAIN result |-> <<result[i].start, result[i].end>>]

Cover == INSTANCE ChunkCover
           WITH length <- TextEnd, spans <- Spans, done <- (pc = "done")

CoversDocument == Cover!Spec

\* The scan, the loop over the sections and the coalescing come to an end.
Terminates == <>(pc = "done")
===============================================================================
