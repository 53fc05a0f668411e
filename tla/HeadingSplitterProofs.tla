------------------------- MODULE HeadingSplitterProofs -------------------------
(***************************************************************************)
(* For every document, whatever its headings are, whatever split_text()    *)
(* makes of the long sections and whichever chunks are joined:             *)
(*                                                                         *)
(*   - the heading splitter implements ChunkCover.  The argument is made   *)
(*     for three sequences one after the other: the lines follow each      *)
(*     other, the chunks before coalescing follow each other up to the     *)
(*     section in hand, and the chunks returned, the one being joined and  *)
(*     the rest of them do (CoverInv);                                     *)
(*   - the variables have their types.  The recursive functions of the     *)
(*     model are first shown to be what their equations say, by induction  *)
(*     on sets of numbers (RecursionFound);                                *)
(*   - every chunk shows one stretch of the document and no join makes it  *)
(*     too long (TextInv);                                                 *)
(*   - every breadcrumb is true: before each section the hierarchy holds   *)
(*     the headings that are open there, a walk through the deeper ones    *)
(*     keeps that up, and joining keeps a prefix both chunks share         *)
(*     (CrumbInv).                                                         *)
(***************************************************************************)
EXTENDS HeadingSplitter, SequenceTheorems, FiniteSetTheorems, WellFoundedInduction,
        TLAPS

\* What Cover!Follows says of two chunks.
After(c, d) == c.start <= d.start /\ d.start <= c.end /\ c.end <= d.end

\* A sequence, whatever its members are.
IsList(o) == \E S : o \in Seq(S)

\* Where a sequence of chunks ends.
Reach(o) == IF o = <<>> THEN 0 ELSE o[Len(o)].end

\* Chunks with positions in the text, from its start on and without a gap.
Placed(o) ==
  /\ IsList(o)
  /\ \A i \in 1 .. Len(o) : /\ o[i].start \in Nat
                            /\ o[i].end \in Nat
                            /\ o[i].end <= TextEnd
  /\ o # <<>> => o[1].start = 0
  /\ \A i \in 1 .. Len(o) - 1 : After(o[i], o[i + 1])

\* The lines read so far lie one behind the other, from the start on.
LinesOK ==
  /\ doc \in Seq(Line)
  /\ TextEnd \in Nat
  /\ doc # <<>> => doc[1].start = 0
  /\ \A j \in DOMAIN doc : doc[j].start < TextEnd
  /\ \A i, j \in DOMAIN doc : i < j => doc[i].start < doc[j].start

\* How far the chunks have got at each place of the splitter.
PhaseOK ==
  /\ pc = "profile" => from = 1 /\ sec = 1 /\ out = <<>>
  /\ pc = "split" => Reach(out) = StartOf(sec)
  /\ pc \in {"inner", "fallback"} =>
       /\ from < sec
       /\ StartOf(from) <= Reach(out) /\ Reach(out) < StartOf(sec)
  /\ pc = "fallback" => sec = Len(doc) + 1
  /\ pc \in {"profile", "split", "inner", "fallback"} => result = <<>>

\* The chunk being joined ends where the last one it has taken in ends.
JoinOK ==
  pc = "coalesce" =>
    /\ Reach(out) = TextEnd
    /\ nxt \in 2 .. Len(out) + 1
    /\ cur.start \in Nat
    /\ cur.start <= out[nxt - 1].start
    /\ cur.end = out[nxt - 1].end
    /\ result = <<>> => cur.start = 0
    /\ result # <<>> => After(result[Len(result)], cur)

\* All of this together: the invariant behind CoversDocument.
CoverInv ==
  /\ LinesOK
  /\ sec \in 1 .. Len(doc) + 1
  /\ from \in 1 .. Len(doc) + 1
  /\ Placed(out)
  /\ Placed(result)
  /\ PhaseOK
  /\ JoinOK

-------------------------------------------------------------------------------
\* A function on 1 .. n is a sequence of length n.
LEMMA LengthOfList ==
  ASSUME NEW T, NEW n \in Nat, NEW s \in [1 .. n -> T]
  PROVE  Len(s) = n /\ (s = <<>> <=> n = 0)
<1>1. s \in Seq(T) /\ Len(s) = n
  OBVIOUS
<1> QED
  BY <1>1

\* Appending to a sequence of which only that is known.
LEMMA AppendToList ==
  ASSUME NEW o, IsList(o), NEW c
  PROVE  LET p == Append(o, c)
         IN  /\ IsList(p)
             /\ Len(o) \in Nat /\ Len(p) = Len(o) + 1
             /\ p # <<>>
             /\ p[Len(o) + 1] = c
             /\ \A i \in 1 .. Len(o) : p[i] = o[i]
<1>1. PICK S : o \in Seq(S)
  BY DEF IsList
<1> DEFINE T == S \cup {c}
           p == Append(o, c)
<1>2. o \in Seq(T) /\ c \in T
  BY <1>1
<1> HIDE DEF T
<1>3. p \in Seq(T) /\ Len(o) \in Nat /\ Len(p) = Len(o) + 1
  BY <1>2
<1>4. p[Len(o) + 1] = c /\ \A i \in 1 .. Len(o) : p[i] = o[i]
  BY <1>2
<1>5. p # <<>>
  BY <1>3
<1> HIDE DEF p
<1>6. IsList(p)
  BY <1>3 DEF IsList
<1> QED
  BY <1>3, <1>4, <1>5, <1>6 DEF p

\* One more chunk that follows the last one.
LEMMA AppendPlaced ==
  ASSUME NEW o, Placed(o), NEW c,
         c.start \in Nat, c.end \in Nat, c.end <= TextEnd,
         o = <<>> => c.start = 0,
         o # <<>> => After(o[Len(o)], c)
  PROVE  Placed(Append(o, c)) /\ Reach(Append(o, c)) = c.end
<1> DEFINE p == Append(o, c)
<1>1. /\ IsList(p) /\ Len(o) \in Nat /\ Len(p) = Len(o) + 1 /\ p # <<>>
      /\ p[Len(o) + 1] = c
      /\ \A i \in 1 .. Len(o) : p[i] = o[i]
  BY AppendToList DEF Placed
<1>2. o = <<>> <=> Len(o) = 0
  <2>1. PICK S : o \in Seq(S)
    BY DEF Placed, IsList
  <2> QED
    BY <2>1
<1> HIDE DEF p
<1>3. \A i \in 1 .. Len(p) : /\ p[i].start \in Nat
                             /\ p[i].end \in Nat
                             /\ p[i].end <= TextEnd
  <2> SUFFICES ASSUME NEW i \in 1 .. Len(p)
               PROVE  /\ p[i].start \in Nat
                      /\ p[i].end \in Nat
                      /\ p[i].end <= TextEnd
    OBVIOUS
  <2>1. CASE i = Len(o) + 1
    BY <1>1, <2>1
  <2>2. CASE i \in 1 .. Len(o)
    BY <1>1, <2>2 DEF Placed
  <2> QED
    BY <1>1, <2>1, <2>2
<1>4. p[1].start = 0
  <2>1. CASE Len(o) = 0
    BY <1>1, <1>2, <2>1
  <2>2. CASE Len(o) > 0
    <3>1. 1 \in 1 .. Len(o) /\ o # <<>>
      BY <1>1, <1>2, <2>2
    <3> QED
      BY <1>1, <3>1 DEF Placed
  <2> QED
    BY <1>1, <2>1, <2>2
<1>5. \A i \in 1 .. Len(p) - 1 : After(p[i], p[i + 1])
  <2> SUFFICES ASSUME NEW i \in 1 .. Len(o) PROVE After(p[i], p[i + 1])
    BY <1>1
  <2>1. CASE i = Len(o)
    <3>1. o # <<>> /\ p[i] = o[Len(o)] /\ p[i + 1] = c
      BY <1>1, <1>2, <2>1
    <3> QED
      BY <3>1
  <2>2. CASE i \in 1 .. Len(o) - 1
    <3>1. p[i] = o[i] /\ p[i + 1] = o[i + 1]
      <4>1. i \in 1 .. Len(o) /\ i + 1 \in 1 .. Len(o)
        BY <1>1, <2>2
      <4> QED
        BY <1>1, <4>1
    <3> QED
      BY <2>2, <3>1 DEF Placed
  <2> QED
    BY <1>1, <2>1, <2>2
<1>6. Reach(p) = c.end
  BY <1>1 DEF Reach
<1> QED
  BY <1>1, <1>3, <1>4, <1>5, <1>6 DEF Placed, p

\* The last of a placed sequence, and where it ends.
LEMMA LastPlaced ==
  ASSUME NEW o, Placed(o), TextEnd \in Nat
  PROVE  /\ Len(o) \in Nat
         /\ o = <<>> <=> Len(o) = 0
         /\ Reach(o) \in Nat /\ Reach(o) <= TextEnd
         /\ o # <<>> => /\ o[Len(o)].end = Reach(o)
                        /\ o[Len(o)].start \in Nat
<1>1. PICK S : o \in Seq(S)
  BY DEF Placed, IsList
<1>2. Len(o) \in Nat /\ (o = <<>> <=> Len(o) = 0)
  BY <1>1
<1>3. o # <<>> => Len(o) \in 1 .. Len(o)
  BY <1>2
<1> QED
  BY <1>2, <1>3 DEF Placed, Reach

\* The last chunk does not end before it starts.
LEMMA LastGoesOn ==
  ASSUME NEW o, Placed(o), TextEnd \in Nat, o # <<>>
  PROVE  o[Len(o)].start <= o[Len(o)].end
<1> DEFINE n == Len(o)
           last == o[Len(o)]
<1>1. n \in Nat /\ n # 0 /\ last.start \in Nat /\ last.end \in Nat
  BY LastPlaced
<1>2. CASE n = 1
  BY <1>1, <1>2 DEF Placed
<1>3. CASE n # 1
  <2> HIDE DEF n
  <2>1. n - 1 \in 1 .. n - 1 /\ n - 1 \in 1 .. n /\ (n - 1) + 1 = n
    BY <1>1, <1>3
  <2>2. After(o[n - 1], last) /\ o[n - 1].end \in Nat
    BY <2>1 DEF Placed, n
  <2> QED
    BY <1>1, <2>2 DEF After
<1> QED
  BY <1>2, <1>3

\* The empty sequence is placed.
LEMMA EmptyPlaced == Placed(<<>>) /\ Reach(<<>>) = 0
<1>1. IsList(<<>>)
  <2>1. <<>> \in Seq({})
    OBVIOUS
  <2> QED
    BY <2>1 DEF IsList
<1>2. Len(<<>>) = 0
  OBVIOUS
<1>3. 1 .. 0 = {} /\ 1 .. 0 - 1 = {}
  OBVIOUS
<1> QED
  BY <1>1, <1>2, <1>3 DEF Placed, Reach

\* Sections start in the order of their lines, and end within the text.
LEMMA StartsGrow ==
  ASSUME LinesOK, NEW i \in 1 .. Len(doc) + 1, NEW j \in 1 .. Len(doc) + 1
  PROVE  /\ StartOf(i) \in Nat /\ StartOf(i) <= TextEnd
         /\ i < j => StartOf(i) < StartOf(j)
         /\ StartOf(1) = 0
         /\ StartOf(Len(doc) + 1) = TextEnd
<1>1. doc \in Seq(Line) /\ Len(doc) \in Nat /\ DOMAIN doc = 1 .. Len(doc)
  BY DEF LinesOK
<1>2. \A k \in 1 .. Len(doc) : doc[k].start \in Nat /\ doc[k].start < TextEnd
  <2>1. \A k \in 1 .. Len(doc) : doc[k] \in Line
    BY <1>1
  <2> QED
    BY <1>1, <2>1 DEF LinesOK, Line
<1>3. \A k, m \in 1 .. Len(doc) : k < m => doc[k].start < doc[m].start
  BY <1>1 DEF LinesOK
<1>4. TextEnd \in Nat /\ (doc = <<>> => TextEnd = 0) /\ (doc # <<>> => doc[1].start = 0)
  BY DEF LinesOK, TextEnd
<1>5. doc = <<>> <=> Len(doc) = 0
  BY <1>1
<1>6. \A k \in 1 .. Len(doc) + 1 :
        \/ k \in 1 .. Len(doc) /\ StartOf(k) = doc[k].start
        \/ k = Len(doc) + 1 /\ StartOf(k) = TextEnd
  BY <1>1 DEF StartOf
<1>7. StartOf(1) = 0
  BY <1>1, <1>4, <1>5, <1>6
<1>8. StartOf(Len(doc) + 1) = TextEnd
  BY <1>1 DEF StartOf
<1>9. StartOf(i) \in Nat /\ StartOf(i) <= TextEnd
  BY <1>2, <1>4, <1>6
<1>10. i < j => StartOf(i) < StartOf(j)
  BY <1>1, <1>2, <1>3, <1>4, <1>6
<1> QED
  BY <1>7, <1>8, <1>9, <1>10

\* After the reading the lines stay what they are.
LEMMA SameLines ==
  ASSUME doc' = doc
  PROVE  /\ TextEnd' = TextEnd
         /\ LinesOK => LinesOK'
         /\ \A j : StartOf(j)' = StartOf(j)
         /\ Placed(out') => Placed(out)'
         /\ Placed(result') => Placed(result)'
<1>1. TextEnd' = TextEnd
  BY DEF TextEnd
<1> QED
  BY <1>1 DEF LinesOK, StartOf, Placed, IsList, After

-------------------------------------------------------------------------------
(***************************************************************************)
(* The chunks of split_text() on a section, or on the whole document.      *)
(***************************************************************************)
LEMMA InnerPlaced ==
  ASSUME CoverInv, pc \in {"inner", "fallback"},
         NEW s \in InnerStarts(out, StartOf(from)),
         NEW e \in InnerEnds(out, StartOf(from), StartOf(sec)),
         NEW x, NEW crumb
  PROVE  LET o == Append(out, MakeChunk(s, e, x, crumb))
         IN  /\ Placed(o)
             /\ Reach(o) = e
             /\ e \in Nat
             /\ StartOf(from) <= e /\ e <= StartOf(sec)
<1> DEFINE c == MakeChunk(s, e, x, crumb)
           lo == StartOf(from)
           hi == StartOf(sec)
           r == Reached(out, lo)
           last == out[Len(out)]
<1>1. /\ lo \in Nat /\ hi \in Nat /\ hi <= TextEnd /\ TextEnd \in Nat
      /\ lo <= Reach(out) /\ Reach(out) < hi
  BY StartsGrow DEF CoverInv, LinesOK, PhaseOK
<1>2. /\ Reach(out) \in Nat /\ Placed(out)
      /\ out # <<>> => last.end = Reach(out) /\ last.start \in Nat
  BY <1>1, LastPlaced DEF CoverInv
<1>3. out = <<>> => Reach(out) = 0
  BY DEF Reach
<1>4. r = Reach(out)
  BY <1>1, <1>2, <1>3 DEF Reached
<1>5. e \in Nat /\ r < e /\ e <= hi
  BY <1>1, CutsAssumption DEF InnerEnds
<1>6. /\ s \in Nat /\ s <= r
      /\ out = <<>> => s = 0
      /\ out # <<>> => last.start <= s
  <2>1. CASE r = lo
    <3>1. s = lo
      BY <2>1 DEF InnerStarts
    <3>2. out # <<>> => last.start <= r
      BY <1>1, <1>2, <1>4, LastGoesOn
    <3> QED
      BY <1>1, <1>2, <1>3, <1>4, <2>1, <3>1, <3>2
  <2>2. CASE r # lo
    <3>1. s \in Cuts \cup {r} /\ last.start <= s /\ s <= r
      BY <2>2 DEF InnerStarts
    <3>2. out # <<>>
      BY <1>1, <1>3, <1>4, <2>2
    <3> QED
      BY <1>2, <1>4, <3>1, <3>2, CutsAssumption
  <2> QED
    BY <2>1, <2>2
<1>7. c.start = s /\ c.end = e
  BY DEF MakeChunk
<1> HIDE DEF c, lo, hi, r
<1>8. out # <<>> => After(last, c)
  BY <1>2, <1>4, <1>5, <1>6, <1>7 DEF After
<1>9. c.end <= TextEnd
  BY <1>1, <1>5, <1>7
<1>10. Placed(Append(out, c)) /\ Reach(Append(out, c)) = c.end
  BY <1>2, <1>5, <1>6, <1>7, <1>8, <1>9, AppendPlaced
<1>11. lo <= e
  BY <1>1, <1>2, <1>4, <1>5
<1> QED
  BY <1>5, <1>7, <1>10, <1>11 DEF c, lo, hi

-------------------------------------------------------------------------------
\* Nothing has been read.
LEMMA InitCoverInv == Init => CoverInv
<1> SUFFICES ASSUME Init PROVE CoverInv
  OBVIOUS
<1>1. doc = <<>> /\ Len(doc) = 0 /\ DOMAIN doc = {} /\ TextEnd = 0
  BY DEF Init, TextEnd
<1>2. LinesOK
  BY <1>1 DEF LinesOK
<1>3. sec \in 1 .. Len(doc) + 1 /\ from \in 1 .. Len(doc) + 1
  BY <1>1 DEF Init
<1>4. Placed(out) /\ Placed(result)
  BY EmptyPlaced DEF Init
<1>5. PhaseOK /\ JoinOK
  BY DEF Init, PhaseOK, JoinOK
<1> QED
  BY <1>2, <1>3, <1>4, <1>5 DEF CoverInv

\* A line is read behind the others.
LEMMA ReadLineKeeps ==
  ASSUME CoverInv, NEW s \in LineShapes, ReadLine(s)
  PROVE  CoverInv' /\ TextEnd <= TextEnd'
<1> DEFINE line == At(s, TextEnd)
<1>1. TextEnd \in Nat /\ doc \in Seq(Line) /\ Len(doc) \in Nat /\ DOMAIN doc = 1 .. Len(doc)
  BY DEF CoverInv, LinesOK
<1>2. /\ s.kind \in Kinds /\ s.level \in 0 .. MaxLevel /\ s.title \in Titles \cup {""}
      /\ s.len \in Nat /\ s.len > 0
  <2>1. s \in Shape
    BY LinesAssumption
  <2>2. s.len \in Nat \ {0}
    BY <2>1 DEF Shape
  <2>3. s.len > 0
    BY <2>2
  <2> QED
    BY <2>1, <2>2, <2>3 DEF Shape
<1>3. line \in Line /\ line.start = TextEnd /\ line.end = TextEnd + s.len
  <2>1. line = [kind |-> s.kind, level |-> s.level, title |-> s.title,
                start |-> TextEnd, end |-> TextEnd + s.len]
    BY DEF At
  <2>2. TextEnd + s.len \in Nat
    <3>1. s.len \in Nat /\ TextEnd \in Nat
      BY <1>1, <1>2
    <3> QED
      BY <3>1
  <2> HIDE DEF line
  <2>3. line.start = TextEnd /\ line.end = TextEnd + s.len
    BY <2>1
  <2>4. line \in Line
    BY <1>1, <1>2, <2>1, <2>2 DEF Line
  <2> QED
    BY <2>3, <2>4
<1> HIDE DEF line
<1>4. /\ doc' = Append(doc, line)
      /\ pc = "profile"
      /\ UNCHANGED <<pc, from, sec, out, result>>
  BY DEF ReadLine, line, sectionVars, mergeVars
<1>5. /\ doc' \in Seq(Line) /\ doc' # <<>> /\ Len(doc') = Len(doc) + 1
      /\ DOMAIN doc' = 1 .. Len(doc) + 1
      /\ doc'[Len(doc) + 1] = line
      /\ \A j \in 1 .. Len(doc) : doc'[j] = doc[j]
  BY <1>1, <1>3, <1>4
<1>6. TextEnd' = TextEnd + s.len
  BY <1>3, <1>5 DEF TextEnd
<1>7. TextEnd' \in Nat /\ TextEnd < TextEnd'
  <2>1. s.len \in Nat /\ s.len > 0
    BY <1>2
  <2> QED
    BY <1>1, <1>6, <2>1
<1>8. \A j \in 1 .. Len(doc) : doc[j].start \in Nat /\ doc[j].start < TextEnd
  <2>1. \A j \in 1 .. Len(doc) : doc[j] \in Line
    BY <1>1
  <2> QED
    BY <1>1, <2>1 DEF CoverInv, LinesOK, Line
<1>9. doc'[1].start = 0
  <2>1. CASE doc = <<>>
    BY <1>3, <1>5, <2>1 DEF TextEnd
  <2>2. CASE doc # <<>>
    <3>1. 1 \in 1 .. Len(doc)
      BY <1>1, <2>2
    <3> QED
      BY <1>5, <2>2, <3>1 DEF CoverInv, LinesOK
  <2> QED
    BY <2>1, <2>2
<1>10. \A j \in DOMAIN doc' : doc'[j].start < TextEnd'
  <2> SUFFICES ASSUME NEW j \in 1 .. Len(doc) + 1 PROVE doc'[j].start < TextEnd'
    BY <1>5
  <2>1. CASE j = Len(doc) + 1
    BY <1>3, <1>5, <1>7, <2>1
  <2>2. CASE j \in 1 .. Len(doc)
    BY <1>1, <1>5, <1>7, <1>8, <2>2
  <2> QED
    BY <1>1, <2>1, <2>2
<1>11. \A i, j \in DOMAIN doc' : i < j => doc'[i].start < doc'[j].start
  <2> SUFFICES ASSUME NEW i \in 1 .. Len(doc) + 1, NEW j \in 1 .. Len(doc) + 1, i < j
               PROVE  doc'[i].start < doc'[j].start
    BY <1>5
  <2>1. i \in 1 .. Len(doc)
    BY <1>1
  <2>2. CASE j = Len(doc) + 1
    BY <1>3, <1>5, <1>8, <2>1, <2>2
  <2>3. CASE j \in 1 .. Len(doc)
    <3>1. doc[i].start < doc[j].start
      BY <1>1, <2>1, <2>3 DEF CoverInv, LinesOK
    <3> QED
      BY <1>5, <2>1, <2>3, <3>1
  <2> QED
    BY <1>1, <2>2, <2>3
<1>12. LinesOK'
  BY <1>5, <1>7, <1>9, <1>10, <1>11 DEF LinesOK
<1>13. Placed(out)' /\ Placed(result)'
  <2>1. out' = <<>> /\ result' = <<>>
    BY <1>4 DEF CoverInv, PhaseOK
  <2>2. (Placed(<<>>))'
    BY EmptyPlaced, PTL
  <2> QED
    BY <2>1, <2>2 DEF Placed
<1>14. sec' \in 1 .. Len(doc') + 1 /\ from' \in 1 .. Len(doc') + 1
  BY <1>1, <1>4, <1>5 DEF CoverInv
<1>15. PhaseOK' /\ JoinOK'
  BY <1>4 DEF CoverInv, PhaseOK, JoinOK
<1> QED
  BY <1>1, <1>7, <1>12, <1>13, <1>14, <1>15 DEF CoverInv

\* The ways out of the reading.
LEMMA StartKeeps ==
  ASSUME CoverInv, ReturnNothing \/ FallBack \/ StartSections
  PROVE  CoverInv'
<1>1. /\ pc = "profile" /\ UNCHANGED <<doc, from, out, result>>
      /\ from = 1 /\ sec = 1 /\ out = <<>> /\ result = <<>>
  BY DEF ReturnNothing, FallBack, StartSections, sectionVars, mergeVars, CoverInv, PhaseOK
<1>2. LinesOK' /\ TextEnd' = TextEnd /\ (\A j : StartOf(j)' = StartOf(j))
  BY <1>1, SameLines DEF CoverInv
<1>3. Placed(out)' /\ Placed(result)'
  BY <1>1, SameLines DEF CoverInv
<1>4. Len(doc) \in Nat /\ 1 \in 1 .. Len(doc) + 1 /\ Len(doc) + 1 \in 1 .. Len(doc) + 1
  BY DEF CoverInv, LinesOK
<1>5. StartOf(1) = 0 /\ StartOf(Len(doc) + 1) = TextEnd /\ TextEnd \in Nat
  BY <1>4, StartsGrow DEF CoverInv, LinesOK
<1>6. JoinOK'
  BY <1>1 DEF ReturnNothing, FallBack, StartSections, JoinOK
<1>7. Reach(out)' = 0
  BY <1>1 DEF Reach
<1>8. CASE ReturnNothing
  <2>1. sec' = sec /\ pc' = "done"
    BY <1>8 DEF ReturnNothing, sectionVars
  <2> QED
    BY <1>1, <1>2, <1>3, <1>6, <2>1 DEF CoverInv, PhaseOK
<1>9. CASE FallBack
  <2>1. sec' = Len(doc) + 1 /\ pc' = "fallback" /\ doc # <<>>
    BY <1>9 DEF FallBack
  <2>2. 1 < Len(doc) + 1
    BY <1>4, <2>1 DEF CoverInv, LinesOK
  <2>3. StartOf(1) < StartOf(Len(doc) + 1)
    BY <1>4, <2>2, StartsGrow DEF CoverInv
  <2>4. PhaseOK'
    BY <1>1, <1>2, <1>5, <1>7, <2>1, <2>2, <2>3 DEF PhaseOK
  <2> QED
    BY <1>1, <1>2, <1>3, <1>4, <1>6, <2>1, <2>4 DEF CoverInv
<1>10. CASE StartSections
  <2>1. sec' = sec /\ pc' = "split"
    BY <1>10 DEF StartSections
  <2>2. PhaseOK'
    BY <1>1, <1>2, <1>5, <1>7, <2>1 DEF PhaseOK
  <2> QED
    BY <1>1, <1>2, <1>3, <1>6, <2>1, <2>2 DEF CoverInv
<1> QED
  BY <1>8, <1>9, <1>10

\* A section is a chunk that follows the others, or is left to split_text().
LEMMA NextSectionKeeps ==
  ASSUME CoverInv, NEW e \in 1 .. Len(doc) + 1, NextSection(e)
  PROVE  CoverInv'
<1>1. /\ pc = "split" /\ sec <= Len(doc) /\ sec < e
      /\ from' = sec /\ sec' = e
      /\ UNCHANGED <<doc, result>>
  BY DEF NextSection, SectionEnd, mergeVars
<1>2. LinesOK' /\ TextEnd' = TextEnd /\ (\A j : StartOf(j)' = StartOf(j))
  BY <1>1, SameLines DEF CoverInv
<1>3. /\ StartOf(sec) \in Nat /\ StartOf(e) \in Nat /\ StartOf(sec) < StartOf(e)
      /\ StartOf(e) <= TextEnd /\ TextEnd \in Nat
      /\ Reach(out) = StartOf(sec) /\ result = <<>> /\ Placed(out)
  BY <1>1, StartsGrow DEF CoverInv, LinesOK, PhaseOK
<1>4. Placed(result)'
  BY <1>1, SameLines DEF CoverInv
<1>5. sec' \in 1 .. Len(doc') + 1 /\ from' \in 1 .. Len(doc') + 1
  BY <1>1 DEF CoverInv
<1>6. \/ /\ \E crumb : out' = Append(out, MakeChunk(StartOf(sec), StartOf(e), 0, crumb))
         /\ pc' = "split"
      \/ out' = out /\ pc' = "inner"
  BY DEF NextSection
<1>7. JoinOK'
  BY <1>6 DEF JoinOK
<1>8. CASE out' = out /\ pc' = "inner"
  <2>1. Placed(out)'
    BY <1>1, <1>3, <1>8, SameLines
  <2>2. PhaseOK'
    <3>1. Reach(out)' = Reach(out)
      BY <1>8 DEF Reach
    <3> QED
      BY <1>1, <1>2, <1>3, <1>8, <3>1 DEF PhaseOK
  <2> QED
    BY <1>2, <1>4, <1>5, <1>7, <2>1, <2>2 DEF CoverInv
<1>9. CASE /\ \E crumb : out' = Append(out, MakeChunk(StartOf(sec), StartOf(e), 0, crumb))
           /\ pc' = "split"
  <2>1. PICK crumb : out' = Append(out, MakeChunk(StartOf(sec), StartOf(e), 0, crumb))
    BY <1>9
  <2> DEFINE c == MakeChunk(StartOf(sec), StartOf(e), 0, crumb)
  <2>2. c.start = StartOf(sec) /\ c.end = StartOf(e)
    BY DEF MakeChunk
  <2>3. out = <<>> => Reach(out) = 0
    BY DEF Reach
  <2>4. out # <<>> => After(out[Len(out)], c)
    <3>1. SUFFICES ASSUME out # <<>> PROVE After(out[Len(out)], c)
      OBVIOUS
    <3>2. /\ out[Len(out)].end = StartOf(sec) /\ out[Len(out)].start \in Nat
          /\ out[Len(out)].start <= out[Len(out)].end
      BY <1>3, <3>1, LastPlaced, LastGoesOn
    <3> QED
      BY <1>3, <2>2, <3>2 DEF After
  <2>5. out' = Append(out, c)
    BY <2>1
  <2> HIDE DEF c
  <2>6. Placed(out') /\ Reach(out') = StartOf(e)
    BY <1>3, <2>2, <2>3, <2>4, <2>5, AppendPlaced
  <2>7. Placed(out)'
    BY <1>1, <2>6, SameLines
  <2>8. PhaseOK'
    <3>1. Reach(out)' = StartOf(e)
      BY <2>6 DEF Reach
    <3> QED
      BY <1>1, <1>2, <1>3, <1>9, <3>1 DEF PhaseOK
  <2> QED
    BY <1>2, <1>4, <1>5, <1>7, <2>7, <2>8 DEF CoverInv
<1> QED
  BY <1>6, <1>8, <1>9

\* split_text() cuts on: in a section, or in the whole document.
LEMMA SplitTextKeeps ==
  ASSUME CoverInv, SplitText
  PROVE  CoverInv'
<1>1. PICK s \in InnerStarts(out, StartOf(from)),
           e \in InnerEnds(out, StartOf(from), StartOf(sec)) :
        \E x \in Headers(s, e) :
          IF pc = "inner" THEN InnerChunk(s, e, x) ELSE FallbackChunk(s, e, x)
  BY DEF SplitText
<1>2. pc \in {"inner", "fallback"}
  BY DEF SplitText
<1>3. UNCHANGED <<doc, from, sec>>
  BY <1>1 DEF InnerChunk, FallbackChunk
<1>4. PICK x, crumb : out' = Append(out, MakeChunk(s, e, x, crumb))
  BY <1>1 DEF InnerChunk, FallbackChunk
<1>5. /\ Placed(out') /\ Reach(out') = e
      /\ e \in Nat /\ StartOf(from) <= e /\ e <= StartOf(sec)
  BY <1>2, <1>4, InnerPlaced
<1>6. LinesOK' /\ TextEnd' = TextEnd /\ (\A j : StartOf(j)' = StartOf(j))
  BY <1>3, SameLines DEF CoverInv
<1>7. Placed(out)' /\ Reach(out)' = e
  BY <1>3, <1>5, SameLines DEF Reach
<1>8. sec' \in 1 .. Len(doc') + 1 /\ from' \in 1 .. Len(doc') + 1
  BY <1>3 DEF CoverInv
<1>9. /\ from < sec /\ result = <<>> /\ StartOf(sec) \in Nat
      /\ pc = "fallback" => sec = Len(doc) + 1
  BY <1>2, StartsGrow DEF CoverInv, PhaseOK
<1>10. \/ result' = result /\ pc' = pc /\ e # StartOf(sec)
       \/ result' = result /\ pc' = "split" /\ e = StartOf(sec)
       \/ result' = out' /\ pc' = "done"
  BY <1>1, <1>2 DEF InnerChunk, FallbackChunk, mergeVars
<1>11. Placed(result)'
  <2>1. Placed(result')
    BY <1>5, <1>10 DEF CoverInv
  <2> QED
    BY <1>3, <2>1, SameLines
<1>12. JoinOK'
  BY <1>2, <1>10 DEF JoinOK
<1>13. PhaseOK'
  <2>1. CASE result' = result /\ pc' = pc /\ e # StartOf(sec)
    <3>1. StartOf(from)' <= Reach(out)' /\ Reach(out)' < StartOf(sec)'
      BY <1>3, <1>5, <1>6, <1>7, <1>9, <2>1
    <3> QED
      BY <1>2, <1>3, <1>9, <2>1, <3>1 DEF PhaseOK
  <2>2. CASE result' = result /\ pc' = "split" /\ e = StartOf(sec)
    <3>1. StartOf(sec)' = e
      BY <1>3, <1>6, <2>2
    <3> QED
      BY <1>7, <1>9, <2>2, <3>1 DEF PhaseOK
  <2>3. CASE result' = out' /\ pc' = "done"
    BY <2>3 DEF PhaseOK
  <2> QED
    BY <1>10, <2>1, <2>2, <2>3
<1> QED
  BY <1>6, <1>7, <1>8, <1>11, <1>12, <1>13 DEF CoverInv

\* What holds when the sections are all cut.
LEMMA AllCut ==
  ASSUME CoverInv, pc = "split", sec > Len(doc)
  PROVE  Reach(out) = TextEnd /\ result = <<>>
<1>1. sec = Len(doc) + 1
  BY DEF CoverInv, LinesOK
<1>2. StartOf(Len(doc) + 1) = TextEnd
  BY <1>1, StartsGrow DEF CoverInv
<1> QED
  BY <1>1, <1>2 DEF CoverInv, PhaseOK

\* The first chunk is taken, or there is nothing to join.
LEMMA StartCoalescingKeeps ==
  ASSUME CoverInv, StartCoalescing
  PROVE  CoverInv'
<1>1. /\ pc = "split" /\ sec > Len(doc) /\ UNCHANGED <<doc, from, sec, out>>
      /\ \/ pc' = "done" /\ result' = out
         \/ ~ (Len(out) <= 1) /\ pc' = "coalesce" /\ cur' = out[1] /\ nxt' = 2
              /\ result' = result
  BY DEF StartCoalescing, sectionVars
<1>2. Reach(out) = TextEnd /\ result = <<>> /\ TextEnd \in Nat /\ Placed(out)
  BY <1>1, AllCut DEF CoverInv, LinesOK
<1>3. LinesOK' /\ TextEnd' = TextEnd
  BY <1>1, SameLines DEF CoverInv
<1>4. Placed(out)'
  BY <1>1, <1>2, SameLines
<1>5. Placed(result)'
  <2>1. Placed(result')
    BY <1>1, <1>2 DEF CoverInv
  <2> QED
    BY <1>1, <2>1, SameLines
<1>6. PhaseOK'
  BY <1>1 DEF PhaseOK
<1>7. JoinOK'
  <2>1. CASE pc' = "done"
    BY <2>1 DEF JoinOK
  <2>2. CASE ~ (Len(out) <= 1) /\ pc' = "coalesce" /\ cur' = out[1] /\ nxt' = 2
               /\ result' = result
    <3>1. Len(out) \in Nat /\ 2 \in 2 .. Len(out) + 1 /\ 1 \in 1 .. Len(out) /\ out # <<>>
      BY <1>2, <2>2, LastPlaced
    <3>2. out[1].start \in Nat /\ out[1].start = 0
      BY <1>2, <3>1 DEF Placed
    <3>3. Reach(out)' = TextEnd'
      BY <1>1, <1>2, <1>3 DEF Reach
    <3> QED
      BY <1>1, <1>2, <2>2, <3>1, <3>2, <3>3 DEF JoinOK
  <2> QED
    BY <1>1, <2>1, <2>2
<1> QED
  BY <1>1, <1>3, <1>4, <1>5, <1>6, <1>7 DEF CoverInv

\* What is known of the chunk being joined and the next one.
LEMMA JoinFacts ==
  ASSUME CoverInv, pc = "coalesce"
  PROVE  /\ Len(out) \in Nat /\ nxt \in 2 .. Len(out) + 1 /\ TextEnd \in Nat
         /\ cur.start \in Nat /\ cur.end \in Nat /\ cur.end <= TextEnd
         /\ result = <<>> => cur.start = 0
         /\ result # <<>> => After(result[Len(result)], cur)
         /\ nxt <= Len(out) =>
              /\ out[nxt].start \in Nat /\ out[nxt].end \in Nat
              /\ out[nxt].end <= TextEnd
              /\ After(cur, out[nxt])
         /\ nxt > Len(out) => cur.end = TextEnd
<1>1. /\ Placed(out) /\ Reach(out) = TextEnd /\ TextEnd \in Nat /\ nxt \in 2 .. Len(out) + 1
      /\ cur.start \in Nat /\ cur.start <= out[nxt - 1].start
      /\ cur.end = out[nxt - 1].end
      /\ result = <<>> => cur.start = 0
      /\ result # <<>> => After(result[Len(result)], cur)
  BY DEF CoverInv, LinesOK, JoinOK
<1>2. Len(out) \in Nat /\ (out = <<>> <=> Len(out) = 0)
  BY <1>1, LastPlaced
<1>3. nxt - 1 \in 1 .. Len(out) /\ (nxt - 1) + 1 = nxt /\ nxt \in Nat
  BY <1>1, <1>2
<1>4. /\ out[nxt - 1].start \in Nat /\ out[nxt - 1].end \in Nat
      /\ out[nxt - 1].end <= TextEnd
  BY <1>1, <1>3 DEF Placed
<1>5. ASSUME nxt <= Len(out)
      PROVE  /\ out[nxt].start \in Nat /\ out[nxt].end \in Nat
             /\ out[nxt].end <= TextEnd
             /\ After(cur, out[nxt])
  <2>1. nxt - 1 \in 1 .. Len(out) - 1 /\ nxt \in 1 .. Len(out)
    BY <1>2, <1>3, <1>5
  <2>2. After(out[nxt - 1], out[nxt])
    BY <1>1, <1>3, <2>1 DEF Placed
  <2>3. out[nxt].start \in Nat /\ out[nxt].end \in Nat /\ out[nxt].end <= TextEnd
    BY <1>1, <2>1 DEF Placed
  <2> QED
    BY <1>1, <1>4, <2>2, <2>3 DEF After
<1>6. nxt > Len(out) => cur.end = TextEnd
  <2>1. SUFFICES ASSUME nxt > Len(out) PROVE cur.end = TextEnd
    OBVIOUS
  <2>2. nxt - 1 = Len(out) /\ out # <<>>
    BY <1>2, <1>3, <2>1
  <2> QED
    BY <1>1, <2>2 DEF Reach
<1> QED
  BY <1>1, <1>2, <1>4, <1>5, <1>6

\* A chunk is joined to the one in hand, or takes its place.
LEMMA CoalesceKeeps ==
  ASSUME CoverInv, Coalesce
  PROVE  CoverInv'
<1> DEFINE d == out[nxt]
<1>1. /\ pc = "coalesce" /\ nxt <= Len(out) /\ nxt' = nxt + 1
      /\ UNCHANGED <<doc, pc, from, sec, out>>
      /\ \/ cur' = Joined(cur, d) /\ result' = result
         \/ cur' = d /\ result' = Append(result, cur)
  BY DEF Coalesce, sectionVars
<1>2. /\ Len(out) \in Nat /\ nxt \in 2 .. Len(out) + 1 /\ TextEnd \in Nat
      /\ cur.start \in Nat /\ cur.end \in Nat /\ cur.end <= TextEnd
      /\ result = <<>> => cur.start = 0
      /\ result # <<>> => After(result[Len(result)], cur)
      /\ d.start \in Nat /\ d.end \in Nat /\ d.end <= TextEnd /\ After(cur, d)
  BY <1>1, JoinFacts
<1>3. LinesOK' /\ TextEnd' = TextEnd /\ PhaseOK' /\ Reach(out)' = TextEnd'
  BY <1>1, SameLines DEF CoverInv, PhaseOK, JoinOK, Reach
<1>4. Placed(out)'
  BY <1>1, SameLines DEF CoverInv
<1>5. nxt' \in 2 .. Len(out') + 1 /\ out'[nxt' - 1] = d
  <2>1. nxt + 1 \in 2 .. Len(out) + 1 /\ (nxt + 1) - 1 = nxt
    BY <1>1, <1>2
  <2> QED
    BY <1>1, <2>1
<1>6. CASE cur' = Joined(cur, d) /\ result' = result
  <2>1. cur'.start = cur.start /\ cur'.end = d.end
    BY <1>6 DEF Joined
  <2> HIDE DEF d
  <2>2. Placed(result)'
    BY <1>1, <1>6, SameLines DEF CoverInv
  <2>3. cur'.start <= d.start /\ cur'.start \in Nat
    <3>1. cur.start <= d.start
      <4>1. nxt - 1 \in 1 .. Len(out) - 1 /\ nxt - 1 \in 1 .. Len(out) /\ (nxt - 1) + 1 = nxt
        BY <1>1, <1>2
      <4>2. /\ cur.start <= out[nxt - 1].start
            /\ out[nxt - 1].start <= d.start
            /\ out[nxt - 1].start \in Nat
        BY <1>1, <4>1 DEF CoverInv, JoinOK, Placed, After, d
      <4> QED
        BY <1>2, <4>2
    <3> QED
      BY <1>2, <2>1, <3>1
  <2>4. result # <<>> => After(result[Len(result)], cur')
    <3>1. SUFFICES ASSUME result # <<>> PROVE After(result[Len(result)], cur')
      OBVIOUS
    <3>2. result[Len(result)].end \in Nat
      BY <1>2, <3>1, LastPlaced DEF CoverInv
    <3> QED
      BY <1>2, <2>1, <3>1, <3>2 DEF After
  <2>5. result' # <<>> => After(result'[Len(result')], cur')
    BY <1>6, <2>4
  <2>6. JoinOK'
    BY <1>2, <1>3, <1>5, <1>6, <2>1, <2>3, <2>5 DEF JoinOK, After
  <2> QED
    BY <1>1, <1>3, <1>4, <2>2, <2>6 DEF CoverInv
<1>7. CASE cur' = d /\ result' = Append(result, cur)
  <2> HIDE DEF d
  <2>1. Placed(result)
    BY DEF CoverInv
  <2>2. Placed(result')
    BY <1>2, <1>7, <2>1, AppendPlaced
  <2>3. result' # <<>> /\ result'[Len(result')] = cur
    <3>1. IsList(result)
      BY <2>1 DEF Placed
    <3> QED
      BY <1>7, <3>1, AppendToList
  <2>4. Placed(result)'
    BY <1>1, <2>2, SameLines
  <2>5. After(result'[Len(result')], cur')
    BY <1>2, <1>7, <2>3
  <2>6. JoinOK'
    BY <1>2, <1>3, <1>5, <1>7, <2>3, <2>5, SMTT(30) DEF JoinOK, After
  <2> QED
    BY <1>1, <1>3, <1>4, <2>4, <2>6 DEF CoverInv
<1> QED
  BY <1>1, <1>6, <1>7

\* The chunk in hand is the last one.
LEMMA FinishKeeps ==
  ASSUME CoverInv, FinishCoalescing
  PROVE  CoverInv' /\ Reach(result)' = TextEnd
<1>1. /\ pc = "coalesce" /\ nxt > Len(out) /\ pc' = "done"
      /\ result' = Append(result, cur)
      /\ UNCHANGED <<doc, from, sec, out>>
  BY DEF FinishCoalescing, sectionVars
<1>2. /\ TextEnd \in Nat /\ cur.start \in Nat /\ cur.end = TextEnd
      /\ result = <<>> => cur.start = 0
      /\ result # <<>> => After(result[Len(result)], cur)
  BY <1>1, JoinFacts
<1>3. LinesOK' /\ TextEnd' = TextEnd
  BY <1>1, SameLines DEF CoverInv
<1>4. Placed(out)'
  BY <1>1, SameLines DEF CoverInv
<1>5. Placed(result') /\ Reach(result') = TextEnd
  <2>1. cur.end \in Nat /\ cur.end <= TextEnd /\ Placed(result)
    BY <1>2 DEF CoverInv
  <2> QED
    BY <1>1, <1>2, <2>1, AppendPlaced
<1>6. Placed(result)' /\ Reach(result)' = TextEnd
  BY <1>1, <1>5, SameLines DEF Reach
<1>7. PhaseOK' /\ JoinOK'
  BY <1>1 DEF PhaseOK, JoinOK
<1> QED
  BY <1>1, <1>3, <1>4, <1>6, <1>7 DEF CoverInv

\* Nothing happens.
LEMMA StutterKeeps ==
  ASSUME CoverInv, UNCHANGED vars
  PROVE  CoverInv'
<1>1. UNCHANGED <<doc, pc, from, sec, out, cur, nxt, result>>
  BY DEF vars
<1>2. LinesOK' /\ TextEnd' = TextEnd /\ (\A j : StartOf(j)' = StartOf(j))
  BY <1>1, SameLines DEF CoverInv
<1>3. Placed(out)' /\ Placed(result)'
  BY <1>1, SameLines DEF CoverInv
<1>4. Reach(out)' = Reach(out)
  BY <1>1 DEF Reach
<1>5. PhaseOK'
  BY <1>1, <1>2, <1>4 DEF CoverInv, PhaseOK
<1>6. JoinOK'
  BY <1>1, <1>2, <1>4 DEF CoverInv, JoinOK, After
<1> QED
  BY <1>1, <1>2, <1>3, <1>5, <1>6 DEF CoverInv

\* The steps, one by one.
LEMMA StepCases ==
  [Next]_vars <=>
    \/ \E s \in LineShapes : ReadLine(s)
    \/ ReturnNothing \/ FallBack \/ StartSections
    \/ \E e \in 1 .. Len(doc) + 1 : NextSection(e)
    \/ SplitText
    \/ StartCoalescing
    \/ Coalesce
    \/ FinishCoalescing
    \/ UNCHANGED vars
BY DEF Next, ReadNext, SplitNext

\* Every step keeps the chunks in their places.
LEMMA StepKeepsCover == CoverInv /\ [Next]_vars => CoverInv'
<1> SUFFICES ASSUME CoverInv, [Next]_vars PROVE CoverInv'
  OBVIOUS
<1>1. CASE \E s \in LineShapes : ReadLine(s)
  BY <1>1, ReadLineKeeps
<1>2. CASE ReturnNothing \/ FallBack \/ StartSections
  BY <1>2, StartKeeps
<1>3. CASE \E e \in 1 .. Len(doc) + 1 : NextSection(e)
  BY <1>3, NextSectionKeeps
<1>4. CASE SplitText
  BY <1>4, SplitTextKeeps
<1>5. CASE StartCoalescing
  BY <1>5, StartCoalescingKeeps
<1>6. CASE Coalesce
  BY <1>6, CoalesceKeeps
<1>7. CASE FinishCoalescing
  BY <1>7, FinishKeeps
<1>8. CASE UNCHANGED vars
  BY <1>8, StutterKeeps
<1> QED
  BY <1>1, <1>2, <1>3, <1>4, <1>5, <1>6, <1>7, <1>8, StepCases

\* At every place of the splitter the chunks follow each other from the start
\* of the document up to where the splitter has got: the strengthening of
\* CoversDocument that every step keeps.
THEOREM ChunksArePlaced == Spec => []CoverInv
BY InitCoverInv, StepKeepsCover, PTL DEF Spec

-------------------------------------------------------------------------------
\* The spans of the chunks returned say what Placed() says of the chunks.
LEMMA SpansOfResult ==
  CoverInv => /\ TextEnd \in Nat
              /\ IsList(result) /\ Len(result) \in Nat
              /\ DOMAIN result = 1 .. Len(result)
              /\ Len(Spans) = Len(result)
              /\ \A i \in 1 .. Len(result) :
                   Spans[i] = <<result[i].start, result[i].end>>
              /\ Cover!Chain(Spans)
              /\ Cover!Covered(Spans) = Reach(result)
              /\ Reach(result) <= TextEnd
<1> SUFFICES ASSUME CoverInv
             PROVE  /\ TextEnd \in Nat
                    /\ IsList(result) /\ Len(result) \in Nat
                    /\ DOMAIN result = 1 .. Len(result)
                    /\ Len(Spans) = Len(result)
                    /\ \A i \in 1 .. Len(result) :
                         Spans[i] = <<result[i].start, result[i].end>>
                    /\ Cover!Chain(Spans)
                    /\ Cover!Covered(Spans) = Reach(result)
                    /\ Reach(result) <= TextEnd
  OBVIOUS
<1>1. Placed(result) /\ TextEnd \in Nat
  BY DEF CoverInv, LinesOK
<1>2. PICK S : result \in Seq(S)
  BY <1>1 DEF Placed, IsList
<1>3. /\ Len(result) \in Nat /\ DOMAIN result = 1 .. Len(result)
      /\ result = <<>> <=> Len(result) = 0
  BY <1>2
<1>4. /\ Spans = [i \in 1 .. Len(result) |-> <<result[i].start, result[i].end>>]
      /\ Len(Spans) = Len(result)
      /\ Spans = <<>> <=> result = <<>>
  <2>1. Spans = [i \in 1 .. Len(result) |-> <<result[i].start, result[i].end>>]
    BY <1>3, Zenon DEF Spans
  <2>2. Spans \in [1 .. Len(result) ->
                    {<<result[i].start, result[i].end>> : i \in 1 .. Len(result)}]
    BY <2>1
  <2>3. Len(Spans) = Len(result) /\ (Spans = <<>> <=> Len(result) = 0)
    BY <1>3, <2>2, LengthOfList
  <2> QED
    BY <1>3, <2>1, <2>3
<1>5. \A i \in 1 .. Len(result) : /\ Spans[i] = <<result[i].start, result[i].end>>
                                  /\ Spans[i][1] = result[i].start
                                  /\ Spans[i][2] = result[i].end
  BY <1>4
<1>6. Cover!Chain(Spans)
  <2>1. Spans # <<>> => Spans[1][1] = 0
    <3>1. SUFFICES ASSUME Spans # <<>> PROVE Spans[1][1] = 0
      OBVIOUS
    <3>2. 1 \in 1 .. Len(result) /\ result # <<>>
      BY <1>3, <1>4, <3>1
    <3> QED
      BY <1>1, <1>5, <3>2 DEF Placed
  <2>2. ASSUME NEW i \in 1 .. Len(Spans) - 1
        PROVE  Cover!Follows(Spans[i], Spans[i + 1])
    <3>1. i \in 1 .. Len(result) - 1 /\ i \in 1 .. Len(result) /\ i + 1 \in 1 .. Len(result)
      BY <1>3, <1>4, <2>2
    <3>2. After(result[i], result[i + 1])
      BY <1>1, <3>1 DEF Placed
    <3> QED
      BY <1>5, <3>1, <3>2 DEF Cover!Follows, After
  <2> QED
    BY <2>1, <2>2 DEF Cover!Chain
<1>7. Cover!Covered(Spans) = Reach(result)
  <2>1. CASE result = <<>>
    BY <1>4, <2>1 DEF Cover!Covered, Reach
  <2>2. CASE result # <<>>
    <3>1. Len(result) \in 1 .. Len(result)
      BY <1>3, <2>2
    <3> QED
      BY <1>4, <1>5, <2>2, <3>1 DEF Cover!Covered, Reach
  <2> QED
    BY <2>1, <2>2
<1>8. Reach(result) <= TextEnd
  BY <1>1, LastPlaced
<1> QED
  BY <1>1, <1>3, <1>4, <1>5, <1>6, <1>7, <1>8 DEF Placed

\* The same of the next state.
LEMMA SpansOfNextResult ==
  CoverInv' => /\ (TextEnd \in Nat)'
               /\ (IsList(result))' /\ (Len(result) \in Nat)'
               /\ (DOMAIN result = 1 .. Len(result))'
               /\ (Len(Spans) = Len(result))'
               /\ (\A i \in 1 .. Len(result) :
                     Spans[i] = <<result[i].start, result[i].end>>)'
               /\ (Cover!Chain(Spans))'
               /\ (Cover!Covered(Spans) = Reach(result))'
               /\ (Reach(result) <= TextEnd)'
BY SpansOfResult, PTL

\* What has been returned is only added to.
LEMMA ResultGrows ==
  ASSUME CoverInv, CoverInv',
         \/ result' = result
         \/ result = <<>>
         \/ result' = Append(result, cur)
  PROVE  Cover!Grows(Spans, Spans')
<1>1. /\ Len(result) \in Nat /\ Len(Spans) = Len(result)
      /\ \A i \in 1 .. Len(result) : Spans[i] = <<result[i].start, result[i].end>>
      /\ IsList(result)
  BY SpansOfResult
<1>2. /\ Len(result') \in Nat /\ Len(Spans') = Len(result')
      /\ \A i \in 1 .. Len(result') : Spans'[i] = <<result'[i].start, result'[i].end>>
  BY SpansOfNextResult
<1>3. Len(result) <= Len(result') /\ \A i \in 1 .. Len(result) : result'[i] = result[i]
  <2>1. CASE result' = result
    BY <1>1, <2>1
  <2>2. CASE result = <<>>
    <3>1. Len(result) = 0
      BY <2>2
    <3> QED
      BY <1>2, <3>1
  <2>3. CASE result' = Append(result, cur)
    BY <1>1, <2>3, AppendToList
  <2> QED
    BY <2>1, <2>2, <2>3
<1>4. \A i \in 1 .. Len(result) : i \in 1 .. Len(result')
  BY <1>1, <1>2, <1>3
<1>5. \A i \in 1 .. Len(Spans) : Spans'[i] = Spans[i]
  BY <1>1, <1>2, <1>3, <1>4
<1> QED
  BY <1>1, <1>2, <1>3, <1>5 DEF Cover!Grows

\* A step that does not return works on.
LEMMA WorksOn ==
  ASSUME CoverInv, CoverInv', pc # "done", pc' # "done", TextEnd <= TextEnd',
         \/ result' = result
         \/ result = <<>>
         \/ result' = Append(result, cur)
  PROVE  Cover!Work
<1>1. Cover!Grows(Spans, Spans')
  BY ResultGrows
<1>2. /\ Cover!Chain(Spans') /\ Cover!Covered(Spans') = Reach(result)'
      /\ Reach(result)' <= TextEnd'
      /\ TextEnd \in Nat /\ TextEnd' \in Nat
  BY SpansOfResult, SpansOfNextResult
<1>3. TextEnd' >= TextEnd
  BY <1>2
<1> QED
  BY <1>1, <1>2, <1>3 DEF Cover!Work

\* A step that returns has covered the document.
LEMMA ReturnsAll ==
  ASSUME CoverInv, CoverInv', pc # "done", pc' = "done", TextEnd' = TextEnd,
         Reach(result)' = TextEnd,
         \/ result' = result
         \/ result = <<>>
         \/ result' = Append(result, cur)
  PROVE  Cover!Return
<1>1. Cover!Grows(Spans, Spans')
  BY ResultGrows
<1>2. Cover!Chain(Spans') /\ Cover!Covered(Spans') = Reach(result)'
  BY SpansOfNextResult
<1> QED
  BY <1>1, <1>2 DEF Cover!Return

\* The heading splitter implements ChunkCover: the chunks it returns follow the
\* document from its first character to its last and leave none of it out,
\* whatever was cut by split_text() and joined by coalesce_tiny_chunks().
THEOREM HeadingsCover == Spec => CoversDocument
<1>1. Init => Cover!Init
  BY DEF Init, Cover!Init, TextEnd, Spans
<1>2. ASSUME CoverInv, CoverInv', [Next]_vars
      PROVE  [Cover!Next]_Cover!vars
  <2>1. CASE \E s \in LineShapes : ReadLine(s)
    <3>1. PICK s \in LineShapes : ReadLine(s)
      BY <2>1
    <3>2. TextEnd <= TextEnd'
      BY <1>2, <3>1, ReadLineKeeps
    <3>3. pc = "profile" /\ pc' = pc /\ result' = result
      BY <3>1 DEF ReadLine, mergeVars
    <3> QED
      BY <1>2, <3>2, <3>3, WorksOn DEF Cover!Next
  <2>2. ASSUME doc' = doc
        PROVE  TextEnd' = TextEnd /\ TextEnd <= TextEnd'
    BY <1>2, <2>2, SameLines, SpansOfResult
  <2>3. CASE ReturnNothing
    <3>1. /\ pc = "profile" /\ pc' = "done" /\ doc = <<>>
          /\ UNCHANGED <<doc, result>>
      BY <2>3 DEF ReturnNothing, mergeVars
    <3>2. Reach(result)' = TextEnd
      BY <1>2, <3>1 DEF CoverInv, PhaseOK, Reach, TextEnd
    <3> QED
      BY <1>2, <2>2, <3>1, <3>2, ReturnsAll DEF Cover!Next
  <2>4. CASE FallBack \/ StartSections
    <3>1. pc = "profile" /\ pc' # "done" /\ UNCHANGED <<doc, result>>
      BY <2>4 DEF FallBack, StartSections, mergeVars
    <3> QED
      BY <1>2, <2>2, <3>1, WorksOn DEF Cover!Next
  <2>5. CASE \E e \in 1 .. Len(doc) + 1 : NextSection(e)
    <3>1. pc = "split" /\ pc' # "done" /\ UNCHANGED <<doc, result>>
      BY <2>5 DEF NextSection, mergeVars
    <3> QED
      BY <1>2, <2>2, <3>1, WorksOn DEF Cover!Next
  <2>6. CASE SplitText
    <3>1. PICK s \in InnerStarts(out, StartOf(from)),
               e \in InnerEnds(out, StartOf(from), StartOf(sec)) :
            \E x \in Headers(s, e) :
              IF pc = "inner" THEN InnerChunk(s, e, x) ELSE FallbackChunk(s, e, x)
      BY <2>6 DEF SplitText
    <3>2. pc \in {"inner", "fallback"} /\ doc' = doc
      BY <2>6, <3>1 DEF SplitText, InnerChunk, FallbackChunk
    <3>3. result = <<>>
      BY <1>2, <3>2 DEF CoverInv, PhaseOK
    <3>4. PICK x, crumb : /\ out' = Append(out, MakeChunk(s, e, x, crumb))
                          /\ \/ pc' # "done"
                             \/ /\ pc = "fallback" /\ pc' = "done"
                                /\ e = StartOf(sec) /\ result' = out'
      BY <3>1, <3>2 DEF InnerChunk, FallbackChunk
    <3>5. CASE pc' # "done"
      BY <1>2, <2>2, <3>2, <3>3, <3>5, WorksOn DEF Cover!Next
    <3>6. CASE pc = "fallback" /\ pc' = "done" /\ e = StartOf(sec) /\ result' = out'
      <4>1. Reach(out') = e
        BY <1>2, <3>2, <3>4, InnerPlaced
      <4>2. StartOf(sec) = TextEnd
        BY <1>2, <3>6, StartsGrow DEF CoverInv, PhaseOK
      <4>3. Reach(result)' = TextEnd
        BY <3>6, <4>1, <4>2 DEF Reach
      <4> QED
        BY <1>2, <2>2, <3>2, <3>3, <3>6, <4>3, ReturnsAll DEF Cover!Next
    <3> QED
      BY <3>4, <3>5, <3>6
  <2>7. CASE StartCoalescing
    <3>1. /\ pc = "split" /\ sec > Len(doc) /\ UNCHANGED <<doc, out>>
          /\ \/ pc' = "done" /\ result' = out
             \/ pc' = "coalesce" /\ result' = result
      BY <2>7 DEF StartCoalescing, sectionVars
    <3>2. Reach(out) = TextEnd /\ result = <<>>
      BY <1>2, <3>1, AllCut
    <3>3. CASE pc' = "done" /\ result' = out
      <4>1. Reach(result)' = TextEnd
        BY <3>2, <3>3 DEF Reach
      <4> QED
        BY <1>2, <2>2, <3>1, <3>2, <3>3, <4>1, ReturnsAll DEF Cover!Next
    <3>4. CASE pc' = "coalesce" /\ result' = result
      BY <1>2, <2>2, <3>1, <3>4, WorksOn DEF Cover!Next
    <3> QED
      BY <3>1, <3>3, <3>4
  <2>8. CASE Coalesce
    <3>1. /\ pc = "coalesce" /\ pc' = pc /\ doc' = doc
          /\ result' = result \/ result' = Append(result, cur)
      BY <2>8 DEF Coalesce, sectionVars
    <3> QED
      BY <1>2, <2>2, <3>1, WorksOn DEF Cover!Next
  <2>9. CASE FinishCoalescing
    <3>1. /\ pc = "coalesce" /\ pc' = "done" /\ doc' = doc
          /\ result' = Append(result, cur)
      BY <2>9 DEF FinishCoalescing, sectionVars
    <3>2. Reach(result)' = TextEnd
      BY <1>2, <2>9, FinishKeeps
    <3> QED
      BY <1>2, <2>2, <3>1, <3>2, ReturnsAll DEF Cover!Next
  <2>10. CASE UNCHANGED vars
    BY <2>10 DEF vars, Cover!vars, TextEnd, Spans
  <2> QED
    BY <1>2, <2>1, <2>3, <2>4, <2>5, <2>6, <2>7, <2>8, <2>9, <2>10, StepCases
<1> QED
  BY <1>1, <1>2, ChunksArePlaced, PTL DEF Spec, CoversDocument, Cover!Spec

\* Steps of one lead from 0 to any number: induction for sets.
LEMMA UpTo ==
  ASSUME NEW N \in Nat, NEW P, 0 \in P,
         \A k \in 0 .. N - 1 : k \in P => k + 1 \in P
  PROVE  0 .. N \subseteq P
<1> DEFINE T == (0 .. N) \ P
<1> SUFFICES ASSUME T # {} PROVE FALSE
  OBVIOUS
<1>1. T \subseteq Nat
  OBVIOUS
<1>2. PICK m \in T : \A n \in T : ~ (<<n, m>> \in OpToRel(<, Nat))
  <2> HIDE DEF T
  <2> QED
    BY <1>1, WFMin, NatLessThanWellFounded, Zenon
<1>3. m \in 1 .. N
  OBVIOUS
<1>4. m - 1 \notin T
  <2>1. m - 1 \in Nat /\ m \in Nat /\ m - 1 < m
    BY <1>3
  <2>2. <<m - 1, m>> \in OpToRel(<, Nat)
    BY <2>1, Zenon DEF OpToRel
  <2> QED
    BY <1>2, <2>2
<1> QED
  BY <1>3, <1>4

\* The greatest number of a bounded set.
LEMMA GreatestOf ==
  ASSUME NEW N \in Nat, NEW S \in SUBSET (0 .. N), S # {}
  PROVE  Max(S) \in S /\ \A x \in S : x <= Max(S)
<1> DEFINE Top(n) == \E x \in S : \A y \in S : y <= n => x >= y
           P == {n \in 0 .. N : (\A y \in S : y > n) \/ Top(n)}
<1>1. 0 \in P
  <2>1. CASE 0 \in S
    BY <2>1
  <2>2. CASE 0 \notin S
    BY <2>2
  <2> QED
    BY <2>1, <2>2
<1>2. ASSUME NEW k \in 0 .. N - 1, k \in P PROVE k + 1 \in P
  <2>1. k + 1 \in 0 .. N /\ k \in Nat
    OBVIOUS
  <2>2. CASE k + 1 \in S
    BY <2>1, <2>2
  <2>3. CASE k + 1 \notin S
    <3>1. \A y \in S : y <= k + 1 => y <= k
      BY <2>1, <2>3
    <3>2. CASE \A y \in S : y > k
      BY <2>1, <2>3, <3>2
    <3>3. CASE Top(k)
      BY <2>1, <3>1, <3>3
    <3> QED
      BY <1>2, <3>2, <3>3
  <2> QED
    BY <2>2, <2>3
<1>3. N \in P
  <2>1. N \in 0 .. N
    OBVIOUS
  <2> HIDE DEF P
  <2> QED
    BY <1>1, <1>2, <2>1, UpTo
<1>4. \E x \in S : \A y \in S : x >= y
  <2>1. \A y \in S : y \in Nat /\ y <= N
    OBVIOUS
  <2>2. (\A y \in S : y > N) \/ Top(N)
    BY <1>3
  <2>3. ~ (\A y \in S : y > N)
    <3>1. PICK y \in S : TRUE
      OBVIOUS
    <3>2. y <= N /\ y \in Nat
      BY <2>1, <3>1
    <3>3. ~ (y > N)
      BY <3>2
    <3> QED
      BY <3>1, <3>3
  <2>4. Top(N)
    BY <2>2, <2>3
  <2> QED
    BY <2>1, <2>4
<1>5. Max(S) \in S /\ \A y \in S : Max(S) >= y
  BY <1>4 DEF Max
<1> QED
  BY <1>5

\* The least number of a set.
LEMMA LeastOf ==
  ASSUME NEW S \in SUBSET Nat, S # {}
  PROVE  Min(S) \in S /\ \A x \in S : Min(S) <= x
<1>1. PICK m \in S : \A n \in S : ~ (<<n, m>> \in OpToRel(<, Nat))
  BY WFMin, NatLessThanWellFounded, Zenon
<1>2. \A n \in S : ~ (n < m)
  BY <1>1, Zenon DEF OpToRel
<1>3. \A n \in S : m <= n
  BY <1>2
<1>4. \E x \in S : \A y \in S : x <= y
  BY <1>3
<1> QED
  BY <1>4 DEF Min

\* A function whose values follow from b, each from the one before it.
Unrolled(f, N, b, g) == f[0] = b /\ \A k \in 1 .. N : f[k] = g[k][f[k - 1]]

\* A function can be defined from 0 upwards.
LEMMA RecursionFound ==
  ASSUME NEW N \in Nat, NEW S, NEW b \in S, NEW g \in [1 .. N -> [S -> S]]
  PROVE  \E f \in [0 .. N -> S] : Unrolled(f, N, b, g)
<1> DEFINE D == {m \in 0 .. N : \E f \in [0 .. m -> S] : Unrolled(f, m, b, g)}
<1>1. 0 \in D
  <2>1. [k \in 0 .. 0 |-> b] \in [0 .. 0 -> S] /\ Unrolled([k \in 0 .. 0 |-> b], 0, b, g)
    BY DEF Unrolled
  <2> QED
    BY <2>1
<1>2. ASSUME NEW m \in 0 .. N - 1, m \in D PROVE m + 1 \in D
  <2>1. PICK f \in [0 .. m -> S] : Unrolled(f, m, b, g)
    BY <1>2
  <2> DEFINE v == g[m + 1][f[m]]
             h == [k \in 0 .. m + 1 |-> IF k = m + 1 THEN v ELSE f[k]]
  <2>2. m \in Nat /\ m + 1 \in 1 .. N /\ m + 1 \in 0 .. N /\ f[m] \in S
    OBVIOUS
  <2>3. v \in S
    BY <2>2
  <2>4. h \in [0 .. m + 1 -> S]
    <3> HIDE DEF v
    <3> QED
      BY <2>2, <2>3
  <2>5. h[0] = b
    BY <2>1, <2>2 DEF Unrolled
  <2>6. ASSUME NEW k \in 1 .. m + 1 PROVE h[k] = g[k][h[k - 1]]
    <3>1. h[k - 1] = f[k - 1]
      <4>1. k - 1 \in 0 .. m + 1 /\ k - 1 # m + 1
        BY <2>2
      <4> HIDE DEF v
      <4> QED
        BY <4>1
    <3>2. CASE k = m + 1
      <4>1. k - 1 = m /\ h[k] = v
        BY <2>2, <3>2
      <4> QED
        BY <3>1, <3>2, <4>1
    <3>3. CASE k # m + 1
      <4>1. k \in 1 .. m /\ k \in 0 .. m + 1
        BY <2>2, <3>3
      <4>2. h[k] = f[k]
        BY <3>3, <4>1
      <4> QED
        BY <2>1, <3>1, <4>1, <4>2 DEF Unrolled
    <3> QED
      BY <3>2, <3>3
  <2> HIDE DEF h
  <2>7. Unrolled(h, m + 1, b, g)
    BY <2>5, <2>6 DEF Unrolled
  <2> QED
    BY <2>2, <2>4, <2>7
<1>3. N \in D
  <2>1. N \in 0 .. N
    OBVIOUS
  <2> HIDE DEF D
  <2> QED
    BY <1>1, <1>2, <2>1, UpTo
<1> QED
  BY <1>3

-------------------------------------------------------------------------------
\* What a HeadingHierarchy can be.
Hierarchy == [stack : [Levels -> Titles \cup {""}], depth : 0 .. MaxLevel]

\* The levels, as numbers.
LEMMA LevelsAre ==
  /\ MaxLevel \in Nat /\ MaxLevel > 0
  /\ Levels = 1 .. MaxLevel
  /\ 0 \in 0 .. MaxLevel
  /\ \A i \in Levels : i \in 0 .. MaxLevel
  /\ \A n \in 0 .. MaxLevel : n \in Nat /\ \A i \in 1 .. n : i \in Levels
<1>1. MaxLevel \in Nat \ {0}
  BY LinesAssumption
<1> QED
  BY <1>1 DEF Levels

\* The deepest level that is in use.
LEMMA DeepestIs ==
  ASSUME NEW stack \in [Levels -> Titles \cup {""}]
  PROVE  /\ Deepest(stack) \in 0 .. MaxLevel
         /\ \A i \in Levels : stack[i] # "" => i <= Deepest(stack)
<1> DEFINE S == {0} \cup {i \in Levels : stack[i] # ""}
<1>1. S \in SUBSET (0 .. MaxLevel) /\ S # {} /\ MaxLevel \in Nat
  <2>1. \A i \in Levels : i \in 0 .. MaxLevel
    BY LevelsAre
  <2>2. 0 \in 0 .. MaxLevel
    BY LevelsAre
  <2> QED
    BY <2>1, <2>2, LevelsAre
<1>2. \A i \in Levels : stack[i] # "" => i \in S
  OBVIOUS
<1>3. Deepest(stack) = Max(S)
  BY DEF Deepest
<1> HIDE DEF S
<1>4. Max(S) \in S /\ \A x \in S : x <= Max(S)
  BY <1>1, GreatestOf
<1> QED
  BY <1>1, <1>2, <1>3, <1>4

\* Observing a heading keeps a hierarchy one.
LEMMA ObserveTyped ==
  ASSUME NEW h \in Hierarchy, NEW line \in Line
  PROVE  Observe(h, line) \in Hierarchy
<1> DEFINE stack == [i \in Levels |-> IF i > line.level THEN ""
                                      ELSE IF i = line.level THEN line.title
                                      ELSE h.stack[i]]
           depth == IF line.level > h.depth THEN line.level ELSE Deepest(stack)
<1>1. line.level \in 0 .. MaxLevel /\ line.title \in Titles \cup {""}
  BY DEF Line
<1>2. h.stack \in [Levels -> Titles \cup {""}]
  BY DEF Hierarchy
<1>3. stack \in [Levels -> Titles \cup {""}]
  BY <1>1, <1>2
<1>4. Observe(h, line) = [stack |-> stack, depth |-> depth]
  BY DEF Observe
<1> HIDE DEF stack, depth
<1>5. Deepest(stack) \in 0 .. MaxLevel
  BY <1>3, DeepestIs
<1>6. depth \in 0 .. MaxLevel
  BY <1>1, <1>5 DEF depth
<1> DEFINE Stacks == [Levels -> Titles \cup {""}]
<1>7. Hierarchy = [stack : Stacks, depth : 0 .. MaxLevel] /\ stack \in Stacks
  BY <1>3 DEF Hierarchy
<1> HIDE DEF Stacks
<1> QED
  BY <1>4, <1>6, <1>7

\* The hierarchies that ObserveDeeper() goes through, line by line.
Walk(after, h, f, t, pos) ==
  /\ after \in [0 .. t -> Hierarchy]
  /\ ObserveDeeper(h, f, t, pos) = after[t]
  /\ \A j \in 0 .. t :
       after[j] = IF j < f THEN h
                  ELSE IF IsHeading(f, j) /\ doc[j].level > primary /\ doc[j].start <= pos
                  THEN Observe(after[j - 1], doc[j])
                  ELSE after[j - 1]

\* ObserveDeeper() is where such a walk ends.
LEMMA ObserveDeeperIs ==
  ASSUME doc \in Seq(Line), NEW h \in Hierarchy, NEW f \in Nat \ {0},
         NEW t \in 0 .. Len(doc), NEW pos
  PROVE  \E after : Walk(after, h, f, t, pos)
<1> DEFINE Taken(j) == IsHeading(f, j) /\ doc[j].level > primary /\ doc[j].start <= pos
           Goes(j, x) == IF j < f THEN h ELSE IF Taken(j) THEN Observe(x, doc[j]) ELSE x
           Step(a) == [j \in 0 .. t |-> IF j < f THEN h
                                        ELSE IF Taken(j) THEN Observe(a[j - 1], doc[j])
                                        ELSE a[j - 1]]
           g == [k \in 1 .. t |-> [x \in Hierarchy |-> Goes(k, x)]]
           after == CHOOSE a : a = Step(a)
<1>1. ObserveDeeper(h, f, t, pos) = after[t]
  BY DEF ObserveDeeper
<1>2. t \in Nat /\ Len(doc) \in Nat /\ \A j \in 1 .. t : doc[j] \in Line
  OBVIOUS
<1> HIDE DEF Taken
<1>3. \A j \in 1 .. t, x \in Hierarchy : Goes(j, x) \in Hierarchy
  BY <1>2, ObserveTyped
<1> HIDE DEF Goes
<1>4. g \in [1 .. t -> [Hierarchy -> Hierarchy]]
  BY <1>3
<1>5. PICK a \in [0 .. t -> Hierarchy] : Unrolled(a, t, h, g)
  <2> HIDE DEF g
  <2> QED
    BY <1>2, <1>4, RecursionFound
<1>6. \A k \in 1 .. t : a[k] = Goes(k, a[k - 1])
  <2> SUFFICES ASSUME NEW k \in 1 .. t PROVE g[k][a[k - 1]] = Goes(k, a[k - 1])
    BY <1>5 DEF Unrolled
  <2>1. a[k - 1] \in Hierarchy
    BY <1>2
  <2> QED
    BY <2>1
<1>7. a = Step(a)
  <2>1. ASSUME NEW j \in 0 .. t
        PROVE  a[j] = IF j < f THEN h ELSE IF Taken(j) THEN Observe(a[j - 1], doc[j]) ELSE a[j - 1]
    <3>1. CASE j = 0
      BY <1>5, <3>1 DEF Unrolled
    <3>2. CASE j \in 1 .. t
      BY <1>6, <3>2 DEF Goes
    <3> QED
      BY <1>2, <3>1, <3>2
  <2> HIDE DEF g
  <2> QED
    BY <2>1
<1>8. after = Step(after)
  <2> HIDE DEF Step
  <2> QED
    BY <1>7, Zenon
<1>9. \A b : b = Step(b) =>
        \A j \in 0 .. t : b[j] = IF j < f THEN h
                                 ELSE IF Taken(j) THEN Observe(b[j - 1], doc[j])
                                 ELSE b[j - 1]
  OBVIOUS
<1>10. after \in [0 .. t -> Hierarchy]
  <2> DEFINE P == {j \in 0 .. t : after[j] \in Hierarchy}
  <2>1. after = [j \in 0 .. t |-> after[j]]
    <3>1. \A b : b = Step(b) => b = [j \in 0 .. t |-> b[j]]
      OBVIOUS
    <3> HIDE DEF after, Step
    <3> QED
      BY <1>8, <3>1
  <2> HIDE DEF after
  <2>2. 0 \in P
    <3>1. 0 \in 0 .. t /\ 0 < f
      BY <1>2
    <3> HIDE DEF Step
    <3> QED
      BY <1>8, <1>9, <3>1
  <2>3. ASSUME NEW k \in 0 .. t - 1, k \in P PROVE k + 1 \in P
    <3>1. k + 1 \in 1 .. t /\ k + 1 \in 0 .. t /\ (k + 1) - 1 = k
      BY <1>2
    <3>2. after[k + 1] = Goes(k + 1, after[k])
      <4> HIDE DEF Step
      <4> QED
        BY <1>8, <1>9, <3>1 DEF Goes
    <3> QED
      BY <1>3, <2>3, <3>1, <3>2
  <2>4. 0 .. t \subseteq P
    <3> HIDE DEF P
    <3> QED
      BY <1>2, <2>2, <2>3, UpTo
  <2> QED
    BY <2>1, <2>4
<1>11. \A j \in 0 .. t : after[j] = IF j < f THEN h
                                    ELSE IF Taken(j) THEN Observe(after[j - 1], doc[j])
                                    ELSE after[j - 1]
  <2> HIDE DEF after, Step
  <2> QED
    BY <1>8, <1>9
<1> HIDE DEF after, Step
<1>12. Walk(after, h, f, t, pos)
  BY <1>1, <1>10, <1>11 DEF Taken, Walk
<1> QED
  BY <1>12

\* breadcrumb_with_hashes() goes through the levels one by one.
LEMMA BreadcrumbIs ==
  ASSUME NEW h \in Hierarchy
  PROVE  \E lines \in [0 .. h.depth -> Crumb] :
           /\ Breadcrumb(h) = lines[h.depth]
           /\ lines[0] = <<>>
           /\ \A i \in 1 .. h.depth :
                lines[i] = IF h.stack[i] = "" THEN lines[i - 1]
                           ELSE Append(lines[i - 1], <<i, h.stack[i]>>)
<1> DEFINE N == h.depth
           Goes(i, x) == IF h.stack[i] = "" THEN x ELSE Append(x, <<i, h.stack[i]>>)
           Step(a) == [i \in 0 .. N |-> IF i = 0 THEN <<>>
                                        ELSE IF h.stack[i] = "" THEN a[i - 1]
                                        ELSE Append(a[i - 1], <<i, h.stack[i]>>)]
           g == [k \in 1 .. N |-> [x \in Crumb |-> Goes(k, x)]]
           lines == CHOOSE a : a = Step(a)
<1>1. Breadcrumb(h) = lines[N]
  BY DEF Breadcrumb
<1>2. N \in Nat /\ \A i \in 1 .. N : i \in Levels
  <2>1. h.depth \in 0 .. MaxLevel
    BY DEF Hierarchy
  <2> QED
    BY <2>1, LevelsAre
<1>0. <<>> \in Crumb
  BY DEF Crumb
<1>3. \A i \in 1 .. N, x \in Crumb : Goes(i, x) \in Crumb
  <2> SUFFICES ASSUME NEW i \in 1 .. N, NEW x \in Crumb, h.stack[i] # ""
               PROVE  Append(x, <<i, h.stack[i]>>) \in Crumb
    OBVIOUS
  <2>1. h.stack[i] \in Titles /\ i \in Levels
    BY <1>2 DEF Hierarchy
  <2>2. <<i, h.stack[i]>> \in Levels \X Titles
    BY <2>1
  <2> HIDE DEF N
  <2> QED
    BY <2>2, AppendProperties DEF Crumb
<1>12. \A b : Step(b) = [i \in 0 .. N |-> IF i = 0 THEN <<>> ELSE Goes(i, b[i - 1])]
  OBVIOUS
<1> HIDE DEF N, Goes
<1>4. g \in [1 .. N -> [Crumb -> Crumb]]
  BY <1>3
<1>5. PICK a \in [0 .. N -> Crumb] : Unrolled(a, N, <<>>, g)
  <2> HIDE DEF g
  <2> QED
    BY <1>0, <1>2, <1>4, RecursionFound
<1>6. \A k \in 1 .. N : a[k] = Goes(k, a[k - 1])
  <2> SUFFICES ASSUME NEW k \in 1 .. N PROVE g[k][a[k - 1]] = Goes(k, a[k - 1])
    BY <1>5 DEF Unrolled
  <2>1. a[k - 1] \in Crumb
    BY <1>2
  <2> QED
    BY <2>1
<1>7. a = Step(a)
  <2> HIDE DEF g, Step
  <2>1. a = [i \in 0 .. N |-> IF i = 0 THEN <<>> ELSE Goes(i, a[i - 1])]
    BY <1>5, <1>6 DEF Unrolled
  <2> QED
    BY <1>12, <2>1
<1>8. lines = Step(lines)
  <2> HIDE DEF Step
  <2> QED
    BY <1>7, Zenon
<1>9. \A b : b = Step(b) =>
        /\ b = [i \in 0 .. N |-> b[i]]
        /\ N >= 0 => b[0] = <<>>
        /\ \A i \in 1 .. N : b[i] = Goes(i, b[i - 1])
  <2> HIDE DEF Step
  <2> QED
    BY <1>2, <1>12
<1>10. /\ lines = [i \in 0 .. N |-> lines[i]]
       /\ lines[0] = <<>>
       /\ \A i \in 1 .. N : lines[i] = Goes(i, lines[i - 1])
  <2> HIDE DEF lines, Step
  <2> QED
    BY <1>2, <1>8, <1>9
<1> HIDE DEF lines, Step
<1>11. lines \in [0 .. N -> Crumb]
  <2> DEFINE P == {i \in 0 .. N : lines[i] \in Crumb}
  <2>1. 0 \in P
    BY <1>0, <1>2, <1>10
  <2>2. ASSUME NEW k \in 0 .. N - 1, k \in P PROVE k + 1 \in P
    <3>1. k + 1 \in 1 .. N /\ k + 1 \in 0 .. N /\ (k + 1) - 1 = k
      BY <1>2
    <3> QED
      BY <1>3, <1>10, <2>2, <3>1
  <2>3. 0 .. N \subseteq P
    <3> HIDE DEF P
    <3> QED
      BY <1>2, <2>1, <2>2, UpTo
  <2> QED
    BY <1>10, <2>3
<1> QED
  BY <1>1, <1>10, <1>11 DEF Goes, N

\* The length of a text adds up the lengths of its pieces.
LEMMA TextLenIs ==
  ASSUME NEW text \in Seq(Piece)
  PROVE  \E sum \in [0 .. Len(text) -> Int] :
           /\ TextLen(text) = sum[Len(text)]
           /\ sum[0] = 0
           /\ \A k \in 1 .. Len(text) :
                sum[k] = sum[k - 1] + text[k].extra + (text[k].end - text[k].start)
<1> DEFINE N == Len(text)
           Goes(k, x) == x + text[k].extra + (text[k].end - text[k].start)
           Step(a) == [k \in 0 .. N |->
                         IF k = 0 THEN 0
                         ELSE a[k - 1] + text[k].extra + (text[k].end - text[k].start)]
           g == [k \in 1 .. N |-> [x \in Int |-> Goes(k, x)]]
           sum == CHOOSE a : a = Step(a)
<1>1. TextLen(text) = sum[N]
  BY DEF TextLen
<1>2. N \in Nat /\ \A k \in 1 .. N : /\ text[k].start \in Nat /\ text[k].end \in Nat
                                     /\ text[k].extra \in Nat
  <2>1. \A k \in 1 .. N : text[k] \in Piece
    OBVIOUS
  <2> QED
    BY <2>1 DEF Piece
<1>0. N \in Nat
  OBVIOUS
<1>3. \A k \in 1 .. N, x \in Int : Goes(k, x) \in Int
  BY <1>2, SMTT(30)
<1> HIDE DEF N, Goes
<1>4. g \in [1 .. N -> [Int -> Int]]
  BY <1>3
<1>5. PICK a \in [0 .. N -> Int] : Unrolled(a, N, 0, g)
  <2> HIDE DEF g
  <2>1. 0 \in Int
    OBVIOUS
  <2> QED
    BY <1>2, <1>4, <2>1, RecursionFound
<1>6. \A k \in 1 .. N : a[k] = Goes(k, a[k - 1])
  <2> SUFFICES ASSUME NEW k \in 1 .. N PROVE g[k][a[k - 1]] = Goes(k, a[k - 1])
    BY <1>5 DEF Unrolled
  <2>1. a[k - 1] \in Int
    BY <1>2
  <2> QED
    BY <2>1
<1>7. a = Step(a)
  <2> HIDE DEF g
  <2> QED
    BY <1>5, <1>6 DEF Goes, Unrolled
<1>8. sum = Step(sum)
  <2> HIDE DEF Step
  <2> QED
    BY <1>7, Zenon
<1>9. \A b : b = Step(b) =>
        /\ b = [i \in 0 .. N |-> b[i]]
        /\ N >= 0 => b[0] = 0
        /\ \A i \in 1 .. N : b[i] = Goes(i, b[i - 1])
  BY <1>0, SMTT(30) DEF Goes
<1>10. /\ sum = [i \in 0 .. N |-> sum[i]]
       /\ sum[0] = 0
       /\ \A i \in 1 .. N : sum[i] = Goes(i, sum[i - 1])
  <2> HIDE DEF sum, Step
  <2> QED
    BY <1>2, <1>8, <1>9
<1> HIDE DEF sum, Step
<1>11. sum \in [0 .. N -> Int]
  <2> DEFINE P == {i \in 0 .. N : sum[i] \in Int}
  <2>1. 0 \in P
    BY <1>2, <1>10
  <2>2. ASSUME NEW k \in 0 .. N - 1, k \in P PROVE k + 1 \in P
    <3>1. k + 1 \in 1 .. N /\ k + 1 \in 0 .. N /\ (k + 1) - 1 = k
      BY <1>2
    <3> QED
      BY <1>3, <1>10, <2>2, <3>1
  <2>3. 0 .. N \subseteq P
    <3> HIDE DEF P
    <3> QED
      BY <1>2, <2>1, <2>2, UpTo
  <2> QED
    BY <1>10, <2>3
<1> QED
  BY <1>1, <1>10, <1>11 DEF Goes, N

-------------------------------------------------------------------------------
\* A document's backbone is one of the levels, or it has none.
LEMMA DominantTyped == DominantLevel \in 0 .. MaxLevel
<1> DEFINE present == {l \in Levels : CountAt(l) > 0}
           backbone == {l \in Levels : CountAt(l) >= MinRepeats /\ CountAt(l) > 0}
<1>1. /\ backbone \in SUBSET Levels
      /\ {0} \cup present \in SUBSET (0 .. MaxLevel) /\ {0} \cup present # {}
  <2>1. present \in SUBSET Levels /\ backbone \in SUBSET Levels
    OBVIOUS
  <2> HIDE DEF present, backbone
  <2> QED
    BY <2>1, LevelsAre
<1>2. DominantLevel = IF backbone # {} THEN Min(backbone) ELSE Max({0} \cup present)
  BY DEF DominantLevel
<1> HIDE DEF present, backbone
<1>3. CASE backbone # {}
  <2>1. backbone \in SUBSET Nat
    BY <1>1, LevelsAre
  <2>2. Min(backbone) \in backbone
    BY <1>3, <2>1, LeastOf
  <2> QED
    BY <1>1, <1>2, <1>3, <2>2, LevelsAre
<1>4. CASE backbone = {}
  <2>1. Max({0} \cup present) \in {0} \cup present
    BY <1>1, GreatestOf, LevelsAre
  <2> QED
    BY <1>1, <1>2, <1>4, <2>1
<1> QED
  BY <1>3, <1>4

\* The shared breadcrumb is a prefix of both.
LEMMA SharedIs ==
  ASSUME NEW a \in Crumb, NEW b \in Crumb
  PROVE  LET p == SharedCrumb(a, b)
         IN  /\ p \in Crumb
             /\ Len(p) \in 0 .. Len(a) /\ Len(p) \in 0 .. Len(b)
             /\ \A i \in 1 .. Len(p) : p[i] = a[i] /\ p[i] = b[i]
<1> DEFINE E == Levels \X Titles
           S == {Len(a), Len(b)}
           m == Min(S)
           T == {n \in 0 .. m : \A i \in 1 .. n : a[i] = b[i]}
           n == Max(T)
           p == SubSeq(a, 1, n)
<1>1. a \in Seq(E) /\ b \in Seq(E)
  BY DEF Crumb
<1> HIDE DEF E
<1>2. Len(a) \in Nat /\ Len(b) \in Nat
  BY <1>1
<1>3. m \in Nat /\ m <= Len(a) /\ m <= Len(b)
  <2>1. S \in SUBSET Nat /\ S # {} /\ Len(a) \in S /\ Len(b) \in S
    BY <1>2
  <2> HIDE DEF S
  <2>2. m \in S /\ \A x \in S : m <= x
    BY <2>1, LeastOf
  <2> QED
    BY <2>1, <2>2
<1> HIDE DEF m
<1>4. T \in SUBSET (0 .. m) /\ T # {}
  <2>1. 0 \in T
    BY <1>3
  <2> QED
    BY <2>1
<1>5. n \in T
  <2> HIDE DEF T
  <2> QED
    BY <1>3, <1>4, GreatestOf
<1>6. n \in 0 .. m /\ \A i \in 1 .. n : a[i] = b[i]
  BY <1>5
<1>7. SharedCrumb(a, b) = p
  BY DEF SharedCrumb, m
<1> HIDE DEF n
<1>8. /\ p \in Seq(E) /\ Len(p) = n
      /\ \A i \in 1 .. n : p[i] = a[i]
  <2>1. n \in Nat /\ n <= Len(a)
    BY <1>2, <1>3, <1>6
  <2>2. \A i \in 1 .. n : a[i] \in E
    BY <1>1, <1>2, <2>1
  <2> QED
    BY <1>1, <1>2, <2>1, <2>2, SubSeqProperties
<1> HIDE DEF p
<1>9. n \in 0 .. Len(a) /\ n \in 0 .. Len(b)
  BY <1>2, <1>3, <1>6
<1> QED
  BY <1>6, <1>7, <1>8, <1>9 DEF Crumb, E

\* A chunk of one piece.
LEMMA MakeChunkTyped ==
  ASSUME NEW s \in Nat, NEW e \in Nat, NEW x \in Nat, NEW crumb \in Crumb
  PROVE  LET c == MakeChunk(s, e, x, crumb)
         IN  /\ c \in Chunk
             /\ c.start = s /\ c.end = e /\ c.crumb = crumb
             /\ Len(c.text) = 1
             /\ c.text[1] \in Piece
             /\ c.text[1].start = s /\ c.text[1].end = e /\ c.text[1].extra = x
<1> DEFINE p == [start |-> s, end |-> e, extra |-> x]
           c == MakeChunk(s, e, x, crumb)
<1>1. p \in Piece /\ p.start = s /\ p.end = e /\ p.extra = x
  BY DEF Piece
<1>2. c = [start |-> s, end |-> e, crumb |-> crumb, text |-> <<p>>]
  BY DEF MakeChunk
<1> HIDE DEF p, c
<1>3. <<p>> \in Seq(Piece) /\ Len(<<p>>) = 1 /\ <<p>>[1] = p
  BY <1>1
<1> DEFINE t == <<p>>
<1> HIDE DEF t
<1>4. t \in Seq(Piece) /\ Len(t) = 1 /\ t[1] = p
  BY <1>3 DEF t
<1>5. c = [start |-> s, end |-> e, crumb |-> crumb, text |-> t]
  BY <1>2 DEF t
<1>6. c \in Chunk
  BY <1>4, <1>5 DEF Chunk
<1> QED
  BY <1>1, <1>4, <1>5, <1>6 DEF c

\* Two chunks that are joined.
LEMMA JoinedTyped ==
  ASSUME NEW c \in Chunk, NEW d \in Chunk
  PROVE  /\ Joined(c, d) \in Chunk
         /\ Joined(c, d).start = c.start /\ Joined(c, d).end = d.end
         /\ Joined(c, d).text = c.text \o d.text
         /\ Joined(c, d).crumb = SharedCrumb(c.crumb, d.crumb)
<1>1. /\ c.start \in Nat /\ c.text \in Seq(Piece) /\ c.crumb \in Crumb
      /\ d.end \in Nat /\ d.text \in Seq(Piece) /\ d.crumb \in Crumb
  BY DEF Chunk
<1>2. SharedCrumb(c.crumb, d.crumb) \in Crumb
  BY <1>1, SharedIs
<1> DEFINE t == c.text \o d.text
           b == SharedCrumb(c.crumb, d.crumb)
<1>3. t \in Seq(Piece)
  BY <1>1
<1>4. Joined(c, d) = [start |-> c.start, end |-> d.end, text |-> t, crumb |-> b]
  BY DEF Joined
<1> HIDE DEF t, b
<1>5. Joined(c, d) \in Chunk
  BY <1>1, <1>2, <1>3, <1>4 DEF Chunk, b
<1>6. /\ Joined(c, d).start = c.start /\ Joined(c, d).end = d.end
      /\ Joined(c, d).text = t /\ Joined(c, d).crumb = b
  BY <1>4
<1> QED
  BY <1>5, <1>6 DEF t, b

\* Where split_text() may start its next chunk, where it may end, and which
\* header it may repeat.
LEMMA InnerFacts ==
  ASSUME CoverInv, pc \in {"inner", "fallback"},
         NEW s \in InnerStarts(out, StartOf(from)),
         NEW e \in InnerEnds(out, StartOf(from), StartOf(sec)),
         NEW x \in Headers(s, e)
  PROVE  /\ s \in Nat /\ e \in Nat /\ x \in Nat
         /\ StartOf(from) \in Nat /\ StartOf(from) <= s
         /\ s <= Reach(out) /\ Reach(out) < e /\ e <= StartOf(sec)
         /\ Reach(out) \in Nat
         /\ s = Reach(out) /\ x > 0 =>
              out # <<>> /\ TextLen(out[Len(out)].text) + x + (e - s) > size
<1> DEFINE lo == StartOf(from)
           hi == StartOf(sec)
           r == Reached(out, lo)
           last == out[Len(out)]
<1>1. /\ lo \in Nat /\ hi \in Nat /\ TextEnd \in Nat
      /\ lo <= Reach(out) /\ Reach(out) < hi
  BY StartsGrow DEF CoverInv, LinesOK, PhaseOK
<1>2. /\ Reach(out) \in Nat
      /\ out # <<>> => last.end = Reach(out) /\ last.start \in Nat
  BY <1>1, LastPlaced DEF CoverInv
<1>3. out = <<>> => Reach(out) = 0
  BY DEF Reach
<1>4. r = Reach(out)
  BY <1>1, <1>2, <1>3 DEF Reached
<1>5. e \in Nat /\ r < e /\ e <= hi
  BY <1>1, CutsAssumption DEF InnerEnds
<1>6. s \in Nat /\ lo <= s /\ s <= r
  <2>1. CASE r = lo
    BY <1>1, <2>1 DEF InnerStarts
  <2>2. CASE r # lo
    <3>1. s \in Cuts \cup {r} /\ lo <= s /\ s <= r
      BY <2>2 DEF InnerStarts
    <3> QED
      BY <1>2, <1>4, <3>1, CutsAssumption
  <2> QED
    BY <2>1, <2>2
<1>7. x \in Nat /\ (r = lo => x = 0) /\ (x > 0 /\ s = r => TextLen(last.text) + x + (e - s) > size)
  <2>1. CASE r = lo
    <3>1. x \in {0}
      BY <2>1 DEF Headers
    <3> QED
      BY <2>1, <3>1
  <2>2. CASE r # lo
    <3>1. x \in HeaderLens \cup {0} /\ (x > 0 /\ s = r => TextLen(last.text) + x + (e - s) > size)
      BY <2>2 DEF Headers
    <3> QED
      BY <2>2, <3>1, SizesAssumption
  <2> QED
    BY <2>1, <2>2
<1>8. x > 0 => out # <<>>
  BY <1>1, <1>3, <1>4, <1>7
<1> HIDE DEF lo, hi, r, last
<1>9. s = Reach(out) /\ x > 0 => out # <<>> /\ TextLen(last.text) + x + (e - s) > size
  BY <1>4, <1>7, <1>8
<1> QED
  BY <1>1, <1>2, <1>4, <1>5, <1>6, <1>7, <1>9 DEF lo, hi, last

-------------------------------------------------------------------------------
\* The breadcrumb of a hierarchy is one, and so is that of any position.
LEMMA BreadcrumbTyped ==
  ASSUME NEW h \in Hierarchy PROVE Breadcrumb(h) \in Crumb
<1>1. h.depth \in Nat
  <2>1. h.depth \in 0 .. MaxLevel
    BY DEF Hierarchy
  <2> QED
    BY <2>1, LevelsAre
<1>2. PICK lines \in [0 .. h.depth -> Crumb] : Breadcrumb(h) = lines[h.depth]
  BY BreadcrumbIs
<1> QED
  BY <1>1, <1>2

\* Such a walk ends with a hierarchy.
LEMMA ObserveDeeperTyped ==
  ASSUME doc \in Seq(Line), NEW h \in Hierarchy, NEW f \in Nat \ {0},
         NEW t \in 0 .. Len(doc), NEW pos
  PROVE  ObserveDeeper(h, f, t, pos) \in Hierarchy
<1>1. PICK after : Walk(after, h, f, t, pos)
  BY ObserveDeeperIs
<1>2. t \in 0 .. t
  OBVIOUS
<1> QED
  BY <1>1, <1>2 DEF Walk

\* An empty hierarchy is one.
LEMMA NewTyped == NewHierarchy \in Hierarchy
<1> DEFINE stack == [i \in Levels |-> ""]
           Stacks == [Levels -> Titles \cup {""}]
<1>1. stack \in Stacks
  OBVIOUS
<1>2. NewHierarchy = [stack |-> stack, depth |-> 0] /\ Hierarchy = [stack : Stacks, depth : 0 .. MaxLevel]
  BY DEF NewHierarchy, Hierarchy
<1> HIDE DEF stack, Stacks
<1> QED
  BY <1>1, <1>2, LevelsAre

\* The splitter starts with the right types.
LEMMA InitTyped == Init => TypeOK
<1> SUFFICES ASSUME Init PROVE TypeOK
  OBVIOUS
<1>1. /\ doc = <<>> /\ size \in Sizes /\ pc = "profile" /\ primary = 0
      /\ hier = NewHierarchy /\ seed = NewHierarchy /\ from = 1 /\ sec = 1
      /\ out = <<>> /\ cur = <<>> /\ nxt = 1 /\ result = <<>>
  BY DEF Init
<1>2. doc \in Seq(Line) /\ out \in Seq(Chunk) /\ result \in Seq(Chunk)
  BY <1>1
<1>3. Len(doc) = 0 /\ Len(out) = 0
  BY <1>1
<1>4. from \in 1 .. Len(doc) + 1 /\ sec \in 1 .. Len(doc) + 1 /\ nxt \in 1 .. Len(out) + 1
  BY <1>1, <1>3
<1>5. hier \in Hierarchy /\ seed \in Hierarchy
  BY <1>1, NewTyped
<1>6. size \in Nat \ {0} /\ primary \in 0 .. MaxLevel
  BY <1>1, SizesAssumption, LevelsAre
<1> QED
  BY <1>1, <1>2, <1>4, <1>5, <1>6 DEF TypeOK, Hierarchy

\* TypeOK, with the type of a hierarchy by its name.
LEMMA TypeIs ==
  TypeOK <=>
    /\ doc \in Seq(Line)
    /\ size \in Nat \ {0}
    /\ pc \in {"profile", "fallback", "split", "inner", "coalesce", "done"}
    /\ primary \in 0 .. MaxLevel
    /\ hier \in Hierarchy
    /\ seed \in Hierarchy
    /\ from \in 1 .. Len(doc) + 1
    /\ sec \in 1 .. Len(doc) + 1
    /\ out \in Seq(Chunk)
    /\ cur \in Chunk \cup {<<>>}
    /\ nxt \in 1 .. Len(out) + 1
    /\ result \in Seq(Chunk)
BY DEF TypeOK, Hierarchy

\* The same in the next state.
LEMMA TypeIsNext ==
  TypeOK' <=>
    /\ doc' \in Seq(Line)
    /\ size' \in Nat \ {0}
    /\ pc' \in {"profile", "fallback", "split", "inner", "coalesce", "done"}
    /\ primary' \in 0 .. MaxLevel
    /\ hier' \in Hierarchy
    /\ seed' \in Hierarchy
    /\ from' \in 1 .. Len(doc') + 1
    /\ sec' \in 1 .. Len(doc') + 1
    /\ out' \in Seq(Chunk)
    /\ cur' \in Chunk \cup {<<>>}
    /\ nxt' \in 1 .. Len(out') + 1
    /\ result' \in Seq(Chunk)
BY DEF TypeOK, Hierarchy

\* A line is read, or the reading ends.
LEMMA ReadTyped ==
  ASSUME TypeOK, CoverInv,
         (\E s \in LineShapes : ReadLine(s)) \/ ReturnNothing \/ FallBack \/ StartSections
  PROVE  TypeOK'
<1>1. CASE \E s \in LineShapes : ReadLine(s)
  <2>1. PICK s \in LineShapes : ReadLine(s)
    BY <1>1
  <2>2. CoverInv'
    BY <2>1, ReadLineKeeps
  <2>3. doc' \in Seq(Line) /\ from' \in 1 .. Len(doc') + 1 /\ sec' \in 1 .. Len(doc') + 1
    BY <2>2 DEF CoverInv, LinesOK
  <2>4. UNCHANGED <<size, pc, primary, hier, seed, out, cur, nxt, result>>
    BY <2>1 DEF ReadLine, sectionVars, mergeVars
  <2> QED
    BY <2>3, <2>4, TypeIs, TypeIsNext
<1>2. CASE ReturnNothing
  <2>1. UNCHANGED <<doc, size, primary, hier, seed, from, sec, out, cur, nxt, result>> /\ pc' = "done"
    BY <1>2 DEF ReturnNothing, sectionVars, mergeVars
  <2> QED
    BY <2>1, TypeIs, TypeIsNext
<1>3. CASE FallBack
  <2>1. /\ UNCHANGED <<doc, size, primary, hier, seed, from, out, cur, nxt, result>>
        /\ pc' = "fallback" /\ sec' = Len(doc) + 1
    BY <1>3 DEF FallBack, mergeVars
  <2>2. Len(doc) + 1 \in 1 .. Len(doc) + 1
    <3>1. doc \in Seq(Line)
      BY DEF TypeOK
    <3> QED
      BY <3>1
  <2> QED
    BY <2>1, <2>2, TypeIs, TypeIsNext
<1>4. CASE StartSections
  <2>1. /\ UNCHANGED <<doc, size, hier, seed, from, sec, out, cur, nxt, result>>
        /\ pc' = "split" /\ primary' = DominantLevel
    BY <1>4 DEF StartSections, mergeVars
  <2> QED
    BY <2>1, TypeIs, TypeIsNext, DominantTyped
<1> QED
  BY <1>1, <1>2, <1>3, <1>4

\* The hierarchies of a section.
LEMMA SectionTyped ==
  ASSUME TypeOK, NEW e \in 1 .. Len(doc) + 1, NextSection(e)
  PROVE  seed' \in Hierarchy /\ hier' \in Hierarchy
<1>1. /\ doc \in Seq(Line) /\ Len(doc) \in Nat /\ sec \in 1 .. Len(doc)
      /\ hier \in Hierarchy /\ e - 1 \in 0 .. Len(doc)
  BY TypeIs DEF NextSection
<1>2. seed' \in Hierarchy
  <2>1. doc[sec] \in Line
    BY <1>1
  <2>2. Observe(hier, doc[sec]) \in Hierarchy
    BY <1>1, <2>1, ObserveTyped
  <2> QED
    BY <1>1, <2>2 DEF NextSection
<1>3. hier' = ObserveDeeper(seed', sec, e - 1, TextEnd)
  BY DEF NextSection
<1> QED
  BY <1>1, <1>2, <1>3, ObserveDeeperTyped

\* The loop over the sections keeps the types.
LEMMA NextSectionTyped ==
  ASSUME TypeOK, CoverInv, NEW e \in 1 .. Len(doc) + 1, NextSection(e)
  PROVE  TypeOK'
<1>1. /\ UNCHANGED <<doc, size, primary, cur, nxt, result>>
      /\ pc' \in {"split", "inner"} /\ from' = sec /\ sec' = e
      /\ \/ out' = out
         \/ out' = Append(out, MakeChunk(StartOf(sec), StartOf(e), 0, Breadcrumb(seed')))
  BY DEF NextSection, mergeVars
<1>2. seed' \in Hierarchy /\ hier' \in Hierarchy
  BY SectionTyped
<1>3. StartOf(sec) \in Nat /\ StartOf(e) \in Nat
  BY StartsGrow DEF CoverInv
<1>4. Breadcrumb(seed') \in Crumb
  BY <1>2, BreadcrumbTyped
<1> DEFINE c == MakeChunk(StartOf(sec), StartOf(e), 0, Breadcrumb(seed'))
<1>5. c \in Chunk
  BY <1>3, <1>4, MakeChunkTyped
<1> HIDE DEF c
<1>6. out \in Seq(Chunk) /\ nxt \in 1 .. Len(out) + 1
  BY DEF TypeOK
<1>7. out' \in Seq(Chunk) /\ nxt' \in 1 .. Len(out') + 1
  <2>1. out' = out \/ out' = Append(out, c)
    BY <1>1 DEF c
  <2> QED
    BY <1>1, <1>5, <1>6, <2>1
<1> QED
  BY <1>1, <1>2, <1>7, TypeIs, TypeIsNext

\* The breadcrumb at a position of the section.
LEMMA CrumbAtTyped ==
  ASSUME TypeOK, NEW pos PROVE CrumbAt(pos) \in Crumb
<1>1. /\ doc \in Seq(Line) /\ seed \in Hierarchy /\ Len(doc) \in Nat
      /\ from \in Nat \ {0} /\ sec - 1 \in 0 .. Len(doc)
  BY TypeIs
<1> QED
  BY <1>1, ObserveDeeperTyped, BreadcrumbTyped DEF CrumbAt

\* So does every chunk of split_text().
LEMMA SplitTextTyped ==
  ASSUME TypeOK, CoverInv, SplitText
  PROVE  TypeOK'
<1>1. PICK s \in InnerStarts(out, StartOf(from)),
           e \in InnerEnds(out, StartOf(from), StartOf(sec)) :
        \E x \in Headers(s, e) :
          IF pc = "inner" THEN InnerChunk(s, e, x) ELSE FallbackChunk(s, e, x)
  BY DEF SplitText
<1>2. PICK x \in Headers(s, e) :
        IF pc = "inner" THEN InnerChunk(s, e, x) ELSE FallbackChunk(s, e, x)
  BY <1>1
<1>3. s \in Nat /\ e \in Nat /\ x \in Nat
  BY InnerFacts DEF SplitText
<1>4. PICK crumb \in Crumb : out' = Append(out, MakeChunk(s, e, x, crumb))
  <2>1. CrumbAt(s) \in Crumb
    BY CrumbAtTyped
  <2>2. <<>> \in Crumb
    BY DEF Crumb
  <2> QED
    BY <1>2, <2>1, <2>2 DEF InnerChunk, FallbackChunk
<1>5. /\ UNCHANGED <<doc, size, primary, hier, seed, from, sec, cur, nxt>>
      /\ pc' \in {"split", "inner", "done", pc}
      /\ result' = result \/ result' = out'
  BY <1>2 DEF InnerChunk, FallbackChunk, mergeVars
<1> DEFINE c == MakeChunk(s, e, x, crumb)
<1>6. c \in Chunk
  BY <1>3, MakeChunkTyped
<1>7. out' = Append(out, c)
  BY <1>4
<1> HIDE DEF c
<1>8. out \in Seq(Chunk) /\ nxt \in 1 .. Len(out) + 1
  BY DEF TypeOK
<1>9. out' \in Seq(Chunk) /\ nxt' \in 1 .. Len(out') + 1
  BY <1>5, <1>6, <1>7, <1>8
<1> QED
  BY <1>5, <1>9, TypeIs, TypeIsNext

\* While chunks are coalesced the one in hand is a chunk.
HandOK == pc = "coalesce" => cur \in Chunk

\* Coalescing works on chunks.
LEMMA CoalesceTyped ==
  ASSUME TypeOK, CoverInv, HandOK, StartCoalescing \/ Coalesce \/ FinishCoalescing
  PROVE  TypeOK' /\ HandOK'
<1>1. /\ out \in Seq(Chunk) /\ result \in Seq(Chunk) /\ Len(out) \in Nat
      /\ nxt \in 1 .. Len(out) + 1
  <2>1. out \in Seq(Chunk) /\ result \in Seq(Chunk) /\ nxt \in 1 .. Len(out) + 1
    BY DEF TypeOK
  <2> QED
    BY <2>1
<1>2. CASE StartCoalescing
  <2>1. /\ UNCHANGED <<doc, size, primary, hier, seed, from, sec, out>>
        /\ \/ pc' = "done" /\ result' = out /\ UNCHANGED <<cur, nxt>>
           \/ ~ (Len(out) <= 1) /\ pc' = "coalesce" /\ cur' = out[1] /\ nxt' = 2
                /\ UNCHANGED result
    BY <1>2 DEF StartCoalescing, sectionVars
  <2>2. CASE pc' = "done" /\ result' = out /\ UNCHANGED <<cur, nxt>>
    BY <2>1, <2>2, TypeIs, TypeIsNext DEF HandOK
  <2>3. CASE ~ (Len(out) <= 1) /\ pc' = "coalesce" /\ cur' = out[1] /\ nxt' = 2
               /\ UNCHANGED result
    <3>1. out[1] \in Chunk /\ 2 \in 1 .. Len(out) + 1
      BY <1>1, <2>3
    <3> QED
      BY <2>1, <2>3, <3>1, TypeIs, TypeIsNext DEF HandOK
  <2> QED
    BY <2>1, <2>2, <2>3
<1>3. CASE Coalesce
  <2> DEFINE d == out[nxt]
  <2>1. /\ pc = "coalesce" /\ nxt <= Len(out) /\ nxt' = nxt + 1
        /\ UNCHANGED <<doc, size, pc, primary, hier, seed, from, sec, out>>
        /\ \/ cur' = Joined(cur, d) /\ result' = result
           \/ cur' = d /\ result' = Append(result, cur)
    BY <1>3 DEF Coalesce, sectionVars
  <2>2. cur \in Chunk /\ d \in Chunk /\ nxt + 1 \in 1 .. Len(out) + 1
    BY <1>1, <2>1 DEF HandOK
  <2> HIDE DEF d
  <2>3. cur' \in Chunk
    BY <2>1, <2>2, JoinedTyped
  <2>4. result' \in Seq(Chunk)
    BY <1>1, <2>1, <2>2
  <2> QED
    BY <2>1, <2>2, <2>3, <2>4, TypeIs, TypeIsNext DEF HandOK
<1>4. CASE FinishCoalescing
  <2>1. /\ pc = "coalesce" /\ pc' = "done" /\ result' = Append(result, cur)
        /\ UNCHANGED <<doc, size, primary, hier, seed, from, sec, out, cur, nxt>>
    BY <1>4 DEF FinishCoalescing, sectionVars
  <2>2. cur \in Chunk
    BY <2>1 DEF HandOK
  <2>3. result' \in Seq(Chunk)
    BY <1>1, <2>1, <2>2
  <2> QED
    BY <2>1, <2>3, TypeIs, TypeIsNext DEF HandOK
<1> QED
  BY <1>2, <1>3, <1>4

\* Every step keeps the types.
LEMMA StepTyped ==
  ASSUME TypeOK, HandOK, CoverInv, [Next]_vars
  PROVE  TypeOK' /\ HandOK'
<1>1. CASE (\E s \in LineShapes : ReadLine(s)) \/ ReturnNothing \/ FallBack \/ StartSections
  <2>1. pc' # "coalesce"
    BY <1>1 DEF ReadLine, ReturnNothing, FallBack, StartSections
  <2> QED
    BY <1>1, <2>1, ReadTyped DEF HandOK
<1>2. CASE \E e \in 1 .. Len(doc) + 1 : NextSection(e)
  <2>1. pc' # "coalesce"
    BY <1>2 DEF NextSection
  <2> QED
    BY <1>2, <2>1, NextSectionTyped DEF HandOK
<1>3. CASE SplitText
  <2>1. pc' # "coalesce"
    BY <1>3 DEF SplitText, InnerChunk, FallbackChunk
  <2> QED
    BY <1>3, <2>1, SplitTextTyped DEF HandOK
<1>4. CASE StartCoalescing \/ Coalesce \/ FinishCoalescing
  BY <1>4, CoalesceTyped
<1>5. CASE UNCHANGED vars
  BY <1>5 DEF vars, TypeOK, HandOK
<1> QED
  BY <1>1, <1>2, <1>3, <1>4, <1>5, StepCases

\* The variables have their types, whatever the document is.
THEOREM HeadingTypesCorrect == Spec => []TypeOK
<1>1. Init => HandOK
  BY DEF Init, HandOK
<1>2. CoverInv /\ TypeOK /\ HandOK /\ [Next]_vars => TypeOK' /\ HandOK'
  BY StepTyped
<1> QED
  BY <1>1, <1>2, InitTyped, ChunksArePlaced, PTL DEF Spec

-------------------------------------------------------------------------------
\* The length of one piece of a text, with the header it repeats.
PieceLen(p) == p.extra + (p.end - p.start)

\* One more piece makes a text longer by its length.
LEMMA TextLenAppend ==
  ASSUME NEW t \in Seq(Piece), NEW p \in Piece
  PROVE  /\ TextLen(t) \in Int
         /\ t \o <<p>> = Append(t, p)
         /\ TextLen(Append(t, p)) = TextLen(t) + PieceLen(p)
<1> DEFINE u == Append(t, p)
           N == Len(t)
<1>1. /\ N \in Nat /\ u \in Seq(Piece) /\ Len(u) = N + 1
      /\ u[N + 1] = p /\ \A k \in 1 .. N : u[k] = t[k]
      /\ t \o <<p>> = u
  OBVIOUS
<1>2. PICK f \in [0 .. N -> Int] :
        /\ TextLen(t) = f[N]
        /\ f[0] = 0
        /\ \A k \in 1 .. N : f[k] = f[k - 1] + t[k].extra + (t[k].end - t[k].start)
  BY TextLenIs
<1> HIDE DEF u
<1>3. PICK g \in [0 .. Len(u) -> Int] :
        /\ TextLen(u) = g[Len(u)]
        /\ g[0] = 0
        /\ \A k \in 1 .. Len(u) : g[k] = g[k - 1] + u[k].extra + (u[k].end - u[k].start)
  BY <1>1, TextLenIs
<1> HIDE DEF N
<1>4. f[N] = g[N]
  <2> DEFINE P == {k \in 0 .. N : f[k] = g[k]}
  <2>1. 0 \in P
    BY <1>1, <1>2, <1>3
  <2>2. ASSUME NEW k \in 0 .. N - 1, k \in P PROVE k + 1 \in P
    <3>1. k + 1 \in 1 .. N /\ k + 1 \in 1 .. Len(u) /\ (k + 1) - 1 = k /\ k + 1 \in 0 .. N
      BY <1>1
    <3>2. f[k + 1] = f[k] + t[k + 1].extra + (t[k + 1].end - t[k + 1].start)
      BY <1>2, <3>1
    <3>3. g[k + 1] = g[k] + u[k + 1].extra + (u[k + 1].end - u[k + 1].start)
      BY <1>3, <3>1
    <3>4. u[k + 1] = t[k + 1] /\ f[k] = g[k]
      BY <1>1, <2>2, <3>1
    <3> QED
      BY <3>1, <3>2, <3>3, <3>4
  <2>3. 0 .. N \subseteq P
    <3> HIDE DEF P
    <3> QED
      BY <1>1, <2>1, <2>2, UpTo
  <2>4. N \in 0 .. N
    BY <1>1
  <2> QED
    BY <2>3, <2>4
<1>5. g[N + 1] = g[N] + p.extra + (p.end - p.start)
  <2>1. N + 1 \in 1 .. Len(u) /\ (N + 1) - 1 = N
    BY <1>1
  <2> QED
    BY <1>1, <1>3, <2>1
<1>6. g[N] \in Int /\ p.extra \in Int /\ p.end \in Int /\ p.start \in Int
  <2>1. N \in 0 .. Len(u)
    BY <1>1
  <2>2. g[N] \in Int
    BY <1>3, <2>1
  <2>3. p.extra \in Nat /\ p.end \in Nat /\ p.start \in Nat
    BY DEF Piece
  <2> QED
    BY <2>2, <2>3
<1>7. TextLen(u) = g[N + 1] /\ TextLen(t) = g[N]
  BY <1>1, <1>2, <1>3, <1>4
<1>8. TextLen(u) = TextLen(t) + PieceLen(p)
  BY <1>5, <1>6, <1>7 DEF PieceLen
<1> QED
  BY <1>1, <1>6, <1>7, <1>8 DEF u

\* A text of one piece is as long as it.
LEMMA TextLenOne ==
  ASSUME NEW t \in Seq(Piece), Len(t) = 1
  PROVE  t = <<t[1]>> /\ t[1] \in Piece /\ TextLen(t) = PieceLen(t[1])
<1>1. t = <<t[1]>> /\ t[1] \in Piece
  OBVIOUS
<1>2. PICK f \in [0 .. 1 -> Int] :
        /\ TextLen(t) = f[1]
        /\ f[0] = 0
        /\ \A k \in 1 .. 1 : f[k] = f[k - 1] + t[k].extra + (t[k].end - t[k].start)
  <2>1. PICK f \in [0 .. Len(t) -> Int] :
          /\ TextLen(t) = f[Len(t)]
          /\ f[0] = 0
          /\ \A k \in 1 .. Len(t) : f[k] = f[k - 1] + t[k].extra + (t[k].end - t[k].start)
    BY TextLenIs
  <2> QED
    BY <2>1
<1>3. f[1] = f[0] + t[1].extra + (t[1].end - t[1].start)
  BY <1>2
<1>4. t[1].extra \in Int /\ t[1].end \in Int /\ t[1].start \in Int
  BY <1>1 DEF Piece
<1> QED
  BY <1>1, <1>2, <1>3, <1>4 DEF PieceLen

\* A text is at least as long as its last piece.
LEMMA TextLenLast ==
  ASSUME NEW t \in Seq(Piece), Len(t) > 0,
         \A k \in 1 .. Len(t) : t[k].start <= t[k].end
  PROVE  TextLen(t) >= PieceLen(t[Len(t)]) /\ PieceLen(t[Len(t)]) \in Nat
<1> DEFINE N == Len(t)
<1>1. N \in Nat /\ N > 0
  OBVIOUS
<1>2. PICK f \in [0 .. N -> Int] :
        /\ TextLen(t) = f[N]
        /\ f[0] = 0
        /\ \A k \in 1 .. N : f[k] = f[k - 1] + t[k].extra + (t[k].end - t[k].start)
  BY TextLenIs
<1>3. \A k \in 1 .. N : /\ PieceLen(t[k]) \in Nat
                        /\ f[k] = f[k - 1] + PieceLen(t[k])
  <2> SUFFICES ASSUME NEW k \in 1 .. N
               PROVE  PieceLen(t[k]) \in Nat /\ f[k] = f[k - 1] + PieceLen(t[k])
    OBVIOUS
  <2>1. t[k] \in Piece
    OBVIOUS
  <2>2. /\ t[k].extra \in Nat /\ t[k].end \in Nat /\ t[k].start \in Nat
        /\ t[k].start <= t[k].end
    BY <2>1 DEF Piece
  <2>3. f[k - 1] \in Int
    BY <1>1, <1>2
  <2>4. f[k] = f[k - 1] + t[k].extra + (t[k].end - t[k].start)
    BY <1>2
  <2> QED
    BY <2>2, <2>3, <2>4, SMTT(30) DEF PieceLen
<1> HIDE DEF N
<1> DEFINE P == {k \in 0 .. N : f[k] >= 0}
<1>4. 0 \in P
  BY <1>1, <1>2
<1>5. ASSUME NEW k \in 0 .. N - 1, k \in P PROVE k + 1 \in P
  <2>1. k + 1 \in 1 .. N /\ (k + 1) - 1 = k /\ k + 1 \in 0 .. N
    BY <1>1
  <2>2. f[k + 1] = f[k] + PieceLen(t[k + 1]) /\ PieceLen(t[k + 1]) \in Nat
    BY <1>3, <2>1
  <2>3. f[k] \in Int
    BY <1>1, <1>2
  <2> QED
    BY <1>5, <2>1, <2>2, <2>3
<1>6. N - 1 \in P
  <2>1. 0 .. N \subseteq P
    <3> HIDE DEF P
    <3> QED
      BY <1>1, <1>4, <1>5, UpTo
  <2>2. N - 1 \in 0 .. N
    BY <1>1
  <2> QED
    BY <2>1, <2>2
<1>7. N \in 1 .. N /\ f[N - 1] \in Int
  BY <1>1, <1>2
<1>8. f[N] = f[N - 1] + PieceLen(t[N]) /\ PieceLen(t[N]) \in Nat
  BY <1>3, <1>7
<1> QED
  BY <1>2, <1>6, <1>7, <1>8 DEF N

-------------------------------------------------------------------------------
\* What ChunksAreStretches says of one chunk, with pieces that end after they start.
Whole(c) ==
  /\ Len(c.text) > 0
  /\ c.start = c.text[1].start
  /\ c.end = c.text[Len(c.text)].end
  /\ \A k \in 1 .. Len(c.text) - 1 :
       /\ c.text[k + 1].start = c.text[k].end
       /\ c.text[k + 1].extra = 0
  /\ \A k \in 1 .. Len(c.text) : c.text[k].start <= c.text[k].end

\* A repeated header that could be buried makes the next chunk too long to be joined.
Guarded(c, d) ==
  d.text[1].extra > 0 /\ d.start = c.end => TextLen(c.text) + TextLen(d.text) > size

\* The strengthening of ChunksAreStretches: before coalescing
\* every chunk is one piece, and the chunk in hand ends with the last one taken in.
TextInv ==
  /\ \A i \in 1 .. Len(out) : Len(out[i].text) = 1 /\ Whole(out[i])
  /\ \A i \in 1 .. Len(out) - 1 : Guarded(out[i], out[i + 1])
  /\ pc = "coalesce" =>
       Whole(cur) /\ cur.text[Len(cur.text)] = out[nxt - 1].text[1]
  /\ \A i \in 1 .. Len(result) : Whole(result[i])

\* A new chunk is whole, and has the length of its stretch and its header.
LEMMA MadeWhole ==
  ASSUME NEW s \in Nat, NEW e \in Nat, NEW x \in Nat, NEW crumb \in Crumb, s <= e
  PROVE  LET c == MakeChunk(s, e, x, crumb)
         IN  /\ Len(c.text) = 1 /\ Whole(c)
             /\ c.text[1].extra = x /\ c.start = s
             /\ TextLen(c.text) = x + (e - s)
<1> DEFINE c == MakeChunk(s, e, x, crumb)
<1>1. /\ c \in Chunk /\ c.start = s /\ c.end = e /\ Len(c.text) = 1
      /\ c.text[1] \in Piece
      /\ c.text[1].start = s /\ c.text[1].end = e /\ c.text[1].extra = x
  BY MakeChunkTyped
<1> HIDE DEF c
<1>2. c.text \in Seq(Piece)
  BY <1>1 DEF Chunk
<1>3. TextLen(c.text) = x + (e - s)
  BY <1>1, <1>2, TextLenOne DEF PieceLen
<1>4. Whole(c)
  BY <1>1 DEF Whole
<1> QED
  BY <1>1, <1>3, <1>4 DEF c

\* A section that is a chunk repeats no header.
LEMMA MadeBare ==
  ASSUME NEW s \in Nat, NEW e \in Nat, NEW crumb \in Crumb, s <= e
  PROVE  LET c == MakeChunk(s, e, 0, crumb)
         IN  Len(c.text) = 1 /\ Whole(c) /\ c.text[1].extra = 0
<1> DEFINE c == MakeChunk(s, e, 0, crumb)
<1>1. /\ c \in Chunk /\ c.start = s /\ c.end = e /\ Len(c.text) = 1
      /\ c.text[1] \in Piece
      /\ c.text[1].start = s /\ c.text[1].end = e /\ c.text[1].extra = 0
  BY MakeChunkTyped
<1> HIDE DEF c
<1>2. Whole(c)
  BY <1>1 DEF Whole
<1> QED
  BY <1>1, <1>2 DEF c

\* Joining a guarded chunk to a whole one.
LEMMA JoinedWhole ==
  ASSUME NEW c \in Chunk, NEW d \in Chunk, NEW b \in Chunk, size \in Nat,
         Whole(c), Whole(d), Whole(b), Len(d.text) = 1, Len(b.text) = 1,
         c.text[Len(c.text)] = b.text[1], Guarded(b, d), Joinable(c, d)
  PROVE  /\ Whole(Joined(c, d))
         /\ LET t == Joined(c, d).text IN t[Len(t)] = d.text[1]
         /\ Len(Joined(c, d).text) > 1
<1> DEFINE j == Joined(c, d)
           t == c.text
           p == d.text[1]
<1>1. /\ t \in Seq(Piece) /\ d.text \in Seq(Piece) /\ b.text \in Seq(Piece)
      /\ c.start \in Nat /\ c.end \in Nat /\ d.start \in Nat /\ d.end \in Nat
  BY DEF Chunk
<1>2. /\ d.text = <<p>> /\ p \in Piece /\ TextLen(d.text) = PieceLen(p)
      /\ b.text[1] \in Piece /\ TextLen(b.text) = PieceLen(b.text[1])
  BY <1>1, TextLenOne
<1>3. /\ c.end = d.start /\ TextLen(t) + TextLen(d.text) <= size
  BY DEF Joinable
<1>4. /\ j.start = c.start /\ j.end = d.end /\ j.text = Append(t, p)
      /\ TextLen(j.text) = TextLen(t) + PieceLen(p) /\ TextLen(t) \in Int
  <2>1. j.start = c.start /\ j.end = d.end /\ j.text = t \o d.text
    BY JoinedTyped
  <2>2. t \o d.text = t \o <<p>>
    BY <1>2
  <2> HIDE DEF j, t, p
  <2> QED
    BY <1>1, <1>2, <2>1, <2>2, TextLenAppend
<1>5. TextLen(j.text) <= size
  BY <1>2, <1>3, <1>4
<1>6. /\ d.start = p.start /\ d.end = p.end /\ p.start <= p.end
      /\ b.end = b.text[1].end
  BY DEF Whole
<1>7. c.end = t[Len(t)].end
  BY DEF Whole
<1>8. /\ Len(t) > 0 /\ Len(t) \in Nat
      /\ c.start = t[1].start
      /\ \A k \in 1 .. Len(t) - 1 : t[k + 1].start = t[k].end /\ t[k + 1].extra = 0
      /\ \A k \in 1 .. Len(t) : t[k].start <= t[k].end
  BY <1>1 DEF Whole
<1>9. p.extra = 0
  <2>1. TextLen(t) >= PieceLen(b.text[1]) /\ PieceLen(b.text[1]) \in Nat
    BY <1>1, <1>8, TextLenLast
  <2>2. b.end = d.start
    BY <1>3, <1>6, <1>7
  <2>3. /\ p.extra \in Nat /\ PieceLen(p) \in Int
    <3>1. p.extra \in Nat /\ p.end \in Nat /\ p.start \in Nat
      BY <1>2 DEF Piece
    <3> QED
      BY <3>1 DEF PieceLen
  <2>4. ~ (TextLen(b.text) + TextLen(d.text) > size)
    BY <1>2, <1>3, <1>4, <2>1, <2>3
  <2>5. ~ (p.extra > 0)
    BY <2>2, <2>4 DEF Guarded
  <2> QED
    BY <2>3, <2>5
<1> DEFINE u == Append(t, p)
<1> HIDE DEF j, p, t
<1>10. /\ Len(u) = Len(t) + 1 /\ u[Len(t) + 1] = p
       /\ \A k \in 1 .. Len(t) : u[k] = t[k]
  BY <1>1, <1>2
<1> HIDE DEF u
<1>11. \A k \in 1 .. Len(u) - 1 : u[k + 1].start = u[k].end /\ u[k + 1].extra = 0
  <2> SUFFICES ASSUME NEW k \in 1 .. Len(t)
               PROVE  u[k + 1].start = u[k].end /\ u[k + 1].extra = 0
    BY <1>8, <1>10
  <2>1. CASE k = Len(t)
    BY <1>3, <1>6, <1>7, <1>9, <1>10, <2>1
  <2>2. CASE k \in 1 .. Len(t) - 1
    <3>1. k + 1 \in 1 .. Len(t)
      BY <1>8, <2>2
    <3> QED
      BY <1>8, <1>10, <2>2, <3>1
  <2> QED
    BY <1>8, <2>1, <2>2
<1>12. \A k \in 1 .. Len(u) : u[k].start <= u[k].end
  <2> SUFFICES ASSUME NEW k \in 1 .. Len(t) + 1 PROVE u[k].start <= u[k].end
    BY <1>8, <1>10
  <2>1. CASE k = Len(t) + 1
    BY <1>6, <1>10, <2>1
  <2>2. CASE k \in 1 .. Len(t)
    BY <1>8, <1>10, <2>2
  <2> QED
    BY <1>8, <2>1, <2>2
<1>13. j.text = u
  BY <1>4 DEF u
<1>14. Whole(j)
  <2>1. u[1] = t[1]
    BY <1>8, <1>10
  <2>2. j.start = u[1].start /\ j.end = u[Len(u)].end /\ Len(u) > 0
    BY <1>4, <1>6, <1>8, <1>10, <2>1
  <2> QED
    BY <1>11, <1>12, <1>13, <2>2 DEF Whole
<1>16. Len(j.text) > 1 /\ j.text[Len(j.text)] = p
  BY <1>8, <1>10, <1>13
<1> QED
  BY <1>14, <1>16 DEF j, p

-------------------------------------------------------------------------------
\* What is appended to the chunks keeps them whole and guarded.
LEMMA OutKeeps ==
  ASSUME TextInv, out \in Seq(Chunk), NEW c \in Chunk,
         Len(c.text) = 1, Whole(c),
         out # <<>> => Guarded(out[Len(out)], c)
  PROVE  LET o == Append(out, c)
         IN  /\ o \in Seq(Chunk)
             /\ \A i \in 1 .. Len(o) : Len(o[i].text) = 1 /\ Whole(o[i])
             /\ \A i \in 1 .. Len(o) - 1 : Guarded(o[i], o[i + 1])
<1> DEFINE o == Append(out, c)
           N == Len(out)
<1>1. /\ N \in Nat /\ o \in Seq(Chunk) /\ Len(o) = N + 1 /\ o[N + 1] = c
      /\ \A i \in 1 .. N : o[i] = out[i]
      /\ N > 0 => out # <<>>
  OBVIOUS
<1> HIDE DEF o
<1>2. \A i \in 1 .. N + 1 : Len(o[i].text) = 1 /\ Whole(o[i])
  <2> SUFFICES ASSUME NEW i \in 1 .. N + 1 PROVE Len(o[i].text) = 1 /\ Whole(o[i])
    OBVIOUS
  <2>1. CASE i = N + 1
    BY <1>1, <2>1
  <2>2. CASE i \in 1 .. N
    BY <1>1, <2>2 DEF TextInv
  <2> QED
    BY <1>1, <2>1, <2>2
<1>3. \A i \in 1 .. N : Guarded(o[i], o[i + 1])
  <2> SUFFICES ASSUME NEW i \in 1 .. N PROVE Guarded(o[i], o[i + 1])
    OBVIOUS
  <2>1. CASE i = N
    BY <1>1, <2>1
  <2>2. CASE i \in 1 .. N - 1
    <3>1. i + 1 \in 1 .. N
      BY <1>1, <2>2
    <3> QED
      BY <1>1, <2>2, <3>1 DEF TextInv
  <2> QED
    BY <1>1, <2>1, <2>2
<1> QED
  BY <1>1, <1>2, <1>3 DEF o

\* The same for what is appended to the chunks returned.
LEMMA ResultKeeps ==
  ASSUME TextInv, result \in Seq(Chunk), NEW c \in Chunk, Whole(c)
  PROVE  LET o == Append(result, c)
         IN  \A i \in 1 .. Len(o) : Whole(o[i])
<1> DEFINE o == Append(result, c)
           N == Len(result)
<1>1. /\ N \in Nat /\ Len(o) = N + 1 /\ o[N + 1] = c
      /\ \A i \in 1 .. N : o[i] = result[i]
  OBVIOUS
<1> HIDE DEF o
<1>2. \A i \in 1 .. N + 1 : Whole(o[i])
  <2> SUFFICES ASSUME NEW i \in 1 .. N + 1 PROVE Whole(o[i])
    OBVIOUS
  <2>1. CASE i = N + 1
    BY <1>1, <2>1
  <2>2. CASE i \in 1 .. N
    BY <1>1, <2>2 DEF TextInv
  <2> QED
    BY <1>1, <2>1, <2>2
<1> QED
  BY <1>1, <1>2 DEF o

\* The parts of TextInv in the next state.
LEMMA TextNext ==
  ASSUME size' = size,
         \A i \in 1 .. Len(out') : Len(out'[i].text) = 1 /\ Whole(out'[i]),
         \A i \in 1 .. Len(out') - 1 : Guarded(out'[i], out'[i + 1]),
         pc' = "coalesce" =>
           Whole(cur') /\ cur'.text[Len(cur'.text)] = out'[nxt' - 1].text[1],
         \A i \in 1 .. Len(result') : Whole(result'[i])
  PROVE  TextInv'
BY DEF TextInv, Guarded, Whole, TextLen

\* Every step keeps TextInv.
LEMMA TextStep ==
  ASSUME TypeOK, HandOK, CoverInv, TextInv, [Next]_vars
  PROVE  TextInv'
<1>0. /\ out \in Seq(Chunk) /\ result \in Seq(Chunk) /\ size \in Nat
      /\ nxt \in 1 .. Len(out) + 1
  BY DEF TypeOK
<1>00. Len(out) \in Nat
  BY <1>0
<1>1. CASE \/ \E s \in LineShapes : ReadLine(s)
           \/ ReturnNothing \/ FallBack \/ StartSections \/ UNCHANGED vars
  <2>1. UNCHANGED <<size, out, cur, nxt, result>> /\ (pc' = "coalesce" => pc = "coalesce")
    BY <1>1 DEF ReadLine, ReturnNothing, FallBack, StartSections, vars, sectionVars, mergeVars
  <2> QED
    BY <2>1, TextNext DEF TextInv
<1>2. CASE \E e \in 1 .. Len(doc) + 1 : NextSection(e)
  <2>1. PICK e \in 1 .. Len(doc) + 1 : NextSection(e)
    BY <1>2
  <2>2. /\ UNCHANGED <<size, cur, nxt, result>> /\ pc' # "coalesce"
        /\ \/ out' = out
           \/ out' = Append(out, MakeChunk(StartOf(sec), StartOf(e), 0, Breadcrumb(seed')))
    BY <2>1 DEF NextSection, mergeVars
  <2>3. CASE out' = out
    BY <2>2, <2>3, TextNext DEF TextInv
  <2>4. CASE out' = Append(out, MakeChunk(StartOf(sec), StartOf(e), 0, Breadcrumb(seed')))
    <3> DEFINE c == MakeChunk(StartOf(sec), StartOf(e), 0, Breadcrumb(seed'))
    <3>1. StartOf(sec) \in Nat /\ StartOf(e) \in Nat /\ StartOf(sec) <= StartOf(e)
      <4>1. sec < e
        BY <2>1 DEF NextSection, SectionEnd
      <4>2. StartOf(sec) < StartOf(e) /\ StartOf(sec) \in Nat /\ StartOf(e) \in Nat
        BY <4>1, StartsGrow DEF CoverInv
      <4> QED
        BY <4>2
    <3>2. Breadcrumb(seed') \in Crumb
      BY <2>1, SectionTyped, BreadcrumbTyped
    <3>3. c \in Chunk
      BY <3>1, <3>2, MakeChunkTyped
    <3>4. Len(c.text) = 1 /\ Whole(c) /\ c.text[1].extra = 0
      BY <3>1, <3>2, MadeBare
    <3>5. out' = Append(out, c)
      BY <2>4
    <3> HIDE DEF c
    <3>6. \A b : Guarded(b, c)
      BY <3>4 DEF Guarded
    <3>7. /\ \A i \in 1 .. Len(out') : Len(out'[i].text) = 1 /\ Whole(out'[i])
          /\ \A i \in 1 .. Len(out') - 1 : Guarded(out'[i], out'[i + 1])
      BY <1>0, <3>3, <3>4, <3>5, <3>6, OutKeeps
    <3> QED
      BY <2>2, <3>7, TextNext DEF TextInv
  <2> QED
    BY <2>2, <2>3, <2>4
<1>3. CASE SplitText
  <2>1. PICK s \in InnerStarts(out, StartOf(from)),
             e \in InnerEnds(out, StartOf(from), StartOf(sec)) :
          \E x \in Headers(s, e) :
            IF pc = "inner" THEN InnerChunk(s, e, x) ELSE FallbackChunk(s, e, x)
    BY <1>3 DEF SplitText
  <2>2. PICK x \in Headers(s, e) :
          IF pc = "inner" THEN InnerChunk(s, e, x) ELSE FallbackChunk(s, e, x)
    BY <2>1
  <2>3. pc \in {"inner", "fallback"}
    BY <1>3 DEF SplitText
  <2>4. /\ s \in Nat /\ e \in Nat /\ x \in Nat /\ s <= Reach(out) /\ Reach(out) < e
        /\ Reach(out) \in Nat
        /\ s = Reach(out) /\ x > 0 =>
             out # <<>> /\ TextLen(out[Len(out)].text) + x + (e - s) > size
    BY <2>3, InnerFacts
  <2>5. PICK crumb \in Crumb : out' = Append(out, MakeChunk(s, e, x, crumb))
    <3>1. CrumbAt(s) \in Crumb
      BY CrumbAtTyped
    <3>2. <<>> \in Crumb
      BY DEF Crumb
    <3> QED
      BY <2>2, <3>1, <3>2 DEF InnerChunk, FallbackChunk
  <2>6. /\ UNCHANGED <<size, cur, nxt>> /\ pc' # "coalesce"
        /\ result' = result \/ result' = out'
    BY <2>2, <2>3 DEF InnerChunk, FallbackChunk, mergeVars
  <2> DEFINE c == MakeChunk(s, e, x, crumb)
  <2>7. c \in Chunk
    BY <2>4, MakeChunkTyped
  <2>8. /\ Len(c.text) = 1 /\ Whole(c) /\ c.text[1].extra = x /\ c.start = s
        /\ TextLen(c.text) = x + (e - s)
    <3>1. s <= e
      BY <2>4
    <3> QED
      BY <2>4, <3>1, MadeWhole
  <2>9. out' = Append(out, c)
    BY <2>5
  <2> HIDE DEF c
  <2>10. out # <<>> => Guarded(out[Len(out)], c)
    <3> SUFFICES ASSUME out # <<>>, x > 0, s = out[Len(out)].end
                 PROVE  TextLen(out[Len(out)].text) + TextLen(c.text) > size
      BY <2>8 DEF Guarded
    <3>1. s = Reach(out)
      BY DEF Reach
    <3>2. TextLen(out[Len(out)].text) \in Int
      <4>1. Len(out) \in 1 .. Len(out)
        BY <1>0
      <4>2. out[Len(out)] \in Chunk
        BY <1>0, <4>1
      <4>3. out[Len(out)].text \in Seq(Piece) /\ Len(out[Len(out)].text) = 1
        BY <4>1, <4>2 DEF Chunk, TextInv
      <4>4. out[Len(out)].text[1] \in Piece /\ TextLen(out[Len(out)].text) = PieceLen(out[Len(out)].text[1])
        BY <4>3, TextLenOne
      <4> QED
        BY <4>4 DEF Piece, PieceLen
    <3>3. TextLen(out[Len(out)].text) + x + (e - s) > size
      BY <2>4, <3>1
    <3> QED
      BY <1>0, <2>4, <2>8, <3>2, <3>3
  <2>11. /\ \A i \in 1 .. Len(out') : Len(out'[i].text) = 1 /\ Whole(out'[i])
         /\ \A i \in 1 .. Len(out') - 1 : Guarded(out'[i], out'[i + 1])
    BY <1>0, <2>7, <2>8, <2>9, <2>10, OutKeeps
  <2>12. \A i \in 1 .. Len(result') : Whole(result'[i])
    <3>1. CASE result' = result
      BY <3>1 DEF TextInv
    <3>2. CASE result' = out'
      BY <2>11, <3>2
    <3> QED
      BY <2>6, <3>1, <3>2
  <2> QED
    BY <2>6, <2>11, <2>12, TextNext
<1>4. CASE StartCoalescing
  <2>1. /\ UNCHANGED <<size, out>>
        /\ \/ pc' = "done" /\ result' = out
           \/ ~ (Len(out) <= 1) /\ pc' = "coalesce" /\ cur' = out[1] /\ nxt' = 2
                /\ UNCHANGED result
    BY <1>4 DEF StartCoalescing, sectionVars
  <2>2. CASE pc' = "done" /\ result' = out
    <3>1. \A i \in 1 .. Len(result') : Whole(result'[i])
      BY <2>2 DEF TextInv
    <3> QED
      BY <2>1, <2>2, <3>1, TextNext DEF TextInv
  <2>3. CASE ~ (Len(out) <= 1) /\ pc' = "coalesce" /\ cur' = out[1] /\ nxt' = 2
               /\ UNCHANGED result
    <3>1. 1 \in 1 .. Len(out) /\ nxt' - 1 = 1
      BY <1>00, <2>3
    <3>2. Len(cur'.text) = 1 /\ Whole(cur')
      BY <2>3, <3>1 DEF TextInv
    <3>3. cur'.text[Len(cur'.text)] = out'[nxt' - 1].text[1]
      BY <2>1, <2>3, <3>1, <3>2
    <3> QED
      BY <2>1, <2>3, <3>2, <3>3, TextNext DEF TextInv
  <2> QED
    BY <2>1, <2>2, <2>3
<1>5. CASE Coalesce
  <2> DEFINE d == out[nxt]
             b == out[nxt - 1]
  <2>1. /\ pc = "coalesce" /\ nxt <= Len(out) /\ nxt' = nxt + 1
        /\ UNCHANGED <<size, out>>
        /\ \/ Joinable(cur, d) /\ cur' = Joined(cur, d) /\ result' = result
           \/ cur' = d /\ result' = Append(result, cur)
    BY <1>5 DEF Coalesce, sectionVars
  <2>2. nxt \in 2 .. Len(out)
    BY <1>00, <2>1 DEF CoverInv, JoinOK
  <2>3. /\ nxt \in 1 .. Len(out) /\ nxt - 1 \in 1 .. Len(out) /\ nxt - 1 \in 1 .. Len(out) - 1
        /\ (nxt - 1) + 1 = nxt /\ (nxt + 1) - 1 = nxt
    BY <1>00, <2>2
  <2>4. cur \in Chunk /\ d \in Chunk /\ b \in Chunk
    BY <1>0, <2>1, <2>3 DEF HandOK
  <2>5. /\ Whole(cur) /\ cur.text[Len(cur.text)] = b.text[1]
        /\ Whole(d) /\ Whole(b) /\ Len(d.text) = 1 /\ Len(b.text) = 1
        /\ Guarded(b, d)
    BY <2>1, <2>3 DEF TextInv
  <2>6. out'[nxt' - 1] = d
    BY <2>1, <2>3
  <2> HIDE DEF d, b
  <2>7. CASE Joinable(cur, d) /\ cur' = Joined(cur, d) /\ result' = result
    <3>1. /\ Whole(cur')
          /\ cur'.text[Len(cur'.text)] = d.text[1]
      BY <1>0, <2>4, <2>5, <2>7, JoinedWhole
    <3> QED
      BY <2>1, <2>6, <2>7, <3>1, TextNext DEF TextInv
  <2>8. CASE cur' = d /\ result' = Append(result, cur)
    <3>1. Whole(cur') /\ cur'.text[Len(cur'.text)] = d.text[1]
      BY <2>5, <2>8
    <3>2. \A i \in 1 .. Len(result') : Whole(result'[i])
      BY <1>0, <2>4, <2>5, <2>8, ResultKeeps
    <3> QED
      BY <2>1, <2>6, <3>1, <3>2, TextNext DEF TextInv
  <2> QED
    BY <2>1, <2>7, <2>8
<1>6. CASE FinishCoalescing
  <2>1. /\ pc = "coalesce" /\ pc' = "done" /\ result' = Append(result, cur)
        /\ UNCHANGED <<size, out>>
    BY <1>6 DEF FinishCoalescing, sectionVars
  <2>2. cur \in Chunk /\ Whole(cur)
    BY <2>1 DEF HandOK, TextInv
  <2>3. \A i \in 1 .. Len(result') : Whole(result'[i])
    BY <1>0, <2>1, <2>2, ResultKeeps
  <2> QED
    BY <2>1, <2>3, TextNext DEF TextInv
<1> QED
  BY <1>1, <1>2, <1>3, <1>4, <1>5, <1>6, StepCases

\* It holds while there are no chunks.
LEMMA InitText == Init => TextInv
<1> SUFFICES ASSUME Init PROVE TextInv
  OBVIOUS
<1>1. out = <<>> /\ result = <<>> /\ pc = "profile"
  BY DEF Init
<1>2. 1 .. Len(out) = {} /\ 1 .. Len(out) - 1 = {} /\ 1 .. Len(result) = {}
  BY <1>1
<1> QED
  BY <1>1, <1>2 DEF TextInv

\* So it always holds, along with the types and the cover.
LEMMA TextsAlways == Spec => [](CoverInv /\ TypeOK /\ HandOK /\ TextInv)
<1>1. Init => HandOK
  BY DEF Init, HandOK
<1>2. CoverInv /\ TypeOK /\ HandOK /\ TextInv /\ [Next]_vars => TypeOK' /\ HandOK' /\ TextInv'
  BY StepTyped, TextStep
<1> QED
  BY <1>1, <1>2, InitTyped, InitText, ChunksArePlaced, PTL DEF Spec

\* Every chunk shows one stretch of the document, behind at most one repeated
\* header: no join buries one.
THEOREM StretchesCorrect == Spec => []ChunksAreStretches
<1>1. TypeOK /\ TextInv => ChunksAreStretches
  <2> SUFFICES ASSUME TypeOK, TextInv PROVE ChunksAreStretches
    OBVIOUS
  <2>1. result \in Seq(Chunk)
    BY DEF TypeOK
  <2>2. DOMAIN result = 1 .. Len(result)
    BY <2>1
  <2> QED
    BY <2>2 DEF TextInv, Whole, ChunksAreStretches
<1> QED
  BY <1>1, TextsAlways, PTL

-------------------------------------------------------------------------------
\* Two chunks with a heading in common.
Shares(a, b) == a # <<>> /\ b # <<>> /\ a[1] = b[1]

\* What NothingLeftToJoin says of neighbours.
Packed(c, d) ==
  Shares(c.crumb, d.crumb) /\ c.end = d.start /\ TextLen(c.text) + TextLen(d.text) <= size
    => TextLen(c.text) >= MinTarget /\ TextLen(c.text) >= size \div 2

(***************************************************************************)
(* The strengthening of NothingLeftToJoin: the chunk in hand is one of the *)
(* neighbours, and without sections no chunk has a heading.                *)
(***************************************************************************)
PackInv ==
  /\ \A i \in 1 .. Len(result) - 1 : Packed(result[i], result[i + 1])
  /\ pc = "coalesce" /\ result # <<>> => Packed(result[Len(result)], cur)
  /\ pc = "fallback" => \A i \in 1 .. Len(out) : out[i].crumb = <<>>

\* The target is the greater of the two bounds.
LEMMA TargetIs ==
  ASSUME size \in Nat
  PROVE  Target \in Nat /\ Target >= MinTarget /\ Target >= size \div 2
<1> DEFINE h == size \div 2
           S == {h, MinTarget}
           N == h + MinTarget
<1>1. h \in Nat /\ MinTarget \in Nat /\ N \in Nat /\ h <= N /\ MinTarget <= N
  BY SizesAssumption
<1> HIDE DEF h, N
<1>2. S \in SUBSET (0 .. N) /\ S # {} /\ h \in S /\ MinTarget \in S
  BY <1>1
<1> HIDE DEF S
<1>3. Max(S) \in S /\ \A x \in S : x <= Max(S)
  BY <1>1, <1>2, GreatestOf
<1>4. Target = Max(S)
  BY DEF Target, S, h
<1> DEFINE x == Max(S)
<1> HIDE DEF x
<1>5. x \in 0 .. N /\ MinTarget <= x /\ h <= x
  BY <1>2, <1>3 DEF x
<1>6. x \in Nat /\ x >= MinTarget /\ x >= h
  BY <1>1, <1>5
<1> QED
  BY <1>4, <1>6 DEF x, h

\* Breadcrumbs that have their first heading in common share a prefix.
LEMMA SharedShares ==
  ASSUME NEW a \in Crumb, NEW b \in Crumb
  PROVE  /\ SharedCrumb(a, b) # <<>> <=> Shares(a, b)
         /\ Shares(a, b) => SharedCrumb(a, b)[1] = a[1]
<1> DEFINE E == Levels \X Titles
           S == {Len(a), Len(b)}
           m == Min(S)
           T == {n \in 0 .. m : \A i \in 1 .. n : a[i] = b[i]}
           p == SharedCrumb(a, b)
<1>1. a \in Seq(E) /\ b \in Seq(E) /\ Len(a) \in Nat /\ Len(b) \in Nat
  BY DEF Crumb
<1>2. /\ p \in Seq(E) /\ Len(p) \in 0 .. Len(a) /\ Len(p) \in 0 .. Len(b)
      /\ \A i \in 1 .. Len(p) : p[i] = a[i] /\ p[i] = b[i]
  BY SharedIs DEF Crumb
<1> HIDE DEF p
<1>3. p # <<>> => Shares(a, b) /\ p[1] = a[1]
  <2> SUFFICES ASSUME p # <<>> PROVE Shares(a, b) /\ p[1] = a[1]
    OBVIOUS
  <2>1. 1 \in 1 .. Len(p) /\ Len(a) > 0 /\ Len(b) > 0
    BY <1>1, <1>2
  <2> QED
    BY <1>1, <1>2, <2>1 DEF Shares
<1>4. ASSUME Shares(a, b) PROVE p # <<>>
  <2>1. Len(a) >= 1 /\ Len(b) >= 1
    BY <1>1, <1>4 DEF Shares
  <2>2. m \in S /\ m \in Nat /\ m >= 1
    <3>1. S \in SUBSET Nat /\ S # {} /\ \A x \in S : x >= 1
      BY <1>1, <2>1
    <3> HIDE DEF S
    <3>2. m \in S
      BY <3>1, LeastOf
    <3> QED
      BY <3>1, <3>2
  <2> HIDE DEF m
  <2>3. T \in SUBSET (0 .. m) /\ 1 \in T
    BY <1>4, <2>2 DEF Shares
  <2> HIDE DEF T
  <2>4. Max(T) \in 0 .. m /\ Max(T) >= 1
    <3>1. T # {}
      BY <2>3
    <3>2. Max(T) \in T /\ \A x \in T : x <= Max(T)
      BY <2>2, <2>3, <3>1, GreatestOf
    <3> QED
      BY <2>2, <2>3, <3>2
  <2>5. p = SubSeq(a, 1, Max(T))
    BY DEF p, SharedCrumb, T, m
  <2>6. m <= Len(a)
    <3>1. S \in SUBSET Nat /\ S # {} /\ Len(a) \in S
      BY <1>1
    <3> HIDE DEF S
    <3> QED
      BY <3>1, LeastOf DEF m
  <2> DEFINE n == Max(T)
  <2>7. n \in Nat /\ n >= 1 /\ n <= Len(a)
    BY <1>1, <2>2, <2>4, <2>6
  <2> HIDE DEF n
  <2>8. p = SubSeq(a, 1, n)
    BY <2>5 DEF n
  <2>9. \A i \in 1 .. n : a[i] \in E
    BY <1>1, <2>7
  <2>10. Len(p) = n
    BY <1>1, <2>7, <2>8, <2>9, SubSeqProperties
  <2> QED
    BY <2>7, <2>10
<1> QED
  BY <1>3, <1>4 DEF p

\* What is joined to the second of two neighbours leaves them neighbours.
LEMMA PackedJoined ==
  ASSUME NEW r \in Chunk, NEW c \in Chunk, NEW d \in Chunk, size \in Nat,
         Packed(r, c), Joinable(c, d), Len(d.text) = 1, Whole(d)
  PROVE  Packed(r, Joined(c, d))
<1> DEFINE j == Joined(c, d)
           p == d.text[1]
<1>1. /\ r.crumb \in Crumb /\ c.crumb \in Crumb /\ d.crumb \in Crumb
      /\ r.text \in Seq(Piece) /\ c.text \in Seq(Piece) /\ d.text \in Seq(Piece)
  BY DEF Chunk
<1>2. j.start = c.start /\ j.text = c.text \o d.text /\ j.crumb = SharedCrumb(c.crumb, d.crumb)
  BY JoinedTyped
<1>3. d.text = <<p>> /\ p \in Piece /\ PieceLen(p) \in Nat
  <2>1. d.text = <<p>> /\ p \in Piece
    BY <1>1, TextLenOne
  <2>2. p.start <= p.end /\ p.start \in Nat /\ p.end \in Nat /\ p.extra \in Nat
    BY <2>1 DEF Whole, Piece
  <2> QED
    BY <2>1, <2>2 DEF PieceLen
<1>4. j.text = Append(c.text, p)
  <2>1. c.text \o d.text = c.text \o <<p>>
    BY <1>3
  <2> HIDE DEF p, j
  <2> QED
    BY <1>1, <1>2, <1>3, <2>1, TextLenAppend
<1> HIDE DEF p, j
<1>5. TextLen(j.text) >= TextLen(c.text) /\ TextLen(j.text) \in Int /\ TextLen(c.text) \in Int
  BY <1>1, <1>3, <1>4, TextLenAppend
<1>6. TextLen(r.text) \in Int
  BY <1>1, <1>3, TextLenAppend
<1>7. Shares(c.crumb, d.crumb)
  BY <1>1, SharedShares DEF Joinable
<1>8. j.crumb[1] = c.crumb[1] /\ c.crumb # <<>>
  BY <1>1, <1>2, <1>7, SharedShares DEF Shares
<1>9. Shares(r.crumb, j.crumb) => Shares(r.crumb, c.crumb)
  BY <1>8 DEF Shares
<1>10. TextLen(r.text) + TextLen(j.text) <= size => TextLen(r.text) + TextLen(c.text) <= size
  BY <1>5, <1>6
<1>11. Packed(r, j)
  BY <1>2, <1>9, <1>10 DEF Packed
<1> QED
  BY <1>11 DEF j

\* Chunks that are not joined are packed.
LEMMA PackedApart ==
  ASSUME NEW c \in Chunk, NEW d \in Chunk, size \in Nat, ~ Joinable(c, d)
  PROVE  Packed(c, d)
<1>1. c.crumb \in Crumb /\ d.crumb \in Crumb /\ c.text \in Seq(Piece)
  BY DEF Chunk
<1>2. TextLen(c.text) \in Int
  <2>1. PICK f \in [0 .. Len(c.text) -> Int] : TextLen(c.text) = f[Len(c.text)]
    BY <1>1, TextLenIs
  <2>2. Len(c.text) \in 0 .. Len(c.text)
    BY <1>1
  <2> QED
    BY <2>1, <2>2
<1>3. Target \in Nat /\ Target >= MinTarget /\ Target >= size \div 2
  BY TargetIs
<1>4. SharedCrumb(c.crumb, d.crumb) # <<>> <=> Shares(c.crumb, d.crumb)
  BY <1>1, SharedShares
<1>5. MinTarget \in Nat /\ size \div 2 \in Nat
  BY SizesAssumption
<1> SUFFICES ASSUME Shares(c.crumb, d.crumb), c.end = d.start,
                    TextLen(c.text) + TextLen(d.text) <= size
             PROVE  TextLen(c.text) >= MinTarget /\ TextLen(c.text) >= size \div 2
  BY DEF Packed
<1>6. ~ (TextLen(c.text) < Target)
  BY <1>4 DEF Joinable
<1> DEFINE n == TextLen(c.text)
           h == size \div 2
<1> HIDE DEF n, h
<1>7. n \in Int /\ ~ (n < Target) /\ Target \in Nat /\ Target >= MinTarget /\ Target >= h
      /\ MinTarget \in Nat /\ h \in Nat
  BY <1>2, <1>3, <1>5, <1>6 DEF n, h
<1>8. n >= MinTarget /\ n >= h
  BY <1>7
<1> QED
  BY <1>8 DEF n, h

\* Packed depends on chunk_size alone.
LEMMA SameSize ==
  ASSUME size' = size PROVE \A c, d : Packed(c, d)' <=> Packed(c, d)
BY DEF Packed, TextLen, Shares

\* The chunk in hand is appended to the chunks returned.
LEMMA PackedAppend ==
  ASSUME PackInv, pc = "coalesce", result \in Seq(Chunk), result' = Append(result, cur),
         size' = size
  PROVE  /\ \A i \in 1 .. Len(result') - 1 : Packed(result[i], result[i + 1])'
         /\ result'[Len(result')] = cur
<1> DEFINE N == Len(result)
<1>1. /\ N \in Nat /\ Len(result') = N + 1 /\ result'[N + 1] = cur
      /\ \A i \in 1 .. N : result'[i] = result[i]
  OBVIOUS
<1>2. \A c, d : Packed(c, d)' <=> Packed(c, d)
  BY SameSize
<1>3. N > 0 => result # <<>>
  BY <1>1
<1>4. ASSUME NEW i \in 1 .. N PROVE Packed(result'[i], result'[i + 1])
  <2>1. CASE i = N
    <3>1. result # <<>> /\ result'[i] = result[N] /\ result'[i + 1] = cur
      BY <1>1, <1>3, <2>1
    <3> QED
      BY <3>1 DEF PackInv
  <2>2. CASE i \in 1 .. N - 1
    <3>1. i + 1 \in 1 .. N
      BY <1>1, <2>2
    <3>2. Packed(result[i], result[i + 1])
      BY <2>2 DEF PackInv
    <3> QED
      BY <1>1, <3>1, <3>2
  <2> QED
    BY <1>1, <2>1, <2>2
<1>5. \A i \in 1 .. Len(result') - 1 : Packed(result[i], result[i + 1])'
  <2>1. Len(result') - 1 = N
    BY <1>1
  <2> QED
    BY <1>2, <1>4, <2>1
<1> QED
  BY <1>1, <1>5

\* Every step keeps PackInv.
LEMMA PackStep ==
  ASSUME TypeOK, HandOK, CoverInv, TextInv, PackInv, [Next]_vars
  PROVE  PackInv'
<1>0. /\ out \in Seq(Chunk) /\ result \in Seq(Chunk) /\ size \in Nat
      /\ nxt \in 1 .. Len(out) + 1 /\ Len(out) \in Nat
  <2>1. /\ out \in Seq(Chunk) /\ result \in Seq(Chunk) /\ size \in Nat
        /\ nxt \in 1 .. Len(out) + 1
    BY DEF TypeOK
  <2> QED
    BY <2>1
<1>1. size' = size
  BY StepCases DEF ReadLine, ReturnNothing, FallBack, StartSections, NextSection, SplitText,
                   InnerChunk, FallbackChunk, StartCoalescing, Coalesce, FinishCoalescing, vars
<1>2. \A c, d : Packed(c, d)' <=> Packed(c, d)
  BY <1>1, SameSize
<1>3. CASE result' = result /\ pc' \notin {"coalesce", "fallback"}
  BY <1>2, <1>3 DEF PackInv
<1>4. CASE UNCHANGED vars
  BY <1>2, <1>4 DEF PackInv, vars
<1>5. CASE FallBack
  <2>1. out' = <<>> /\ result' = result /\ pc' = "fallback"
    BY <1>5 DEF FallBack, CoverInv, PhaseOK, mergeVars
  <2> QED
    BY <1>2, <2>1 DEF PackInv
<1>6. CASE SplitText /\ pc = "fallback"
  <2>1. PICK s \in InnerStarts(out, StartOf(from)),
             e \in InnerEnds(out, StartOf(from), StartOf(sec)) :
          \E x \in Headers(s, e) : FallbackChunk(s, e, x)
    BY <1>6 DEF SplitText
  <2>2. PICK x \in Headers(s, e) : FallbackChunk(s, e, x)
    BY <2>1
  <2> DEFINE c == MakeChunk(s, e, x, <<>>)
  <2>3. /\ out' = Append(out, c)
        /\ \/ pc' = "done" /\ result' = out'
           \/ pc' = "fallback" /\ result' = result
    BY <1>6, <2>2 DEF FallbackChunk
  <2>4. c.crumb = <<>>
    BY DEF MakeChunk
  <2> HIDE DEF c
  <2>5. \A i \in 1 .. Len(out') : out'[i].crumb = <<>>
    <3>1. /\ Len(out') = Len(out) + 1 /\ out'[Len(out) + 1] = c
          /\ \A i \in 1 .. Len(out) : out'[i] = out[i]
      <4>1. ASSUME NEW o \in Seq(Chunk), NEW d
            PROVE  /\ Len(Append(o, d)) = Len(o) + 1 /\ Append(o, d)[Len(o) + 1] = d
                   /\ \A i \in 1 .. Len(o) : Append(o, d)[i] = o[i]
        OBVIOUS
      <4> QED
        BY <1>0, <2>3, <4>1
    <3>2. \A i \in 1 .. Len(out) : out[i].crumb = <<>>
      BY <1>6 DEF PackInv
    <3> QED
      BY <1>0, <2>4, <3>1, <3>2
  <2>6. CASE pc' = "done" /\ result' = out'
    <3>1. ASSUME NEW i \in 1 .. Len(result') - 1 PROVE Packed(result[i], result[i + 1])'
      <4>1. Len(result') \in Nat
        BY <1>0, <2>3, <2>6
      <4>2. i \in 1 .. Len(out')
        BY <2>6, <4>1
      <4>3. result'[i].crumb = <<>>
        BY <2>5, <2>6, <4>2
      <4> QED
        BY <4>3 DEF Packed, Shares
    <3> QED
      BY <2>6, <3>1 DEF PackInv
  <2>7. CASE pc' = "fallback" /\ result' = result
    BY <1>2, <2>5, <2>7 DEF PackInv
  <2> QED
    BY <2>3, <2>6, <2>7
<1>7. CASE StartCoalescing
  <2>1. /\ result = <<>>
        /\ \/ Len(out) <= 1 /\ pc' = "done" /\ result' = out
           \/ pc' = "coalesce" /\ result' = result
    BY <1>7 DEF StartCoalescing, CoverInv, PhaseOK
  <2>2. CASE Len(out) <= 1 /\ pc' = "done" /\ result' = out
    <3>1. 1 .. Len(result') - 1 = {}
      BY <1>0, <2>2
    <3> QED
      BY <2>2, <3>1 DEF PackInv
  <2>3. CASE pc' = "coalesce" /\ result' = result
    <3>1. 1 .. Len(result') - 1 = {} /\ result' = <<>>
      BY <2>1, <2>3
    <3> QED
      BY <2>3, <3>1 DEF PackInv
  <2> QED
    BY <2>1, <2>2, <2>3
<1>8. CASE Coalesce
  <2> DEFINE d == out[nxt]
  <2>1. /\ pc = "coalesce" /\ pc' = "coalesce" /\ nxt <= Len(out)
        /\ \/ Joinable(cur, d) /\ cur' = Joined(cur, d) /\ result' = result
           \/ ~ Joinable(cur, d) /\ cur' = d /\ result' = Append(result, cur)
    BY <1>8 DEF Coalesce
  <2>2. nxt \in 1 .. Len(out)
    BY <1>0, <2>1
  <2>3. cur \in Chunk /\ d \in Chunk /\ Len(d.text) = 1 /\ Whole(d)
    BY <1>0, <2>1, <2>2 DEF HandOK, TextInv
  <2> HIDE DEF d
  <2>4. CASE Joinable(cur, d) /\ cur' = Joined(cur, d) /\ result' = result
    <3>1. ASSUME result # <<>> PROVE Packed(result[Len(result)], cur')
      <4>1. result[Len(result)] \in Chunk
        BY <1>0, <3>1
      <4>2. Packed(result[Len(result)], cur)
        BY <2>1, <3>1 DEF PackInv
      <4> QED
        BY <1>0, <2>3, <2>4, <4>1, <4>2, PackedJoined
    <3>2. result' # <<>> => Packed(result[Len(result)], cur)'
      BY <1>2, <2>4, <3>1
    <3>3. \A i \in 1 .. Len(result') - 1 : Packed(result[i], result[i + 1])'
      BY <1>2, <2>4 DEF PackInv
    <3> QED
      BY <2>1, <3>2, <3>3 DEF PackInv
  <2>5. CASE ~ Joinable(cur, d) /\ cur' = d /\ result' = Append(result, cur)
    <3>1. /\ \A i \in 1 .. Len(result') - 1 : Packed(result[i], result[i + 1])'
          /\ result'[Len(result')] = cur
      BY <1>0, <1>1, <2>1, <2>5, PackedAppend
    <3>2. Packed(cur, d)
      BY <1>0, <2>3, <2>5, PackedApart
    <3>3. Packed(result[Len(result)], cur)'
      BY <1>2, <2>5, <3>1, <3>2
    <3> QED
      BY <2>1, <3>1, <3>3 DEF PackInv
  <2> QED
    BY <2>1, <2>4, <2>5
<1>9. CASE FinishCoalescing
  <2>1. pc = "coalesce" /\ pc' = "done" /\ result' = Append(result, cur)
    BY <1>9 DEF FinishCoalescing
  <2>2. \A i \in 1 .. Len(result') - 1 : Packed(result[i], result[i + 1])'
    BY <1>0, <1>1, <2>1, PackedAppend
  <2> QED
    BY <2>1, <2>2 DEF PackInv
<1>10. CASE \/ \E s \in LineShapes : ReadLine(s)
            \/ ReturnNothing \/ StartSections \/ \E e \in 1 .. Len(doc) + 1 : NextSection(e)
            \/ SplitText /\ pc # "fallback"
  <2>1. result' = result /\ pc' \notin {"coalesce", "fallback"}
    <3>1. CASE \/ \E s \in LineShapes : ReadLine(s)
               \/ ReturnNothing \/ StartSections
      BY <3>1 DEF ReadLine, ReturnNothing, StartSections, mergeVars
    <3>2. CASE \E e \in 1 .. Len(doc) + 1 : NextSection(e)
      BY <3>2 DEF NextSection, mergeVars
    <3>3. CASE SplitText /\ pc # "fallback"
      BY <3>3 DEF SplitText, InnerChunk, mergeVars
    <3> QED
      BY <1>10, <3>1, <3>2, <3>3
  <2> QED
    BY <1>3, <2>1
<1> QED
  BY <1>4, <1>5, <1>6, <1>7, <1>8, <1>9, <1>10, StepCases

(***************************************************************************)
(* Neighbours among the chunks returned that touch, have a heading in      *)
(* common and fit into one chunk are left apart only when the first is no  *)
(* tiny chunk: one pass of coalesce_tiny_chunks() leaves it nothing to do. *)
(***************************************************************************)
THEOREM JoiningIsComplete == Spec => []NothingLeftToJoin
<1>1. Init => PackInv
  <2> SUFFICES ASSUME Init PROVE PackInv
    OBVIOUS
  <2>1. result = <<>> /\ pc = "profile" /\ 1 .. Len(result) - 1 = {}
    BY DEF Init
  <2> QED
    BY <2>1 DEF PackInv
<1>2. TypeOK /\ HandOK /\ CoverInv /\ TextInv /\ PackInv /\ [Next]_vars => PackInv'
  BY PackStep
<1>3. PackInv => NothingLeftToJoin
  BY DEF PackInv, Packed, Shares, NothingLeftToJoin
<1> QED
  BY <1>1, <1>2, <1>3, TextsAlways, PTL DEF Spec

-------------------------------------------------------------------------------
(***************************************************************************)
(* The headings that are open after the lines of a set have been read, and *)
(* those that a hierarchy holds.                                           *)
(***************************************************************************)
Opened(J) ==
  {j \in J : /\ IsHeading(1, j)
             /\ \A m \in J : IsHeading(1, m) /\ m > j => doc[m].level > doc[j].level}

\* Their levels and titles.
Path(J) == {<<doc[j].level, doc[j].title>> : j \in Opened(J)}

\* What a hierarchy has in use.
HeadingsOf(h) == {<<l, h.stack[l]>> : l \in {i \in Levels : h.stack[i] # ""}}

\* Nothing is left below the depth of a hierarchy.
Clean(h) == \A l \in Levels : l > h.depth => h.stack[l] = ""

\* Headings have a level and a title.
HeadingLines ==
  \A j \in DOMAIN doc :
    doc[j].kind = "heading" => doc[j].level \in Levels /\ doc[j].title \in Titles

\* In particular those that the splitter takes for headings.
LEMMA HeadingIs ==
  ASSUME LinesOK, HeadingLines, NEW j \in 1 .. Len(doc), IsHeading(1, j)
  PROVE  /\ doc[j].level \in Levels /\ doc[j].level \in Nat
         /\ doc[j].title \in Titles /\ doc[j].title # ""
<1>1. j \in DOMAIN doc /\ doc[j].kind = "heading"
  BY DEF LinesOK, IsHeading
<1>2. doc[j].level \in Levels /\ doc[j].title \in Titles
  BY <1>1 DEF HeadingLines
<1>3. doc[j].level \in Nat
  BY <1>2, LevelsAre
<1> QED
  BY <1>2, <1>3, LinesAssumption

\* What observing a heading does to the stack.
LEMMA ObservedStack ==
  ASSUME NEW h \in Hierarchy, NEW line \in Line, line.level \in Levels
  PROVE  /\ \A i \in Levels :
              Observe(h, line).stack[i] = IF i > line.level THEN ""
                                          ELSE IF i = line.level THEN line.title
                                          ELSE h.stack[i]
         /\ Clean(Observe(h, line))
<1> DEFINE stack == [i \in Levels |-> IF i > line.level THEN ""
                                      ELSE IF i = line.level THEN line.title
                                      ELSE h.stack[i]]
           depth == IF line.level > h.depth THEN line.level ELSE Deepest(stack)
           o == Observe(h, line)
<1>1. \A i \in Levels : stack[i] = IF i > line.level THEN ""
                                   ELSE IF i = line.level THEN line.title
                                   ELSE h.stack[i]
  OBVIOUS
<1>2. stack \in [Levels -> Titles \cup {""}]
  <2>1. line.title \in Titles \cup {""} /\ h.stack \in [Levels -> Titles \cup {""}]
    BY DEF Line, Hierarchy
  <2> QED
    BY <2>1
<1>3. o = [stack |-> stack, depth |-> depth]
  BY DEF Observe
<1> HIDE DEF stack
<1>4. \A i \in Levels : stack[i] # "" => i <= Deepest(stack)
  BY <1>2, DeepestIs
<1>5. Deepest(stack) \in Nat
  <2>1. Deepest(stack) \in 0 .. MaxLevel
    BY <1>2, DeepestIs
  <2> QED
    BY <2>1, LevelsAre
<1>6. \A l \in Levels : l > depth => stack[l] = ""
  <2> SUFFICES ASSUME NEW l \in Levels, l > depth PROVE stack[l] = ""
    OBVIOUS
  <2>1. CASE line.level > h.depth
    BY <1>1, <2>1
  <2>2. CASE ~ (line.level > h.depth)
    <3>1. l > Deepest(stack)
      BY <2>2
    <3>2. ~ (l <= Deepest(stack))
      BY <1>5, <3>1, LevelsAre
    <3> QED
      BY <1>4, <3>2
  <2> QED
    BY <2>1, <2>2
<1> HIDE DEF depth, o
<1>7. o.stack = stack /\ o.depth = depth
  BY <1>3
<1>8. Clean(o)
  BY <1>6, <1>7 DEF Clean
<1> QED
  BY <1>1, <1>7, <1>8 DEF o

\* How levels compare.
LEMMA OrderOfLevels ==
  \A a, b \in Nat : /\ ~ (a > b) /\ a # b => a < b
                    /\ a < b => ~ (a > b) /\ a # b
                    /\ ~ (a > a)
OBVIOUS

\* A heading ends those of its level and below, for the hierarchy ...
LEMMA ObservedHeadings ==
  ASSUME NEW h \in Hierarchy, NEW line \in Line, line.level \in Levels, line.title # ""
  PROVE  HeadingsOf(Observe(h, line)) =
           {e \in HeadingsOf(h) : e[1] < line.level} \cup {<<line.level, line.title>>}
<1> DEFINE L == line.level
           T == line.title
           o == Observe(h, line)
<1>1. /\ \A i \in Levels : o.stack[i] = IF i > L THEN "" ELSE IF i = L THEN T ELSE h.stack[i]
      /\ L \in Levels /\ T # ""
  BY ObservedStack
<1>0. L \in Nat /\ \A i \in Levels : i \in Nat
  BY LevelsAre
<1> HIDE DEF o, L, T
<1>2. ASSUME NEW x \in HeadingsOf(o)
      PROVE  x \in {e \in HeadingsOf(h) : e[1] < L} \cup {<<L, T>>}
  <2>1. PICK l \in Levels : o.stack[l] # "" /\ x = <<l, o.stack[l]>>
    BY <1>2 DEF HeadingsOf
  <2>2. ~ (l > L)
    BY <1>1, <2>1
  <2>3. CASE l = L
    BY <1>1, <2>1, <2>2, <2>3
  <2>4. CASE l # L
    <3>1. l < L
      <4>1. l \in Nat
        BY <1>0
      <4> QED
        BY <1>0, <2>2, <2>4, <4>1, OrderOfLevels, Zenon
    <3>2. o.stack[l] = h.stack[l]
      BY <1>1, <2>2, <2>4
    <3>3. x \in HeadingsOf(h)
      BY <2>1, <3>2 DEF HeadingsOf
    <3>4. x[1] = l
      BY <2>1
    <3> QED
      BY <3>1, <3>3, <3>4
  <2> QED
    BY <2>3, <2>4
<1>3. ASSUME NEW x \in HeadingsOf(h), x[1] < L
      PROVE  x \in HeadingsOf(o)
  <2>1. PICK l \in Levels : h.stack[l] # "" /\ x = <<l, h.stack[l]>>
    BY <1>3 DEF HeadingsOf
  <2>2. l < L
    BY <1>3, <2>1
  <2>3. ~ (l > L) /\ l # L
    <3>1. l \in Nat
      BY <1>0
    <3> QED
      BY <1>0, <2>2, <3>1, OrderOfLevels, Zenon
  <2>4. o.stack[l] = h.stack[l]
    BY <1>1, <2>3
  <2> QED
    BY <2>1, <2>4 DEF HeadingsOf
<1>4. <<L, T>> \in HeadingsOf(o)
  <2>1. ~ (L > L)
    BY <1>0, OrderOfLevels, Zenon
  <2>2. o.stack[L] = T
    BY <1>1, <2>1
  <2> QED
    BY <1>1, <2>2 DEF HeadingsOf
<1>5. HeadingsOf(o) = {e \in HeadingsOf(h) : e[1] < L} \cup {<<L, T>>}
  BY <1>2, <1>3, <1>4
<1> QED
  BY <1>5 DEF o, L, T

\* ... and for the document.
LEMMA PathOfHeading ==
  ASSUME LinesOK, HeadingLines, NEW n \in 1 .. Len(doc), IsHeading(1, n),
         NEW J \in SUBSET (1 .. n - 1)
  PROVE  Path(J \cup {n}) =
           {e \in Path(J) : e[1] < doc[n].level} \cup {<<doc[n].level, doc[n].title>>}
<1> DEFINE K == J \cup {n}
           L == doc[n].level
<1>1. Len(doc) \in Nat /\ \A j \in J : j \in 1 .. Len(doc) /\ j < n /\ ~ (n < j) /\ n # j
  BY DEF LinesOK
<1>2. L \in Nat /\ \A j \in J : IsHeading(1, j) => doc[j].level \in Nat
  BY <1>1, HeadingIs
<1>3. n \in Opened(K)
  BY <1>1 DEF Opened
<1>4. \A j \in J : j \in Opened(K) <=> j \in Opened(J) /\ doc[j].level < L
  <2> SUFFICES ASSUME NEW j \in J
               PROVE  j \in Opened(K) <=> j \in Opened(J) /\ doc[j].level < L
    OBVIOUS
  <2>1. ASSUME j \in Opened(K) PROVE j \in Opened(J) /\ doc[j].level < L
    <3>1. IsHeading(1, j) /\ \A m \in K : IsHeading(1, m) /\ m > j => doc[m].level > doc[j].level
      BY <2>1 DEF Opened
    <3>2. n > j /\ n \in K
      BY <1>1
    <3>3. L > doc[j].level
      BY <3>1, <3>2
    <3>4. doc[j].level < L
      BY <1>2, <3>1, <3>3
    <3> QED
      BY <3>1, <3>4 DEF Opened
  <2>2. ASSUME j \in Opened(J), doc[j].level < L PROVE j \in Opened(K)
    <3>1. IsHeading(1, j) /\ \A m \in J : IsHeading(1, m) /\ m > j => doc[m].level > doc[j].level
      BY <2>2 DEF Opened
    <3>2. L > doc[j].level
      BY <1>2, <2>2, <3>1
    <3> QED
      BY <3>1, <3>2 DEF Opened
  <2> QED
    BY <2>1, <2>2
<1>5. Opened(J) \subseteq J /\ Opened(K) \subseteq K
  BY DEF Opened
<1>6. ASSUME NEW x \in Path(K) PROVE x \in {e \in Path(J) : e[1] < L} \cup {<<L, doc[n].title>>}
  <2>1. PICK j \in Opened(K) : x = <<doc[j].level, doc[j].title>>
    BY <1>6 DEF Path
  <2>2. CASE j = n
    BY <2>1, <2>2
  <2>3. CASE j # n
    <3>1. j \in Opened(J) /\ doc[j].level < L
      BY <1>4, <1>5, <2>1, <2>3
    <3> QED
      BY <2>1, <3>1 DEF Path
  <2> QED
    BY <2>2, <2>3
<1>7. ASSUME NEW x \in Path(J), x[1] < L PROVE x \in Path(K)
  <2>1. PICK j \in Opened(J) : x = <<doc[j].level, doc[j].title>>
    BY <1>7 DEF Path
  <2>2. doc[j].level < L
    BY <1>7, <2>1
  <2>3. j \in Opened(K)
    BY <1>4, <1>5, <2>1, <2>2
  <2> QED
    BY <2>1, <2>3 DEF Path
<1>8. <<L, doc[n].title>> \in Path(K)
  BY <1>3 DEF Path
<1> HIDE DEF K, L
<1>9. Path(K) = {e \in Path(J) : e[1] < L} \cup {<<L, doc[n].title>>}
  BY <1>6, <1>7, <1>8
<1> QED
  BY <1>9 DEF K, L

\* A line that is no heading changes nothing.
LEMMA PathOfOther ==
  ASSUME NEW J, NEW n, ~ IsHeading(1, n)
  PROVE  Path(J \cup {n}) = Path(J)
<1>1. Opened(J \cup {n}) = Opened(J)
  BY DEF Opened
<1> QED
  BY <1>1 DEF Path

\* A hierarchy that holds the open headings goes on to hold them.
LEMMA ObserveShows ==
  ASSUME LinesOK, HeadingLines, NEW h \in Hierarchy,
         NEW n \in 1 .. Len(doc), IsHeading(1, n),
         NEW J \in SUBSET (1 .. n - 1), HeadingsOf(h) = Path(J)
  PROVE  /\ Observe(h, doc[n]) \in Hierarchy
         /\ Clean(Observe(h, doc[n]))
         /\ HeadingsOf(Observe(h, doc[n])) = Path(J \cup {n})
<1>1. doc[n] \in Line
  BY DEF LinesOK
<1>2. doc[n].level \in Levels /\ doc[n].title # ""
  BY HeadingIs
<1>3. Observe(h, doc[n]) \in Hierarchy /\ Clean(Observe(h, doc[n]))
  BY <1>1, <1>2, ObserveTyped, ObservedStack
<1>4. HeadingsOf(Observe(h, doc[n])) =
        {e \in HeadingsOf(h) : e[1] < doc[n].level} \cup {<<doc[n].level, doc[n].title>>}
  BY <1>1, <1>2, ObservedHeadings
<1>5. Path(J \cup {n}) =
        {e \in Path(J) : e[1] < doc[n].level} \cup {<<doc[n].level, doc[n].title>>}
  BY PathOfHeading
<1> QED
  BY <1>3, <1>4, <1>5

-------------------------------------------------------------------------------
\* The fences between two lines decide like those from the start on, when the
\* first of the two lines is outside of a fence.
LEMMA SameFences ==
  ASSUME LinesOK, NEW f \in 1 .. Len(doc), f = 1 \/ IsHeading(1, f),
         NEW j \in f .. Len(doc)
  PROVE  IsHeading(f, j) <=> IsHeading(1, j)
<1> DEFINE A == {m \in 1 .. f - 1 : IsFence(m)}
           B == {m \in f .. j - 1 : IsFence(m)}
           C == {m \in 1 .. j - 1 : IsFence(m)}
<1>1. Len(doc) \in Nat /\ f \in Nat /\ j \in Nat /\ 1 <= f /\ f <= j
  BY DEF LinesOK
<1>2. 1 .. f - 1 \in SUBSET Nat /\ f .. j - 1 \in SUBSET Nat
  BY <1>1
<1>3. IsFiniteSet(1 .. f - 1) /\ IsFiniteSet(f .. j - 1)
  <2>1. 1 \in Int /\ f - 1 \in Int /\ f \in Int /\ j - 1 \in Int
    BY <1>1
  <2> QED
    BY <2>1, FS_Interval
<1>4. IsFiniteSet(A) /\ IsFiniteSet(B)
  BY <1>3, FS_Subset
<1>5. C = A \cup B /\ A \cap B = {}
  <2>1. \A m : m \in 1 .. j - 1 <=> m \in 1 .. f - 1 \/ m \in f .. j - 1
    BY <1>1
  <2>2. \A m : ~ (m \in 1 .. f - 1 /\ m \in f .. j - 1)
    BY <1>1
  <2> QED
    BY <2>1, <2>2
<1> HIDE DEF A, B, C
<1>6. Cardinality(A \cap B) = 0
  BY <1>5, FS_EmptySet
<1>7. /\ Cardinality(C) = Cardinality(A) + Cardinality(B) - Cardinality(A \cap B)
      /\ Cardinality(A) \in Nat /\ Cardinality(B) \in Nat
  BY <1>4, <1>5, FS_Union, FS_CardinalityType
<1>8. Cardinality(A) % 2 = 0
  <2>1. CASE f = 1
    <3>1. A = {}
      BY <2>1 DEF A
    <3>2. Cardinality(A) = 0
      BY <3>1, FS_EmptySet
    <3> QED
      BY <3>2
  <2>2. CASE IsHeading(1, f)
    BY <2>2 DEF IsHeading, A
  <2> QED
    BY <2>1, <2>2
<1>9. Cardinality(C) % 2 = 0 <=> Cardinality(B) % 2 = 0
  <2>1. \A a, b \in Nat : a % 2 = 0 => ((a + b) % 2 = 0 <=> b % 2 = 0)
    OBVIOUS
  <2>2. Cardinality(C) = Cardinality(A) + Cardinality(B)
    BY <1>6, <1>7
  <2> QED
    BY <1>7, <1>8, <2>1, <2>2
<1> QED
  BY <1>9 DEF IsHeading, B, C

\* The lines up to one, and those of them that start no later than a position.
Upwards(n, pos) == {m \in 1 .. n : doc[m].start <= pos}

\* All lines that start no later than a position.
LinesTo(pos) == {m \in DOMAIN doc : doc[m].start <= pos}

\* CrumbsTrue speaks of the headings that are open after these lines.
LEMMA PathIs == \A pos : PathAt(pos) = Path(LinesTo(pos))
<1> SUFFICES ASSUME NEW pos PROVE PathAt(pos) = Path(LinesTo(pos))
  OBVIOUS
<1> DEFINE seen == {j \in DOMAIN doc : /\ doc[j].kind = "heading"
                                       /\ doc[j].start <= pos
                                       /\ Cardinality(FencesBefore(j)) % 2 = 0}
           open == {j \in seen : \A m \in seen : m > j => doc[m].level > doc[j].level}
<1>1. PathAt(pos) = {<<doc[j].level, doc[j].title>> : j \in open}
  BY DEF PathAt
<1>2. \A j \in DOMAIN doc : IsHeading(1, j) <=>
        doc[j].kind = "heading" /\ Cardinality(FencesBefore(j)) % 2 = 0
  BY DEF IsHeading, FencesBefore, IsFence
<1>3. seen = {j \in LinesTo(pos) : IsHeading(1, j)}
  BY <1>2 DEF LinesTo
<1> HIDE DEF seen
<1>4. open = Opened(LinesTo(pos))
  BY <1>3 DEF Opened
<1> QED
  BY <1>1, <1>4 DEF Path

\* What is known of a section from line f on: it starts outside of a fence, and
\* its hierarchy holds the headings up to its own.
Section(h, f) ==
  /\ f = 1 \/ Opens(f, primary)
  /\ h \in Hierarchy /\ Clean(h)
  /\ HeadingsOf(h) = Path(IF Opens(f, primary) THEN 1 .. f ELSE {})

\* The deeper headings of a section are observed as they come.
LEMMA WalkShows ==
  ASSUME LinesOK, HeadingLines, NEW h, NEW f \in 1 .. Len(doc), Section(h, f),
         NEW t \in f .. Len(doc), NEW pos \in Nat, doc[f].start <= pos,
         \A j \in f + 1 .. t : ~ Opens(j, primary),
         primary \in Nat
  PROVE  LET o == ObserveDeeper(h, f, t, pos)
         IN  o \in Hierarchy /\ Clean(o) /\ HeadingsOf(o) = Path(Upwards(t, pos))
<1>0. /\ doc \in Seq(Line) /\ Len(doc) \in Nat /\ f \in Nat \ {0} /\ t \in 0 .. Len(doc)
      /\ t \in Nat /\ f <= t /\ 1 <= f
  BY DEF LinesOK
<1>1. PICK after : Walk(after, h, f, t, pos)
  <2>1. h \in Hierarchy
    BY DEF Section
  <2> QED
    BY <1>0, <2>1, ObserveDeeperIs
<1> DEFINE Taken(j) == IsHeading(f, j) /\ doc[j].level > primary /\ doc[j].start <= pos
           Shown(j) == /\ after[j] \in Hierarchy /\ Clean(after[j])
                       /\ HeadingsOf(after[j]) = Path(Upwards(j, pos))
<1>2. \A j \in 0 .. t :
        after[j] = IF j < f THEN h
                   ELSE IF Taken(j) THEN Observe(after[j - 1], doc[j])
                   ELSE after[j - 1]
  BY <1>1 DEF Walk
<1>3. \A j \in f .. t : IsHeading(f, j) <=> IsHeading(1, j)
  <2>1. f = 1 \/ IsHeading(1, f)
    BY DEF Section, Opens
  <2>2. \A j \in f .. t : j \in f .. Len(doc)
    BY <1>0
  <2> QED
    BY <2>1, <2>2, SameFences
<1>4. \A j \in 1 .. Len(doc) : IsHeading(1, j) => doc[j].level \in Nat
  BY HeadingIs
<1>5. \A j \in f .. t : IsHeading(1, j) /\ ~ Opens(j, primary) => doc[j].level > primary
  <2> SUFFICES ASSUME NEW j \in f .. t, IsHeading(1, j), ~ Opens(j, primary)
               PROVE  doc[j].level > primary
    OBVIOUS
  <2>1. j \in 1 .. Len(doc)
    BY <1>0
  <2>2. ~ (doc[j].level <= primary) /\ doc[j].level \in Nat
    BY <1>4, <2>1 DEF Opens
  <2> QED
    BY <2>2
<1>6. \A j \in f + 1 .. t : Upwards(j, pos) = Upwards(j - 1, pos) \cup
                              (IF doc[j].start <= pos THEN {j} ELSE {})
  <2> SUFFICES ASSUME NEW j \in f + 1 .. t
               PROVE  Upwards(j, pos) = Upwards(j - 1, pos) \cup
                        (IF doc[j].start <= pos THEN {j} ELSE {})
    OBVIOUS
  <2>1. 1 .. j = (1 .. j - 1) \cup {j}
    BY <1>0
  <2> QED
    BY <2>1 DEF Upwards
<1>7. Upwards(f, pos) = 1 .. f
  <2> SUFFICES ASSUME NEW m \in 1 .. f PROVE doc[m].start <= pos
    BY DEF Upwards
  <2>1. CASE m = f
    BY <2>1
  <2>2. CASE m # f
    <3>1. m \in 1 .. Len(doc) + 1 /\ f \in 1 .. Len(doc) + 1 /\ m < f
          /\ m <= Len(doc) /\ f <= Len(doc)
      BY <1>0, <2>2
    <3>2. StartOf(m) = doc[m].start /\ StartOf(f) = doc[f].start
      BY <3>1 DEF StartOf
    <3>3. StartOf(m) < StartOf(f) /\ StartOf(m) \in Nat /\ StartOf(f) \in Nat
      BY <3>1, StartsGrow
    <3> QED
      BY <3>2, <3>3
  <2> QED
    BY <2>1, <2>2
<1>8. f - 1 \in 0 .. t /\ f \in 0 .. t /\ f - 1 < f /\ ~ (f < f) /\ f \in f .. t
  BY <1>0
<1>9. after[f - 1] = h
  BY <1>2, <1>8
<1> DEFINE P == {k \in 0 .. t - f : Shown(f + k)}
<1>10. Shown(f)
  <2>1. CASE Opens(f, primary)
    <3>1. ~ Taken(f)
      <4>1. IsHeading(1, f) /\ doc[f].level <= primary /\ doc[f].level \in Nat
        BY <1>4, <2>1 DEF Opens
      <4> QED
        BY <4>1
    <3>2. after[f] = h
      BY <1>2, <1>8, <1>9, <3>1
    <3> QED
      BY <1>7, <2>1, <3>2 DEF Section
  <2>2. CASE ~ Opens(f, primary) /\ IsHeading(1, f)
    <3>1. Taken(f)
      BY <1>3, <1>5, <1>8, <2>2
    <3>2. after[f] = Observe(h, doc[f])
      BY <1>2, <1>8, <1>9, <3>1
    <3>3. f = 1 /\ h \in Hierarchy /\ HeadingsOf(h) = Path({})
      BY <2>2 DEF Section
    <3>4. {} \cup {f} = 1 .. f
      BY <3>3
    <3>5. /\ Observe(h, doc[f]) \in Hierarchy /\ Clean(Observe(h, doc[f]))
          /\ HeadingsOf(Observe(h, doc[f])) = Path({} \cup {f})
      BY <2>2, <3>3, ObserveShows
    <3> QED
      BY <1>7, <3>2, <3>4, <3>5
  <2>3. CASE ~ Opens(f, primary) /\ ~ IsHeading(1, f)
    <3>1. ~ Taken(f)
      BY <1>3, <1>8, <2>3
    <3>2. after[f] = h
      BY <1>2, <1>8, <1>9, <3>1
    <3>3. f = 1 /\ h \in Hierarchy /\ Clean(h) /\ HeadingsOf(h) = Path({})
      BY <2>3 DEF Section
    <3>4. {} \cup {f} = 1 .. f
      BY <3>3
    <3>5. Path({} \cup {f}) = Path({})
      BY <2>3, PathOfOther
    <3> QED
      BY <1>7, <3>2, <3>3, <3>4, <3>5
  <2> QED
    BY <2>1, <2>2, <2>3
<1>11. ASSUME NEW j \in f + 1 .. t, Shown(j - 1) PROVE Shown(j)
  <2>1. j \in 1 .. Len(doc) /\ j \in 0 .. t /\ j \in f .. t /\ ~ (j < f)
    BY <1>0
  <2>2. CASE IsHeading(1, j) /\ doc[j].start <= pos
    <3>1. Taken(j)
      BY <1>3, <1>5, <2>1, <2>2
    <3>2. after[j] = Observe(after[j - 1], doc[j])
      BY <1>2, <2>1, <3>1
    <3>3. Upwards(j - 1, pos) \in SUBSET (1 .. j - 1)
      BY DEF Upwards
    <3>4. Upwards(j, pos) = Upwards(j - 1, pos) \cup {j}
      BY <1>6, <2>2
    <3> DEFINE a == after[j - 1]
    <3>5. a \in Hierarchy /\ HeadingsOf(a) = Path(Upwards(j - 1, pos))
      BY <1>11
    <3> HIDE DEF a
    <3>6. /\ Observe(a, doc[j]) \in Hierarchy /\ Clean(Observe(a, doc[j]))
          /\ HeadingsOf(Observe(a, doc[j])) = Path(Upwards(j - 1, pos) \cup {j})
      BY <2>1, <2>2, <3>3, <3>5, ObserveShows
    <3> QED
      BY <3>2, <3>4, <3>6 DEF a
  <2>3. CASE ~ (IsHeading(1, j) /\ doc[j].start <= pos)
    <3>1. ~ Taken(j)
      BY <1>3, <2>1, <2>3
    <3>2. after[j] = after[j - 1]
      BY <1>2, <2>1, <3>1
    <3>3. Path(Upwards(j, pos)) = Path(Upwards(j - 1, pos))
      <4>1. CASE ~ (doc[j].start <= pos)
        BY <1>6, <4>1
      <4>2. CASE ~ IsHeading(1, j)
        <5> DEFINE U == Upwards(j - 1, pos)
        <5>1. Upwards(j, pos) = U \/ Upwards(j, pos) = U \cup {j}
          BY <1>6
        <5> HIDE DEF U
        <5>2. Path(U \cup {j}) = Path(U)
          BY <4>2, PathOfOther
        <5> QED
          BY <5>1, <5>2 DEF U
      <4> QED
        BY <2>3, <4>1, <4>2
    <3> QED
      BY <1>11, <3>2, <3>3
  <2> QED
    BY <2>2, <2>3
<1> HIDE DEF Shown
<1>12. t - f \in P
  <2>1. 0 \in P
    BY <1>0, <1>10
  <2>2. ASSUME NEW k \in 0 .. (t - f) - 1, k \in P PROVE k + 1 \in P
    <3>1. f + (k + 1) \in f + 1 .. t /\ (f + (k + 1)) - 1 = f + k /\ k + 1 \in 0 .. t - f
      BY <1>0
    <3>2. Shown((f + (k + 1)) - 1)
      BY <2>2, <3>1
    <3>3. Shown(f + (k + 1))
      BY <1>11, <3>1, <3>2
    <3> QED
      BY <3>1, <3>3
  <2>3. t - f \in Nat /\ t - f \in 0 .. t - f
    BY <1>0
  <2>4. 0 .. t - f \subseteq P
    <3> HIDE DEF P
    <3> QED
      BY <2>1, <2>2, <2>3, UpTo
  <2> QED
    BY <2>3, <2>4
<1>13. Shown(t)
  <2>1. f + (t - f) = t
    BY <1>0
  <2> QED
    BY <1>12, <2>1
<1> QED
  BY <1>1, <1>13 DEF Shown, Walk

-------------------------------------------------------------------------------
\* The levels of a breadcrumb grow.
Rising(c) == \A i, k \in 1 .. Len(c) : i < k => c[i][1] < c[k][1]

\* A breadcrumb that goes on with a deeper level.
LEMMA RisingAppend ==
  ASSUME NEW T, NEW c \in Seq(Nat \X T), NEW n \in Nat, NEW t \in T,
         Rising(c), \A k \in 1 .. Len(c) : c[k][1] < n
  PROVE  LET d == Append(c, <<n, t>>)
         IN  /\ Rising(d)
             /\ ToSet(d) = ToSet(c) \cup {<<n, t>>}
             /\ \A k \in 1 .. Len(d) : d[k][1] < n + 1
<1> DEFINE e == <<n, t>>
           d == Append(c, e)
           N == Len(c)
<1>1. /\ N \in Nat /\ Len(d) = N + 1 /\ d[N + 1] = e
      /\ \A k \in 1 .. N : d[k] = c[k]
      /\ DOMAIN d = 1 .. N + 1 /\ DOMAIN c = 1 .. N
  <2>1. e \in Nat \X T
    OBVIOUS
  <2> HIDE DEF e
  <2> QED
    BY <2>1
<1>2. e[1] = n /\ \A k \in 1 .. N : c[k][1] \in Nat
  OBVIOUS
<1> HIDE DEF d, e
<1>3. \A k \in 1 .. N + 1 : (k \in 1 .. N /\ d[k] = c[k]) \/ (k = N + 1 /\ d[k] = e)
  BY <1>1
<1>4. Rising(d)
  <2> SUFFICES ASSUME NEW i \in 1 .. N + 1, NEW k \in 1 .. N + 1, i < k
               PROVE  d[i][1] < d[k][1]
    BY <1>1 DEF Rising
  <2>1. i \in 1 .. N /\ d[i] = c[i]
    BY <1>1
  <2>2. CASE k = N + 1
    BY <1>1, <1>2, <2>1, <2>2
  <2>3. CASE k \in 1 .. N
    BY <1>1, <2>1, <2>3 DEF Rising
  <2> QED
    BY <1>3, <2>2, <2>3
<1>5. ToSet(d) = ToSet(c) \cup {e}
  <2>1. ASSUME NEW x \in ToSet(d) PROVE x \in ToSet(c) \cup {e}
    BY <1>1, <1>3, <2>1 DEF ToSet
  <2>2. ASSUME NEW x \in ToSet(c) PROVE x \in ToSet(d)
    <3>1. PICK k \in 1 .. N : x = c[k]
      BY <1>1, <2>2 DEF ToSet
    <3>2. k \in 1 .. N + 1 /\ d[k] = x
      BY <1>1, <3>1
    <3> QED
      BY <1>1, <3>2 DEF ToSet
  <2>3. e \in ToSet(d)
    <3>1. N + 1 \in 1 .. N + 1
      BY <1>1
    <3> QED
      BY <1>1, <3>1 DEF ToSet
  <2> QED
    BY <2>1, <2>2, <2>3
<1>6. \A k \in 1 .. N + 1 : d[k][1] < n + 1
  <2> SUFFICES ASSUME NEW k \in 1 .. N + 1 PROVE d[k][1] < n + 1
    OBVIOUS
  <2>1. CASE k = N + 1
    BY <1>1, <1>2, <2>1
  <2>2. CASE k \in 1 .. N
    BY <1>1, <1>2, <2>2
  <2> QED
    BY <1>3, <2>1, <2>2
<1> QED
  BY <1>1, <1>4, <1>5, <1>6 DEF d, e

\* A breadcrumb that has been cut short still leaves nothing out before its end.
LEMMA RisingPrefix ==
  ASSUME NEW T, NEW a \in Seq(Nat \X T), Rising(a), NEW p \in Seq(Nat \X T),
         Len(p) \in 0 .. Len(a), \A i \in 1 .. Len(p) : p[i] = a[i]
  PROVE  /\ Rising(p)
         /\ ToSet(p) \subseteq ToSet(a)
         /\ p # <<>> => /\ ToSet(p) = Upto(p[Len(p)][1], ToSet(a))
                        /\ a # <<>> /\ p[Len(p)][1] \in Nat /\ a[Len(a)][1] \in Nat
                        /\ p[Len(p)][1] <= a[Len(a)][1]
<1> DEFINE N == Len(p)
           M == Len(a)
<1>1. /\ N \in Nat /\ M \in Nat /\ N <= M /\ \A i \in 1 .. N : i \in 1 .. M
      /\ DOMAIN p = 1 .. N /\ DOMAIN a = 1 .. M
      /\ \A i \in 1 .. M : a[i][1] \in Nat
  OBVIOUS
<1>0. N \in Nat /\ M \in Nat /\ N <= M
  BY <1>1
<1>2. Rising(p)
  BY <1>1 DEF Rising
<1>3. ToSet(p) \subseteq ToSet(a)
  BY <1>1 DEF ToSet
<1>4. ASSUME p # <<>>
      PROVE  /\ ToSet(p) = Upto(p[N][1], ToSet(a))
             /\ a # <<>> /\ p[N][1] \in Nat /\ a[M][1] \in Nat
             /\ p[N][1] <= a[M][1]
  <2>1. N > 0 /\ N \in 1 .. N /\ N \in 1 .. M /\ M \in 1 .. M /\ p[N] = a[N] /\ a # <<>>
    BY <1>1, <1>4
  <2>2. ASSUME NEW i \in 1 .. N PROVE p[i][1] <= p[N][1]
    <3>1. CASE i = N
      BY <1>1, <2>1, <3>1
    <3>2. CASE i # N
      <4>1. i < N
        BY <1>0, <3>2
      <4>2. p[i][1] < p[N][1] /\ p[i][1] \in Nat /\ p[N][1] \in Nat
        BY <1>1, <1>2, <2>1, <4>1 DEF Rising
      <4> QED
        BY <4>2
    <3> QED
      BY <3>1, <3>2
  <2>3. ASSUME NEW i \in 1 .. M, a[i][1] <= p[N][1] PROVE i \in 1 .. N
    <3> SUFFICES ASSUME N < i PROVE FALSE
      BY <1>1
    <3>1. a[N][1] < a[i][1] /\ a[N][1] \in Nat /\ a[i][1] \in Nat
      BY <1>1, <2>1 DEF Rising
    <3> QED
      BY <2>1, <2>3, <3>1
  <2>4. ToSet(p) = Upto(p[N][1], ToSet(a))
    <3>1. ASSUME NEW x \in ToSet(p) PROVE x \in Upto(p[N][1], ToSet(a))
      <4>1. PICK i \in 1 .. N : x = p[i]
        BY <1>1 DEF ToSet
      <4> QED
        BY <1>3, <2>2, <4>1 DEF Upto
    <3>2. ASSUME NEW x \in Upto(p[N][1], ToSet(a)) PROVE x \in ToSet(p)
      <4>1. PICK i \in 1 .. M : x = a[i] /\ a[i][1] <= p[N][1]
        BY <1>1 DEF Upto, ToSet
      <4>2. i \in 1 .. N
        BY <2>3, <4>1
      <4> QED
        BY <1>1, <4>1, <4>2 DEF ToSet
    <3> QED
      BY <3>1, <3>2
  <2>5. p[N][1] <= a[M][1]
    <3>1. CASE N = M
      BY <1>1, <2>1, <3>1
    <3>2. CASE N # M
      <4>1. N < M
        BY <1>0, <3>2
      <4>2. a[N][1] < a[M][1] /\ a[N][1] \in Nat /\ a[M][1] \in Nat
        BY <1>1, <2>1, <4>1 DEF Rising
      <4> QED
        BY <2>1, <4>2
    <3> QED
      BY <3>1, <3>2
  <2> QED
    BY <1>1, <2>1, <2>4, <2>5
<1> QED
  BY <1>2, <1>3, <1>4

\* The levels of a breadcrumb are numbers.
LEMMA CrumbLists == Crumb \subseteq Seq(Nat \X Titles)
<1>1. Levels \X Titles \subseteq Nat \X Titles
  <2>1. \A l \in Levels : l \in Nat
    BY LevelsAre
  <2> QED
    BY <2>1
<1> SUFFICES ASSUME NEW c \in Seq(Levels \X Titles) PROVE c \in Seq(Nat \X Titles)
  BY DEF Crumb
<1>2. Len(c) \in Nat /\ c \in [1 .. Len(c) -> Levels \X Titles]
  OBVIOUS
<1>3. c \in [1 .. Len(c) -> Nat \X Titles]
  BY <1>1, <1>2
<1> QED
  BY <1>2, <1>3

\* The breadcrumb of a hierarchy gives the headings it holds.
LEMMA BreadcrumbShows ==
  ASSUME NEW h \in Hierarchy, Clean(h)
  PROVE  /\ Breadcrumb(h) \in Seq(Nat \X Titles)
         /\ Rising(Breadcrumb(h))
         /\ ToSet(Breadcrumb(h)) = HeadingsOf(h)
<1> DEFINE N == h.depth
           Held(i) == {<<l, h.stack[l]>> : l \in {m \in 1 .. i : h.stack[m] # ""}}
<1>1. PICK lines \in [0 .. N -> Crumb] :
        /\ Breadcrumb(h) = lines[N]
        /\ lines[0] = <<>>
        /\ \A i \in 1 .. N :
             lines[i] = IF h.stack[i] = "" THEN lines[i - 1]
                        ELSE Append(lines[i - 1], <<i, h.stack[i]>>)
  BY BreadcrumbIs
<1>2. N \in 0 .. MaxLevel /\ N \in Nat /\ \A i \in 1 .. N : i \in Levels
  <2>1. N \in 0 .. MaxLevel
    BY DEF Hierarchy
  <2> QED
    BY <2>1, LevelsAre
<1>3. \A i \in Levels : h.stack[i] # "" => h.stack[i] \in Titles
  BY DEF Hierarchy
<1>4. Crumb \subseteq Seq(Nat \X Titles)
  BY CrumbLists
<1> DEFINE Good(i) == /\ Rising(lines[i]) /\ ToSet(lines[i]) = Held(i)
                      /\ \A k \in 1 .. Len(lines[i]) : lines[i][k][1] < i + 1
           P == {i \in 0 .. N : Good(i)}
<1>5. 0 \in P
  <2>1. lines[0] = <<>>
    BY <1>1
  <2>2. Rising(<<>>) /\ ToSet(<<>>) = {} /\ 1 .. Len(<<>>) = {}
    BY DEF Rising, ToSet
  <2>3. Held(0) = {}
    OBVIOUS
  <2>4. 0 \in 0 .. N
    <3> HIDE DEF N
    <3> QED
      BY <1>2
  <2> HIDE DEF Held, N
  <2> QED
    BY <2>1, <2>2, <2>3, <2>4
<1>6. ASSUME NEW i \in 0 .. N - 1, i \in P PROVE i + 1 \in P
  <2>1. /\ i + 1 \in 1 .. N /\ i + 1 \in 0 .. N /\ (i + 1) - 1 = i /\ i + 1 \in Nat
        /\ i \in 0 .. N /\ i \in Nat
    BY <1>2
  <2>2. 1 .. i + 1 = (1 .. i) \cup {i + 1}
    BY <2>1
  <2>3. lines[i] \in Seq(Nat \X Titles) /\ Good(i)
    BY <1>4, <1>6, <2>1
  <2>4. lines[i + 1] = IF h.stack[i + 1] = "" THEN lines[i]
                       ELSE Append(lines[i], <<i + 1, h.stack[i + 1]>>)
    BY <1>1, <2>1
  <2>5. CASE h.stack[i + 1] = ""
    <3>1. lines[i + 1] = lines[i] /\ Held(i + 1) = Held(i)
      BY <2>2, <2>4, <2>5
    <3> DEFINE c == lines[i]
    <3>2. c \in Seq(Nat \X Titles) /\ \A k \in 1 .. Len(c) : c[k][1] < i + 1
      BY <2>3
    <3> HIDE DEF c
    <3>3. \A k \in 1 .. Len(c) : c[k][1] < (i + 1) + 1
      <4>1. \A k \in 1 .. Len(c) : c[k][1] \in Nat
        BY <3>2
      <4> QED
        BY <2>1, <3>2, <4>1
    <3> QED
      BY <2>1, <2>3, <3>1, <3>3 DEF c
  <2>6. CASE h.stack[i + 1] # ""
    <3> DEFINE c == lines[i]
               d == Append(c, <<i + 1, h.stack[i + 1]>>)
    <3>1. h.stack[i + 1] \in Titles /\ lines[i + 1] = d
      BY <1>2, <1>3, <2>1, <2>4, <2>6
    <3>2. c \in Seq(Nat \X Titles) /\ Rising(c) /\ \A k \in 1 .. Len(c) : c[k][1] < i + 1
      BY <2>3
    <3> HIDE DEF c
    <3>3. /\ Rising(d)
          /\ ToSet(d) = ToSet(c) \cup {<<i + 1, h.stack[i + 1]>>}
          /\ \A k \in 1 .. Len(d) : d[k][1] < (i + 1) + 1
      <4> DEFINE n == i + 1
                 t == h.stack[i + 1]
      <4>1. n \in Nat /\ t \in Titles
        BY <2>1, <3>1
      <4>2. \A k \in 1 .. Len(c) : c[k][1] < n
        BY <3>2
      <4> HIDE DEF n, t
      <4>3. LET a == Append(c, <<n, t>>)
            IN  /\ Rising(a)
                /\ ToSet(a) = ToSet(c) \cup {<<n, t>>}
                /\ \A k \in 1 .. Len(a) : a[k][1] < n + 1
        BY <3>2, <4>1, <4>2, RisingAppend
      <4> QED
        BY <4>3 DEF n, t
    <3>4. Held(i + 1) = Held(i) \cup {<<i + 1, h.stack[i + 1]>>}
      BY <2>2, <2>6
    <3> HIDE DEF d, Held
    <3> QED
      BY <2>1, <2>3, <3>1, <3>3, <3>4 DEF c
  <2> QED
    BY <2>5, <2>6
<1>7. N \in P
  <2>1. N \in 0 .. N
    BY <1>2
  <2> HIDE DEF P, N
  <2> QED
    BY <1>2, <1>5, <1>6, <2>1, UpTo
<1>8. Held(N) = HeadingsOf(h)
  <2>1. ASSUME NEW l \in Levels, h.stack[l] # "" PROVE l \in 1 .. N
    <3>1. ~ (l > N)
      BY <2>1 DEF Clean
    <3>2. l \in 1 .. MaxLevel
      BY LevelsAre
    <3> HIDE DEF N
    <3> QED
      BY <1>2, <3>1, <3>2, LevelsAre
  <2> QED
    BY <1>2, <2>1 DEF HeadingsOf
<1>9. Breadcrumb(h) = lines[N] /\ lines[N] \in Crumb
  <2>1. N \in 0 .. N
    <3> HIDE DEF N
    <3> QED
      BY <1>2
  <2> QED
    BY <1>1, <2>1
<1> QED
  BY <1>4, <1>7, <1>8, <1>9

-------------------------------------------------------------------------------
\* The breadcrumb of a chunk is true (CrumbsTrue says this of those returned).
Truthful(c) ==
  /\ Rising(c.crumb)
  /\ c.crumb # <<>> =>
       ToSet(c.crumb) = Upto(c.crumb[Len(c.crumb)][1], PathAt(c.start))
  /\ Len(c.text) = 1 /\ c.start > 0 => ToSet(c.crumb) = PathAt(c.start)
  /\ \A j \in DOMAIN doc :
       c.start <= doc[j].start /\ doc[j].start < c.end =>
         Upto(primary, ToSet(c.crumb)) \subseteq PathAt(doc[j].start)

\* What PathAt() gives are headings with a level.
LEMMA PathLevels ==
  ASSUME LinesOK, NEW pos, NEW x \in PathAt(pos)
  PROVE  x[1] \in Nat
<1>1. x \in Path(LinesTo(pos))
  BY PathIs
<1>2. PICK j \in Opened(LinesTo(pos)) : x = <<doc[j].level, doc[j].title>>
  BY <1>1 DEF Path
<1>3. doc[j] \in Line
  BY <1>2 DEF Opened, LinesTo, LinesOK
<1>4. doc[j].level \in 0 .. MaxLevel
  BY <1>3 DEF Line
<1> QED
  BY <1>2, <1>4, LevelsAre

\* The lines that start no later than a position, and those before a line.
LEMMA LinesBelow ==
  ASSUME LinesOK, NEW f \in 1 .. Len(doc), NEW e \in f + 1 .. Len(doc) + 1, NEW s \in Nat,
         StartOf(f) <= s, s < StartOf(e)
  PROVE  /\ Upwards(e - 1, s) = LinesTo(s)
         /\ s = StartOf(f) => LinesTo(s) = 1 .. f
         /\ doc[f].start <= s
<1>1. Len(doc) \in Nat /\ DOMAIN doc = 1 .. Len(doc)
  BY DEF LinesOK
<1>2. f \in Nat /\ e \in Nat /\ e <= Len(doc) + 1 /\ 1 <= f /\ f < e /\ f <= Len(doc)
      /\ e \in 1 .. Len(doc) + 1 /\ f \in 1 .. Len(doc) + 1
  BY <1>1
<1>3. \A m \in 1 .. Len(doc) : m \in 1 .. Len(doc) + 1 /\ m \in Nat /\ StartOf(m) = doc[m].start
  BY <1>1 DEF StartOf
<1>4. \A m \in 1 .. Len(doc) : doc[m].start \in Nat
  BY <1>3, StartsGrow
<1>5. \A m \in 1 .. Len(doc) : doc[m].start <= s => m < e
  <2> SUFFICES ASSUME NEW m \in 1 .. Len(doc), doc[m].start <= s, ~ (m < e) PROVE FALSE
    OBVIOUS
  <2>1. m = e \/ e < m
    BY <1>1, <1>2
  <2>2. StartOf(e) \in Nat /\ StartOf(m) \in Nat
    BY <1>2, <1>3, StartsGrow
  <2>3. StartOf(e) <= StartOf(m)
    <3>1. CASE m = e
      BY <2>2, <3>1
    <3>2. CASE e < m
      <4>1. StartOf(e) < StartOf(m)
        BY <1>2, <1>3, <3>2, StartsGrow
      <4> QED
        BY <2>2, <4>1
    <3> QED
      BY <2>1, <3>1, <3>2
  <2>4. StartOf(m) <= s
    BY <1>3
  <2> QED
    BY <2>2, <2>3, <2>4
<1>6. \A m : m \in 1 .. e - 1 <=> m \in 1 .. Len(doc) /\ m < e
  BY <1>1, <1>2
<1>7. Upwards(e - 1, s) = LinesTo(s)
  BY <1>1, <1>5, <1>6 DEF Upwards, LinesTo
<1>8. ASSUME s = StartOf(f) PROVE LinesTo(s) = 1 .. f
  <2>1. ASSUME NEW m \in 1 .. Len(doc) PROVE doc[m].start <= s <=> m <= f
    <3>1. StartOf(m) = doc[m].start /\ StartOf(m) \in Nat /\ StartOf(f) \in Nat
      BY <1>2, <1>3, StartsGrow
    <3>2. m < f => StartOf(m) < StartOf(f)
      BY <1>2, <1>3, StartsGrow
    <3>3. f < m => StartOf(f) < StartOf(m)
      BY <1>2, <1>3, StartsGrow
    <3>4. m \in Nat
      BY <1>3
    <3> QED
      BY <1>2, <1>8, <3>1, <3>2, <3>3, <3>4
  <2>2. \A m : m \in 1 .. f <=> m \in 1 .. Len(doc) /\ m <= f
    BY <1>1, <1>2
  <2> QED
    BY <1>1, <2>1, <2>2 DEF LinesTo
<1>9. doc[f].start <= s
  BY <1>3
<1> QED
  BY <1>7, <1>8, <1>9

\* The headings of the dominant level and above stay open up to the next section.
LEMMA StayOpen ==
  ASSUME LinesOK, HeadingLines, primary \in Nat,
         NEW f \in 1 .. Len(doc), NEW e \in f + 1 .. Len(doc) + 1, NEW s \in Nat,
         StartOf(f) <= s, \A m \in f + 1 .. e - 1 : ~ Opens(m, primary),
         NEW j \in 1 .. Len(doc), s <= doc[j].start, doc[j].start < StartOf(e)
  PROVE  Upto(primary, PathAt(s)) \subseteq PathAt(doc[j].start)
<1> DEFINE t == doc[j].start
<1>1. /\ Len(doc) \in Nat /\ DOMAIN doc = 1 .. Len(doc)
      /\ f \in Nat /\ e \in Nat /\ f \in 1 .. Len(doc) + 1 /\ e \in 1 .. Len(doc) + 1
  BY DEF LinesOK
<1>2. \A m \in 1 .. Len(doc) : /\ m \in 1 .. Len(doc) + 1 /\ m \in Nat
                               /\ StartOf(m) = doc[m].start
  BY <1>1 DEF StartOf
<1>3. StartOf(f) \in Nat /\ StartOf(e) \in Nat /\ \A m \in 1 .. Len(doc) : doc[m].start \in Nat
  BY <1>1, <1>2, StartsGrow
<1>4. t \in Nat
  BY <1>3
<1> SUFFICES ASSUME NEW x \in Upto(primary, Path(LinesTo(s)))
             PROVE  x \in Path(LinesTo(t))
  BY PathIs
<1>5. PICK i \in Opened(LinesTo(s)) : x = <<doc[i].level, doc[i].title>> /\ x[1] <= primary
  BY DEF Upto, Path
<1>6. /\ i \in 1 .. Len(doc) /\ doc[i].start <= s /\ IsHeading(1, i)
      /\ \A m \in LinesTo(s) : IsHeading(1, m) /\ m > i => doc[m].level > doc[i].level
  BY <1>1 DEF Opened, LinesTo
<1>7. i \in LinesTo(t)
  <2>1. doc[i].start <= t
    BY <1>3, <1>4, <1>6
  <2> QED
    BY <1>1, <1>6, <2>1 DEF LinesTo
<1> HIDE DEF t
<1>8. ASSUME NEW m \in LinesTo(t), IsHeading(1, m), m > i PROVE doc[m].level > doc[i].level
  <2>1. m \in 1 .. Len(doc) /\ doc[m].start <= t /\ doc[m].start \in Nat
    BY <1>1, <1>3 DEF LinesTo
  <2>2. CASE doc[m].start <= s
    <3>1. m \in LinesTo(s)
      BY <1>1, <2>1, <2>2 DEF LinesTo
    <3> QED
      BY <1>6, <1>8, <3>1
  <2>3. CASE ~ (doc[m].start <= s)
    <3>1. StartOf(f) < StartOf(m) /\ StartOf(m) < StartOf(e)
      <4>1. StartOf(m) = doc[m].start
        BY <1>2, <2>1
      <4>2. t < StartOf(e) /\ StartOf(f) <= s
        BY DEF t
      <4> QED
        BY <1>3, <1>4, <2>1, <2>3, <4>1, <4>2, SMTT(30)
    <3>2. m \in Nat /\ m \in 1 .. Len(doc) + 1 /\ StartOf(m) \in Nat
      BY <1>2, <2>1, StartsGrow
    <3>3. f < m /\ m < e
      <4>1. m < f => StartOf(m) < StartOf(f)
        BY <1>1, <3>2, StartsGrow
      <4>2. e < m => StartOf(e) < StartOf(m)
        BY <1>1, <3>2, StartsGrow
      <4> QED
        BY <1>1, <1>3, <3>1, <3>2, <4>1, <4>2
    <3>4. m \in f + 1 .. e - 1
      BY <1>1, <3>2, <3>3
    <3>5. ~ (doc[m].level <= primary)
      BY <1>8, <3>4 DEF Opens
    <3>6. doc[m].level \in Nat /\ doc[i].level \in Nat
      BY <1>6, <1>8, <2>1, HeadingIs
    <3>7. doc[i].level <= primary
      BY <1>5
    <3> QED
      BY <3>5, <3>6, <3>7
  <2> QED
    BY <2>2, <2>3
<1>9. i \in Opened(LinesTo(t))
  BY <1>6, <1>7, <1>8 DEF Opened
<1>10. x \in Path(LinesTo(t))
  BY <1>5, <1>9 DEF Path
<1> QED
  BY <1>10

\* This holds of a breadcrumb that has not been cut short.
LEMMA RisingWhole ==
  ASSUME NEW a \in Seq(Nat \X Titles), Rising(a), a # <<>>
  PROVE  ToSet(a) = Upto(a[Len(a)][1], ToSet(a))
<1>1. PICK p \in Seq(Nat \X Titles) : p = a
  OBVIOUS
<1>2. Len(p) \in 0 .. Len(a) /\ \A i \in 1 .. Len(p) : p[i] = a[i]
  BY <1>1
<1>3. p # <<>>
  BY <1>1
<1>4. ToSet(p) = Upto(p[Len(p)][1], ToSet(a))
  BY <1>2, <1>3, RisingPrefix
<1> QED
  BY <1>1, <1>4

\* A chunk that starts with the open headings as its breadcrumb, or at the start
\* of the document without any, and stays in its section.
LEMMA MadeTruthful ==
  ASSUME LinesOK, HeadingLines, primary \in Nat,
         NEW f \in 1 .. Len(doc), NEW e \in f + 1 .. Len(doc) + 1, NEW s \in Nat,
         StartOf(f) <= s, \A m \in f + 1 .. e - 1 : ~ Opens(m, primary),
         NEW c, c.start = s, c.end \in Nat, c.end <= StartOf(e),
         c.crumb \in Seq(Nat \X Titles), Rising(c.crumb),
         ToSet(c.crumb) = PathAt(s) \/ (s = 0 /\ c.crumb = <<>>)
  PROVE  Truthful(c)
<1>1. /\ DOMAIN doc = 1 .. Len(doc)
      /\ e \in 1 .. Len(doc) + 1
      /\ f \in 1 .. Len(doc) + 1
  BY DEF LinesOK
<1>2. StartOf(e) \in Nat /\ \A m \in 1 .. Len(doc) : doc[m].start \in Nat
  <2>1. \A m \in 1 .. Len(doc) : m \in 1 .. Len(doc) + 1 /\ StartOf(m) = doc[m].start
    BY DEF LinesOK, StartOf
  <2> QED
    BY <1>1, <2>1, StartsGrow
<1>3. CASE s = 0 /\ c.crumb = <<>>
  <2>1. ToSet(c.crumb) = {} /\ Upto(primary, {}) = {} /\ ~ (c.start > 0)
    BY <1>3 DEF ToSet, Upto
  <2> QED
    BY <1>3, <2>1 DEF Truthful
<1>4. CASE ToSet(c.crumb) = PathAt(s)
  <2>1. ASSUME c.crumb # <<>>
        PROVE  ToSet(c.crumb) = Upto(c.crumb[Len(c.crumb)][1], PathAt(s))
    <3> DEFINE p == c.crumb
    <3>1. p \in Seq(Nat \X Titles) /\ Rising(p) /\ p # <<>>
      BY <2>1
    <3> HIDE DEF p
    <3>2. ToSet(p) = Upto(p[Len(p)][1], ToSet(p))
      BY <3>1, RisingWhole
    <3> QED
      BY <1>4, <3>2 DEF p
  <2>2. ASSUME NEW j \in 1 .. Len(doc), s <= doc[j].start, doc[j].start < c.end
        PROVE  Upto(primary, PathAt(s)) \subseteq PathAt(doc[j].start)
    <3>1. doc[j].start < StartOf(e)
      BY <1>2, <2>2
    <3> QED
      BY <2>2, <3>1, StayOpen
  <2> QED
    BY <1>1, <1>4, <2>1, <2>2 DEF Truthful
<1> QED
  BY <1>3, <1>4

\* Joining keeps to the headings that both chunks stand under.
LEMMA JoinedTruthful ==
  ASSUME NEW c \in Chunk, NEW d \in Chunk, LinesOK, primary \in Nat,
         Truthful(c), Truthful(d), c.end = d.start, Len(Joined(c, d).text) > 1
  PROVE  Truthful(Joined(c, d))
<1> DEFINE p == SharedCrumb(c.crumb, d.crumb)
           a == c.crumb
           b == d.crumb
<1>1. /\ Joined(c, d).start = c.start /\ Joined(c, d).end = d.end
      /\ Joined(c, d).crumb = p
  BY JoinedTyped
<1>2. a \in Crumb /\ b \in Crumb
  BY DEF Chunk
<1>3. /\ p \in Crumb /\ Len(p) \in 0 .. Len(a) /\ Len(p) \in 0 .. Len(b)
      /\ \A i \in 1 .. Len(p) : p[i] = a[i] /\ p[i] = b[i]
  BY <1>2, SharedIs
<1> HIDE DEF p, a, b
<1>4. Crumb \subseteq Seq(Nat \X Titles)
  BY CrumbLists
<1>5. Rising(a) /\ Rising(b)
  BY DEF Truthful, a, b
<1>6. /\ Rising(p) /\ ToSet(p) \subseteq ToSet(a)
      /\ p # <<>> => /\ ToSet(p) = Upto(p[Len(p)][1], ToSet(a))
                     /\ a # <<>> /\ p[Len(p)][1] \in Nat /\ a[Len(a)][1] \in Nat
                     /\ p[Len(p)][1] <= a[Len(a)][1]
  <2>1. a \in Seq(Nat \X Titles) /\ p \in Seq(Nat \X Titles)
    BY <1>2, <1>3, <1>4
  <2> QED
    BY <1>3, <1>5, <2>1, RisingPrefix
<1>7. ToSet(p) \subseteq ToSet(b)
  <2>1. b \in Seq(Nat \X Titles) /\ p \in Seq(Nat \X Titles)
    BY <1>2, <1>3, <1>4
  <2> QED
    BY <1>3, <1>5, <2>1, RisingPrefix
<1>8. ASSUME p # <<>> PROVE ToSet(p) = Upto(p[Len(p)][1], PathAt(c.start))
  <2> DEFINE l == p[Len(p)][1]
             k == a[Len(a)][1]
  <2>1. ToSet(p) = Upto(l, ToSet(a)) /\ l \in Nat /\ k \in Nat /\ l <= k /\ a # <<>>
    BY <1>6, <1>8
  <2>2. ToSet(a) = Upto(k, PathAt(c.start))
    BY <2>1 DEF Truthful, a
  <2> HIDE DEF l, k
  <2>3. \A x \in PathAt(c.start) : x[1] \in Nat
    BY PathLevels
  <2>4. Upto(l, Upto(k, PathAt(c.start))) = Upto(l, PathAt(c.start))
    BY <2>1, <2>3 DEF Upto
  <2> QED
    BY <2>1, <2>2, <2>4 DEF l
<1>9. ASSUME NEW j \in DOMAIN doc, c.start <= doc[j].start, doc[j].start < d.end
      PROVE  Upto(primary, ToSet(p)) \subseteq PathAt(doc[j].start)
  <2>1. /\ doc[j].start \in Nat /\ c.end \in Nat /\ d.start \in Nat
    <3>1. doc[j] \in Line
      BY DEF LinesOK
    <3> QED
      BY <3>1 DEF Line, Chunk
  <2>2. CASE doc[j].start < c.end
    <3>1. Upto(primary, ToSet(a)) \subseteq PathAt(doc[j].start)
      BY <1>9, <2>2 DEF Truthful, a
    <3> QED
      BY <1>6, <3>1 DEF Upto
  <2>3. CASE d.start <= doc[j].start
    <3>1. Upto(primary, ToSet(b)) \subseteq PathAt(doc[j].start)
      BY <1>9, <2>3 DEF Truthful, b
    <3> QED
      BY <1>7, <3>1 DEF Upto
  <2> QED
    BY <2>1, <2>2, <2>3
<1>10. ~ (Len(Joined(c, d).text) = 1)
  <2>1. Joined(c, d).text \in Seq(Piece)
    BY JoinedTyped DEF Chunk
  <2> DEFINE n == Len(Joined(c, d).text)
  <2>2. n \in Nat /\ n > 1
    BY <2>1
  <2> HIDE DEF n
  <2>3. n # 1
    BY <2>2
  <2> QED
    BY <2>3 DEF n
<1> DEFINE j == Joined(c, d)
<1> HIDE DEF j
<1>11. j.start = c.start /\ j.end = d.end /\ j.crumb = p /\ ~ (Len(j.text) = 1)
  BY <1>1, <1>10 DEF j
<1>12. Truthful(j)
  BY <1>6, <1>8, <1>9, <1>11 DEF Truthful
<1> QED
  BY <1>12 DEF j

-------------------------------------------------------------------------------
\* The strengthening of CrumbsTrue: before each section the hierarchy holds the
\* headings that are open there, and every chunk made so far is truthful.
CrumbInv ==
  /\ HeadingLines
  /\ pc \in {"profile", "fallback"} => primary = 0
  /\ pc = "profile" => hier = NewHierarchy
  /\ pc \in {"split", "inner"} =>
       /\ Clean(hier) /\ HeadingsOf(hier) = Path(1 .. sec - 1)
       /\ sec = 1 \/ sec = Len(doc) + 1 \/ Opens(sec, primary)
  /\ pc = "inner" =>
       /\ Section(seed, from)
       /\ \A j \in from + 1 .. sec - 1 : ~ Opens(j, primary)
  /\ primary > 0 =>
       /\ \A i \in 1 .. Len(out) : Truthful(out[i])
       /\ \A i \in 1 .. Len(result) : Truthful(result[i])
       /\ pc = "coalesce" => Truthful(cur)

\* The parts of CrumbInv in the next state, once the document has been read.
LEMMA CrumbNext ==
  ASSUME doc' = doc, primary' = primary, HeadingLines,
         pc' \in {"profile", "fallback"} => primary = 0,
         pc' = "profile" => hier' = NewHierarchy,
         pc' \in {"split", "inner"} =>
           /\ Clean(hier') /\ HeadingsOf(hier') = Path(1 .. sec' - 1)
           /\ sec' = 1 \/ sec' = Len(doc) + 1 \/ Opens(sec', primary),
         pc' = "inner" =>
           /\ Section(seed', from')
           /\ \A j \in from' + 1 .. sec' - 1 : ~ Opens(j, primary),
         primary > 0 =>
           /\ \A i \in 1 .. Len(out') : Truthful(out'[i])
           /\ \A i \in 1 .. Len(result') : Truthful(result'[i])
           /\ pc' = "coalesce" => Truthful(cur')
  PROVE  CrumbInv'
<1>1. HeadingLines'
  BY DEF HeadingLines
<1>2. /\ Path(1 .. sec - 1)' = Path(1 .. sec' - 1)
      /\ Path(1 .. from)' = Path(1 .. from') /\ Path({})' = Path({})
  BY DEF Path, Opened, IsHeading, IsFence
<1>3. /\ Opens(sec, primary)' <=> Opens(sec', primary)
      /\ Opens(from, primary)' <=> Opens(from', primary)
      /\ \A j : Opens(j, primary)' <=> Opens(j, primary)
  BY DEF Opens, IsHeading, IsFence
<1>4. /\ Clean(hier)' <=> Clean(hier')
      /\ Clean(seed)' <=> Clean(seed')
      /\ HeadingsOf(hier)' = HeadingsOf(hier')
      /\ HeadingsOf(seed)' = HeadingsOf(seed')
  BY DEF Clean, HeadingsOf
<1>5. Section(seed, from)' <=> Section(seed', from')
  BY <1>2, <1>3, <1>4 DEF Section
<1>6. \A pos : PathAt(pos)' = PathAt(pos)
  BY DEF PathAt, FencesBefore
<1>7. /\ \A i : Truthful(out[i])' <=> Truthful(out'[i])
      /\ \A i : Truthful(result[i])' <=> Truthful(result'[i])
      /\ Truthful(cur)' <=> Truthful(cur')
  BY <1>6 DEF Truthful
<1> QED
  BY <1>1, <1>2, <1>3, <1>4, <1>5, <1>7 DEF CrumbInv

\* What is appended to truthful chunks.
LEMMA TruthfulAppend ==
  ASSUME NEW o \in Seq(Chunk), \A i \in 1 .. Len(o) : Truthful(o[i]),
         NEW c, Truthful(c)
  PROVE  LET p == Append(o, c) IN \A i \in 1 .. Len(p) : Truthful(p[i])
<1> DEFINE p == Append(o, c)
           N == Len(o)
<1>1. /\ N \in Nat /\ Len(p) = N + 1 /\ p[N + 1] = c
      /\ \A i \in 1 .. N : p[i] = o[i]
  <2>1. IsList(o)
    BY DEF IsList
  <2> QED
    BY <2>1, AppendToList
<1> HIDE DEF p
<1>2. \A i \in 1 .. N + 1 : Truthful(p[i])
  <2> SUFFICES ASSUME NEW i \in 1 .. N + 1 PROVE Truthful(p[i])
    OBVIOUS
  <2>1. CASE i = N + 1
    BY <1>1, <2>1
  <2>2. CASE i \in 1 .. N
    BY <1>1, <2>2
  <2> QED
    BY <1>1, <2>1, <2>2
<1> QED
  BY <1>1, <1>2 DEF p

\* A new hierarchy holds nothing.
LEMMA NewHolds ==
  NewHierarchy \in Hierarchy /\ Clean(NewHierarchy) /\ HeadingsOf(NewHierarchy) = {}
BY NewTyped DEF NewHierarchy, Clean, HeadingsOf

\* Before the first line no heading is open.
LEMMA PathOfNothing == Path({}) = {}
BY DEF Path, Opened

\* Reading a line keeps the invariant.
LEMMA ReadCrumbs ==
  ASSUME CoverInv, TypeOK, CrumbInv, NEW s \in LineShapes, ReadLine(s)
  PROVE  CrumbInv'
<1>1. /\ pc = "profile" /\ doc' = Append(doc, At(s, TextEnd))
      /\ UNCHANGED <<pc, primary, hier, out, result>>
  BY DEF ReadLine, sectionVars, mergeVars
<1>2. primary = 0 /\ hier = NewHierarchy
  BY <1>1 DEF CrumbInv
<1>3. doc \in Seq(Line) /\ Len(doc) \in Nat
  BY DEF CoverInv, LinesOK
<1>4. HeadingLines'
  <2> DEFINE l == At(s, TextEnd)
             N == Len(doc)
  <2>1. l.kind = "heading" => l.level \in Levels /\ l.title \in Titles
    BY LinesAssumption DEF At
  <2>2. /\ DOMAIN doc' = 1 .. N + 1 /\ DOMAIN doc = 1 .. N /\ N \in Nat
        /\ doc'[N + 1] = l /\ \A j \in 1 .. N : doc'[j] = doc[j]
    <3>1. IsList(doc) /\ doc' = Append(doc, l)
      BY <1>1, <1>3 DEF IsList
    <3> HIDE DEF l
    <3>2. /\ Len(doc') = N + 1 /\ doc'[N + 1] = l /\ \A j \in 1 .. N : doc'[j] = doc[j]
      BY <3>1, AppendToList
    <3>3. DOMAIN doc' = 1 .. Len(doc')
      <4>1. IsList(doc')
        BY <3>1, AppendToList
      <4> QED
        BY <4>1 DEF IsList
    <3> QED
      BY <1>3, <3>2, <3>3
  <2> HIDE DEF l, N
  <2>3. ASSUME NEW j \in 1 .. N + 1, doc'[j].kind = "heading"
        PROVE  doc'[j].level \in Levels /\ doc'[j].title \in Titles
    <3>1. CASE j = N + 1
      BY <2>1, <2>2, <2>3, <3>1
    <3>2. CASE j \in 1 .. N
      BY <2>2, <2>3, <3>2 DEF CrumbInv, HeadingLines
    <3> QED
      BY <2>2, <3>1, <3>2
  <2> QED
    BY <2>2, <2>3 DEF HeadingLines
<1>5. primary' = 0 /\ ~ (primary' > 0) /\ pc' = "profile" /\ hier' = NewHierarchy
  BY <1>1, <1>2
<1> QED
  BY <1>4, <1>5 DEF CrumbInv, NewHierarchy, Levels

\* So does the start of the loop over the sections ...
LEMMA StartCrumbs ==
  ASSUME CoverInv, TypeOK, CrumbInv, StartSections
  PROVE  CrumbInv'
<1>1. /\ pc = "profile" /\ pc' = "split"
      /\ UNCHANGED <<doc, hier, sec, out, result>>
  BY DEF StartSections, mergeVars
<1>2. hier = NewHierarchy /\ sec = 1 /\ out = <<>> /\ result = <<>>
  BY <1>1 DEF CrumbInv, CoverInv, PhaseOK
<1>3. HeadingsOf(hier') = {} /\ Clean(hier')
  BY <1>1, <1>2, NewHolds
<1>4. HeadingLines'
  BY <1>1 DEF CrumbInv, HeadingLines
<1>5. 1 .. Len(out') = {} /\ 1 .. Len(result') = {}
  BY <1>1, <1>2
<1>6. 1 .. sec' - 1 = {} /\ sec' = 1
  BY <1>1, <1>2
<1>7. Path(1 .. sec - 1)' = {}
  BY <1>6 DEF Path, Opened
<1> QED
  BY <1>1, <1>3, <1>4, <1>5, <1>6, <1>7 DEF CrumbInv

\* The heading of a section, and then its deeper ones, are observed.
LEMMA SectionCrumbs ==
  ASSUME CoverInv, TypeOK, CrumbInv, NEW e \in 1 .. Len(doc) + 1, NextSection(e)
  PROVE  CrumbInv'
<1>1. /\ pc = "split" /\ pc' \in {"split", "inner"} /\ sec \in 1 .. Len(doc)
      /\ doc' = doc /\ primary' = primary /\ from' = sec /\ sec' = e
      /\ result' = result
      /\ seed' = IF Opens(sec, primary) THEN Observe(hier, doc[sec]) ELSE hier
      /\ hier' = ObserveDeeper(seed', sec, e - 1, TextEnd)
      /\ \/ out' = out
         \/ out' = Append(out, MakeChunk(StartOf(sec), StartOf(e), 0, Breadcrumb(seed')))
      /\ SectionEnd(sec, e)
  <2>1. sec \in 1 .. Len(doc)
    <3>1. sec \in 1 .. Len(doc) + 1 /\ Len(doc) \in Nat /\ sec <= Len(doc)
      BY DEF NextSection, CoverInv, LinesOK
    <3> QED
      BY <3>1
  <2> QED
    BY <2>1 DEF NextSection, mergeVars
<1>2. LinesOK /\ HeadingLines /\ Len(doc) \in Nat /\ primary \in Nat
  <2>1. primary \in 0 .. MaxLevel
    BY DEF TypeOK
  <2> QED
    BY <2>1, LevelsAre DEF CoverInv, LinesOK, CrumbInv
<1> DEFINE f == sec
           J == 1 .. f - 1
<1>3. /\ f \in 1 .. Len(doc) /\ e \in f + 1 .. Len(doc) + 1 /\ e - 1 \in f .. Len(doc)
      /\ f \in Nat /\ e \in Nat /\ f \in 1 .. Len(doc) + 1
  BY <1>1, <1>2 DEF SectionEnd
<1>4. /\ \A j \in f + 1 .. e - 1 : ~ Opens(j, primary)
      /\ e = Len(doc) + 1 \/ Opens(e, primary)
  <2>1. e <= Len(doc) \/ e = Len(doc) + 1
    BY <1>2, <1>3
  <2> QED
    BY <1>1, <2>1 DEF SectionEnd
<1>5. /\ hier \in Hierarchy /\ Clean(hier) /\ HeadingsOf(hier) = Path(J)
      /\ f = 1 \/ Opens(f, primary)
  <2>1. f # Len(doc) + 1
    BY <1>2, <1>3
  <2> QED
    BY <1>1, <2>1 DEF CrumbInv, TypeOK, Hierarchy
<1>6. Section(seed', f)
  <2>1. CASE Opens(f, primary)
    <3>1. IsHeading(1, f) /\ seed' = Observe(hier, doc[f])
      BY <1>1, <2>1 DEF Opens
    <3>2. J \in SUBSET (1 .. f - 1)
      OBVIOUS
    <3>3. J \cup {f} = 1 .. f
      BY <1>3
    <3> HIDE DEF J, f
    <3>4. seed' \in Hierarchy /\ Clean(seed') /\ HeadingsOf(seed') = Path(J \cup {f})
      BY <1>2, <1>3, <1>5, <3>1, <3>2, ObserveShows
    <3> QED
      BY <2>1, <3>3, <3>4 DEF Section
  <2>2. CASE ~ Opens(f, primary)
    <3>1. f = 1 /\ seed' = hier
      BY <1>1, <1>5, <2>2
    <3>2. J = {}
      BY <3>1
    <3> HIDE DEF J, f
    <3> QED
      BY <1>5, <2>2, <3>1, <3>2 DEF Section
  <2> QED
    BY <2>1, <2>2
<1>7. StartOf(f) \in Nat /\ StartOf(e) \in Nat /\ StartOf(f) < StartOf(e)
  <2>1. f < e
    BY <1>3
  <2> QED
    BY <1>2, <1>3, <2>1, StartsGrow
<1>8. Clean(hier') /\ HeadingsOf(hier') = Path(1 .. e - 1)
  <2>1. TextEnd \in Nat /\ doc[f].start <= TextEnd
    <3>1. StartOf(f) = doc[f].start /\ f \in 1 .. Len(doc) + 1
      BY <1>2, <1>3 DEF StartOf
    <3> QED
      BY <1>2, <3>1, StartsGrow DEF LinesOK
  <2>2. Upwards(e - 1, TextEnd) = 1 .. e - 1
    <3>1. \A m \in 1 .. e - 1 : doc[m].start <= TextEnd
      <4> SUFFICES ASSUME NEW m \in 1 .. e - 1 PROVE doc[m].start <= TextEnd
        OBVIOUS
      <4>1. m \in 1 .. Len(doc)
        BY <1>2, <1>3
      <4>2. StartOf(m) = doc[m].start /\ m \in 1 .. Len(doc) + 1
        BY <1>2, <4>1 DEF StartOf
      <4> QED
        BY <1>2, <4>2, StartsGrow
    <3> QED
      BY <3>1 DEF Upwards
  <2> HIDE DEF f
  <2> DEFINE h == seed'
             t == e - 1
             end == TextEnd
  <2>3. hier' = ObserveDeeper(h, f, t, end)
    BY <1>1 DEF f
  <2>4. Section(h, f) /\ t \in f .. Len(doc) /\ end \in Nat /\ doc[f].start <= end
        /\ \A j \in f + 1 .. t : ~ Opens(j, primary)
    BY <1>3, <1>4, <1>6, <2>1
  <2> HIDE DEF h, t, end
  <2>5. /\ Clean(ObserveDeeper(h, f, t, end))
        /\ HeadingsOf(ObserveDeeper(h, f, t, end)) = Path(Upwards(t, end))
    BY <1>2, <1>3, <2>4, WalkShows
  <2> QED
    BY <2>2, <2>3, <2>5 DEF t, end
<1>9. primary > 0 => \A i \in 1 .. Len(out') : Truthful(out'[i])
  <2> SUFFICES ASSUME primary > 0 PROVE \A i \in 1 .. Len(out') : Truthful(out'[i])
    OBVIOUS
  <2>1. \A i \in 1 .. Len(out) : Truthful(out[i])
    BY DEF CrumbInv
  <2> DEFINE crumb == Breadcrumb(seed')
             c == MakeChunk(StartOf(f), StartOf(e), 0, crumb)
  <2>2. CASE out' = out
    BY <2>1, <2>2
  <2>3. CASE out' = Append(out, c)
    <3>1. /\ crumb \in Seq(Nat \X Titles) /\ Rising(crumb)
          /\ ToSet(crumb) = HeadingsOf(seed') /\ crumb \in Crumb
      <4> DEFINE h == seed'
      <4>1. h \in Hierarchy /\ Clean(h)
        BY <1>6 DEF Section
      <4> HIDE DEF h
      <4> QED
        BY <4>1, BreadcrumbShows, BreadcrumbTyped DEF h
    <3>2. \/ ToSet(crumb) = PathAt(StartOf(f))
          \/ StartOf(f) = 0 /\ crumb = <<>>
      <4>1. CASE Opens(f, primary)
        <5>1. HeadingsOf(seed') = Path(1 .. f)
          BY <1>6, <4>1 DEF Section
        <5>2. LinesTo(StartOf(f)) = 1 .. f
          <6> DEFINE s == StartOf(f)
          <6>1. s \in Nat /\ StartOf(f) <= s /\ s < StartOf(e) /\ s = StartOf(f)
            BY <1>7
          <6> HIDE DEF s
          <6> QED
            BY <1>2, <1>3, <6>1, LinesBelow
        <5> QED
          BY <3>1, <5>1, <5>2, PathIs
      <4>2. CASE ~ Opens(f, primary)
        <5>1. f = 1 /\ HeadingsOf(seed') = {}
          BY <1>5, <1>6, <4>2, PathOfNothing DEF Section
        <5>2. StartOf(1) = 0
          BY <1>2, <1>3, StartsGrow
        <5>3. crumb = <<>>
          <6>1. ToSet(crumb) = {}
            BY <3>1, <5>1
          <6> HIDE DEF crumb
          <6> QED
            BY <3>1, <6>1 DEF ToSet
        <5> QED
          BY <5>1, <5>2, <5>3
      <4> QED
        BY <4>1, <4>2
    <3> HIDE DEF crumb
    <3>3. c.start = StartOf(f) /\ c.end = StartOf(e) /\ c.crumb = crumb
      BY DEF MakeChunk
    <3> HIDE DEF c, f
    <3>4. Truthful(c)
      <4> DEFINE s == StartOf(f)
      <4>1. /\ s \in Nat /\ StartOf(f) <= s /\ c.start = s /\ c.end \in Nat
            /\ c.end <= StartOf(e)
            /\ ToSet(c.crumb) = PathAt(s) \/ (s = 0 /\ c.crumb = <<>>)
        BY <1>7, <3>2, <3>3
      <4>2. c.crumb \in Seq(Nat \X Titles) /\ Rising(c.crumb)
        BY <3>1, <3>3
      <4> HIDE DEF s
      <4> QED
        BY <1>2, <1>3, <1>4, <4>1, <4>2, MadeTruthful
    <3>5. out \in Seq(Chunk)
      BY DEF TypeOK
    <3> QED
      BY <2>1, <2>3, <3>4, <3>5, TruthfulAppend
  <2> QED
    BY <1>1, <2>2, <2>3
<1>10. primary > 0 => \A i \in 1 .. Len(result') : Truthful(result'[i])
  BY <1>1 DEF CrumbInv
<1> QED
  BY <1>1, <1>2, <1>4, <1>6, <1>8, <1>9, <1>10, CrumbNext

\* split_text() cuts a section: the breadcrumb is looked up where the chunk starts.
LEMMA SplitCrumbs ==
  ASSUME CoverInv, TypeOK, CrumbInv, SplitText
  PROVE  CrumbInv'
<1>1. PICK s \in InnerStarts(out, StartOf(from)),
           e \in InnerEnds(out, StartOf(from), StartOf(sec)) :
        \E x \in Headers(s, e) :
          IF pc = "inner" THEN InnerChunk(s, e, x) ELSE FallbackChunk(s, e, x)
  BY DEF SplitText
<1>2. PICK x \in Headers(s, e) :
        IF pc = "inner" THEN InnerChunk(s, e, x) ELSE FallbackChunk(s, e, x)
  BY <1>1
<1>3. pc \in {"inner", "fallback"} /\ HeadingLines
  BY DEF SplitText, CrumbInv
<1>4. CASE pc = "fallback"
  <2>1. /\ doc' = doc /\ primary' = primary /\ pc' \in {"fallback", "done"}
    BY <1>2, <1>4 DEF FallbackChunk
  <2>2. primary = 0 /\ ~ (primary > 0)
    BY <1>4 DEF CrumbInv
  <2> QED
    BY <1>3, <2>1, <2>2, CrumbNext
<1>5. CASE pc = "inner"
  <2>1. /\ out' = Append(out, MakeChunk(s, e, x, CrumbAt(s)))
        /\ pc' \in {"inner", "split"}
        /\ UNCHANGED <<doc, primary, hier, seed, from, sec, result>>
    BY <1>2, <1>5 DEF InnerChunk, mergeVars
  <2>2. /\ Section(seed, from)
        /\ \A j \in from + 1 .. sec - 1 : ~ Opens(j, primary)
        /\ Clean(hier) /\ HeadingsOf(hier) = Path(1 .. sec - 1)
        /\ sec = 1 \/ sec = Len(doc) + 1 \/ Opens(sec, primary)
        /\ primary > 0 => /\ \A i \in 1 .. Len(out) : Truthful(out[i])
                          /\ \A i \in 1 .. Len(result) : Truthful(result[i])
    BY <1>5 DEF CrumbInv
  <2>3. /\ s \in Nat /\ e \in Nat /\ StartOf(from) \in Nat /\ StartOf(from) <= s
        /\ s < StartOf(sec) /\ e <= StartOf(sec)
    <3>1. /\ s \in Nat /\ e \in Nat /\ StartOf(from) \in Nat /\ StartOf(from) <= s
          /\ s <= Reach(out) /\ Reach(out) < e /\ e <= StartOf(sec) /\ Reach(out) \in Nat
      BY <1>3, InnerFacts
    <3>2. sec \in 1 .. Len(doc) + 1 /\ LinesOK
      BY DEF CoverInv
    <3>3. StartOf(sec) \in Nat
      BY <3>2, StartsGrow
    <3> QED
      BY <3>1, <3>3
  <2>4. LinesOK /\ Len(doc) \in Nat /\ primary \in Nat /\ out \in Seq(Chunk)
    <3>1. primary \in 0 .. MaxLevel
      BY DEF TypeOK
    <3>2. out \in Seq(Chunk)
      BY DEF TypeOK
    <3>3. LinesOK /\ Len(doc) \in Nat
      BY DEF CoverInv, LinesOK
    <3> QED
      BY <3>1, <3>2, <3>3, LevelsAre
  <2>5. from \in 1 .. Len(doc) /\ sec \in from + 1 .. Len(doc) + 1 /\ sec - 1 \in from .. Len(doc)
    <3>1. from < sec /\ from \in 1 .. Len(doc) + 1 /\ sec \in 1 .. Len(doc) + 1
      BY <1>5 DEF CoverInv, PhaseOK
    <3> QED
      BY <2>4, <3>1
  <2> DEFINE o == ObserveDeeper(seed, from, sec - 1, s)
             c == MakeChunk(s, e, x, Breadcrumb(o))
  <2>6. Upwards(sec - 1, s) = LinesTo(s) /\ doc[from].start <= s
    BY <2>3, <2>4, <2>5, LinesBelow
  <2>7. o \in Hierarchy /\ Clean(o) /\ HeadingsOf(o) = PathAt(s)
    <3> DEFINE t == sec - 1
    <3>1. t \in from .. Len(doc) /\ \A j \in from + 1 .. t : ~ Opens(j, primary)
      BY <2>2, <2>5
    <3> HIDE DEF t
    <3>2. LET w == ObserveDeeper(seed, from, t, s)
          IN  w \in Hierarchy /\ Clean(w) /\ HeadingsOf(w) = Path(Upwards(t, s))
      BY <1>3, <2>2, <2>3, <2>4, <2>5, <2>6, <3>1, WalkShows
    <3> QED
      BY <2>6, <3>2, PathIs DEF t
  <2>8. c.start = s /\ c.end = e /\ c.crumb = Breadcrumb(o)
    BY DEF MakeChunk
  <2>9. out' = Append(out, c)
    BY <2>1 DEF CrumbAt
  <2> HIDE DEF c, o
  <2>10. Truthful(c)
    <3>1. /\ c.crumb \in Seq(Nat \X Titles) /\ Rising(c.crumb)
          /\ ToSet(c.crumb) = PathAt(s)
      BY <2>7, <2>8, BreadcrumbShows
    <3>2. c.start = s /\ c.end \in Nat /\ c.end <= StartOf(sec)
      BY <2>3, <2>8
    <3> QED
      BY <1>3, <2>2, <2>3, <2>4, <2>5, <3>1, <3>2, MadeTruthful
  <2>11. primary > 0 => \A i \in 1 .. Len(out') : Truthful(out'[i])
    BY <2>2, <2>4, <2>9, <2>10, TruthfulAppend
  <2>12. pc' # "profile" /\ pc' # "fallback" /\ pc' # "coalesce"
    BY <2>1
  <2> QED
    BY <1>3, <2>1, <2>2, <2>11, <2>12, CrumbNext
<1> QED
  BY <1>3, <1>4, <1>5

\* Coalescing keeps to truthful chunks.
LEMMA CoalesceCrumbs ==
  ASSUME CoverInv, TypeOK, HandOK, TextInv, CrumbInv,
         StartCoalescing \/ Coalesce \/ FinishCoalescing
  PROVE  CrumbInv'
<1>1. /\ out \in Seq(Chunk) /\ result \in Seq(Chunk) /\ Len(out) \in Nat
      /\ nxt \in 1 .. Len(out) + 1 /\ size \in Nat
  <2>1. out \in Seq(Chunk) /\ result \in Seq(Chunk)
    BY DEF TypeOK
  <2>2. nxt \in 1 .. Len(out) + 1 /\ size \in Nat
    BY DEF TypeOK
  <2>3. Len(out) \in Nat
    BY <2>1
  <2> QED
    BY <2>1, <2>2, <2>3
<1>2. /\ pc \in {"split", "coalesce"} /\ pc' \in {"coalesce", "done"}
      /\ UNCHANGED <<doc, primary, out>>
  BY DEF StartCoalescing, Coalesce, FinishCoalescing, sectionVars
<1>3. /\ HeadingLines
      /\ primary > 0 => /\ \A i \in 1 .. Len(out) : Truthful(out[i])
                        /\ \A i \in 1 .. Len(result) : Truthful(result[i])
                        /\ pc = "coalesce" => Truthful(cur)
  BY DEF CrumbInv
<1>4. LinesOK /\ primary \in Nat
  <2>1. primary \in 0 .. MaxLevel
    BY DEF TypeOK
  <2> QED
    BY <2>1, LevelsAre DEF CoverInv
<1>5. ASSUME primary > 0
      PROVE  /\ \A i \in 1 .. Len(result') : Truthful(result'[i])
             /\ pc' = "coalesce" => Truthful(cur')
  <2>1. CASE StartCoalescing
    <3>1. \/ result' = out /\ pc' = "done"
          \/ result' = result /\ cur' = out[1] /\ 1 \in 1 .. Len(out)
      BY <1>1, <2>1 DEF StartCoalescing
    <3>2. CASE result' = out /\ pc' = "done"
      BY <1>3, <1>5, <3>2
    <3>3. CASE result' = result /\ cur' = out[1] /\ 1 \in 1 .. Len(out)
      BY <1>3, <1>5, <3>3
    <3> QED
      BY <3>1, <3>2, <3>3
  <2>2. CASE Coalesce
    <3> DEFINE d == out[nxt]
               b == out[nxt - 1]
    <3>1. /\ pc = "coalesce"
          /\ \/ Joinable(cur, d) /\ cur' = Joined(cur, d) /\ result' = result
             \/ cur' = d /\ result' = Append(result, cur)
      BY <2>2 DEF Coalesce
    <3>2. nxt \in 2 .. Len(out)
      <4>1. nxt <= Len(out) /\ nxt \in 2 .. Len(out) + 1
        BY <2>2 DEF Coalesce, CoverInv, JoinOK
      <4> QED
        BY <1>1, <4>1
    <3>3. /\ nxt \in 1 .. Len(out) /\ nxt - 1 \in 1 .. Len(out) /\ nxt - 1 \in 1 .. Len(out) - 1
          /\ (nxt - 1) + 1 = nxt
      BY <1>1, <3>2
    <3>4. cur \in Chunk /\ d \in Chunk /\ b \in Chunk
      BY <1>1, <3>1, <3>3 DEF HandOK
    <3>5. /\ Whole(cur) /\ cur.text[Len(cur.text)] = b.text[1]
          /\ Whole(d) /\ Whole(b) /\ Len(d.text) = 1 /\ Len(b.text) = 1
          /\ Guarded(b, d)
      BY <3>1, <3>3 DEF TextInv
    <3>6. Truthful(cur) /\ Truthful(d)
      BY <1>3, <1>5, <3>1, <3>3
    <3> HIDE DEF d, b
    <3>7. CASE Joinable(cur, d) /\ cur' = Joined(cur, d) /\ result' = result
      <4>1. Len(Joined(cur, d).text) > 1
        BY <1>1, <3>4, <3>5, <3>7, JoinedWhole
      <4>2. cur.end = d.start
        BY <3>7 DEF Joinable
      <4>3. Truthful(Joined(cur, d))
        BY <1>4, <3>4, <3>6, <4>1, <4>2, JoinedTruthful
      <4> QED
        BY <1>3, <1>5, <3>7, <4>3
    <3>8. CASE cur' = d /\ result' = Append(result, cur)
      <4>1. \A i \in 1 .. Len(result') : Truthful(result'[i])
        BY <1>1, <1>3, <1>5, <3>6, <3>8, TruthfulAppend
      <4> QED
        BY <3>6, <3>8, <4>1
    <3> QED
      BY <3>1, <3>7, <3>8
  <2>3. CASE FinishCoalescing
    <3>1. pc = "coalesce" /\ pc' = "done" /\ result' = Append(result, cur)
      BY <2>3 DEF FinishCoalescing
    <3>2. \A i \in 1 .. Len(result') : Truthful(result'[i])
      BY <1>1, <1>3, <1>5, <3>1, TruthfulAppend
    <3> QED
      BY <3>1, <3>2
  <2> QED
    BY <2>1, <2>2, <2>3
<1>6. pc' \notin {"profile", "fallback", "split", "inner"}
  BY <1>2
<1> QED
  BY <1>2, <1>3, <1>5, <1>6, CrumbNext

\* Every step keeps CrumbInv.
LEMMA CrumbStep ==
  ASSUME CoverInv, TypeOK, HandOK, TextInv, CrumbInv, [Next]_vars
  PROVE  CrumbInv'
<1>1. CASE \E s \in LineShapes : ReadLine(s)
  BY <1>1, ReadCrumbs
<1>2. CASE ReturnNothing \/ FallBack \/ UNCHANGED vars
  <2>1. /\ UNCHANGED <<doc, primary, hier, seed, out, result, cur>>
        /\ \/ pc = "profile" /\ pc' \in {"done", "fallback"}
           \/ UNCHANGED <<pc, from, sec>>
    BY <1>2 DEF ReturnNothing, FallBack, vars, sectionVars, mergeVars
  <2> QED
    BY <2>1, CrumbNext DEF CrumbInv
<1>3. CASE StartSections
  BY <1>3, StartCrumbs
<1>4. CASE \E e \in 1 .. Len(doc) + 1 : NextSection(e)
  BY <1>4, SectionCrumbs
<1>5. CASE SplitText
  BY <1>5, SplitCrumbs
<1>6. CASE StartCoalescing \/ Coalesce \/ FinishCoalescing
  BY <1>6, CoalesceCrumbs
<1> QED
  BY <1>1, <1>2, <1>3, <1>4, <1>5, <1>6, StepCases

\* The breadcrumb of every chunk names the headings that are open where it starts,
\* with none left out between them, and no major one of them ends within it.
THEOREM CrumbsCorrect == Spec => []CrumbsTrue
<1>1. Init => CrumbInv
  <2> SUFFICES ASSUME Init PROVE CrumbInv
    OBVIOUS
  <2>1. doc = <<>> /\ pc = "profile" /\ primary = 0 /\ ~ (primary > 0) /\ hier = NewHierarchy
    BY DEF Init
  <2>2. HeadingLines
    BY <2>1 DEF HeadingLines
  <2> QED
    BY <2>1, <2>2 DEF CrumbInv
<1>2. /\ CoverInv /\ TypeOK /\ HandOK /\ TextInv /\ CrumbInv /\ [Next]_vars
      => CrumbInv'
  BY CrumbStep
<1>3. TypeOK /\ CrumbInv => CrumbsTrue
  <2> SUFFICES ASSUME TypeOK, CrumbInv, NEW i \in DOMAIN result, primary > 0
               PROVE  LET c == result[i]
                      IN  /\ LeadsTo(c.crumb, PathAt(c.start))
                          /\ Len(c.text) = 1 /\ c.start > 0 => ToSet(c.crumb) = PathAt(c.start)
                          /\ \A j \in DOMAIN doc :
                               c.start <= doc[j].start /\ doc[j].start < c.end =>
                                 Upto(primary, ToSet(c.crumb)) \subseteq PathAt(doc[j].start)
    BY DEF CrumbsTrue
  <2> DEFINE c == result[i]
  <2>0. result \in Seq(Chunk)
    BY DEF TypeOK
  <2>1. result \in Seq(Chunk) /\ i \in 1 .. Len(result)
    BY <2>0
  <2>2. Truthful(c)
    BY <2>1 DEF CrumbInv
  <2>3. c \in Chunk
    BY <2>1
  <2> HIDE DEF c
  <2>4. \A k \in 1 .. Len(c.crumb) - 1 : c.crumb[k][1] < c.crumb[k + 1][1]
    <3>1. Len(c.crumb) \in Nat
      BY <2>3 DEF Chunk, Crumb
    <3> SUFFICES ASSUME NEW k \in 1 .. Len(c.crumb) - 1
                 PROVE  c.crumb[k][1] < c.crumb[k + 1][1]
      OBVIOUS
    <3>2. k \in 1 .. Len(c.crumb) /\ k + 1 \in 1 .. Len(c.crumb) /\ k < k + 1
      BY <3>1
    <3> QED
      BY <2>2, <3>2 DEF Truthful, Rising
  <2>5. LeadsTo(c.crumb, PathAt(c.start))
    BY <2>2, <2>4 DEF LeadsTo, Truthful
  <2> QED
    BY <2>2, <2>5 DEF Truthful, c
<1> QED
  BY <1>1, <1>2, <1>3, TextsAlways, PTL DEF Spec

===============================================================================
