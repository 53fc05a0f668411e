--------------------------- MODULE MergeUnitsProofs ---------------------------
(***************************************************************************)
(* Proofs about merge_units(): for every set of units, every configuration *)
(* and every absolute maximum, the invariants that MCMergeUnits checks on  *)
(* a small instance.  They rest on one inductive invariant, IInv, and on   *)
(* what is inductive relative to it: Counted (lengths), ApartInv           *)
(* (neighbours), StaysInv (where a header travels) and CarryInv (the       *)
(* header of the table that is open).                                      *)
(***************************************************************************)
EXTENDS MergeUnits, SequenceTheorems, WellFoundedInduction, TLAPS

-------------------------------------------------------------------------------
(***************************************************************************)
(* The inductive invariant.                                                *)
(***************************************************************************)

\* A slice whose units are moreover in document order, whatever lies between
\* them: stated for all pairs, so that it needs no induction.
Laid(us) ==
  /\ IsSlice(us)
  /\ \A i, j \in 1 .. Len(us) : i < j => us[i].end <= us[j].start

Reach(cs) == IF cs = <<>> THEN 0 ELSE cs[Len(cs)].end
LastStart(cs) == IF cs = <<>> THEN 0 ELSE cs[Len(cs)].start

ChunkOK(c) ==
  /\ c \in Chunk
  /\ c.content # <<>>
  /\ Laid(c.content)
  /\ c.start = c.content[1].start
  /\ c.end = c.content[Len(c.content)].end
  /\ Allowed(c.content, RunLen(c.content, 1))

\* b comes after a, without a gap and not inside it.
Next2(a, b) ==
  /\ a.start <= b.start
  /\ b.start <= a.end
  /\ a.end <= b.end
  /\ ChunkSize <= AbsMax => a.end < b.end

ChunksOK(cs) ==
  /\ cs \in Seq(Chunk)
  /\ \A i \in 1 .. Len(cs) : ChunkOK(cs[i])
  /\ cs # <<>> => cs[1].start = 0
  /\ \A i \in 1 .. Len(cs) - 1 : Next2(cs[i], cs[i + 1])

\* us, n characters long, takes the document from the chunks cs on to pos.
Ready(cs, us, n, pos) ==
  /\ us \in Seq(Unit)
  /\ Laid(us)
  /\ n \in Nat
  /\ n = RunLen(us, 1)
  /\ us = <<>> => Reach(cs) = pos
  /\ us # <<>> => /\ us[Len(us)].end = pos
                  /\ LastStart(cs) <= us[1].start
                  /\ us[1].start <= Reach(cs)
                  /\ Reach(cs) <= pos

\* The chunk in hand fits and holds something that no chunk holds yet.
Fits(cs, us, n, pos) ==
  /\ us # <<>> => Allowed(us, n)
  /\ n <= AbsMax
  /\ us # <<>> /\ ChunkSize <= AbsMax => Reach(cs) < pos

RestOK ==
  rest # <<>> =>
    /\ phase = "merging"
    /\ current = <<>>
    /\ curLen = 0
    /\ rest[1].kind # "marker"
    /\ rest[1].len > 0
    /\ rest[1].end = rest[1].start + rest[1].len
    /\ rest[1].start = Reach(chunks)
    /\ rest[1].end = TextEnd

IInv ==
  /\ TypeOK
  /\ ChunksOK(chunks)
  /\ RestOK
  /\ phase = "merging" /\ rest = <<>> =>
       /\ Ready(chunks, current, curLen, TextEnd)
       /\ Fits(chunks, current, curLen, TextEnd)
  /\ phase = "done" => Reach(chunks) = TextEnd

\* What a unit read from the document is.
Fresh(u, pos) ==
  /\ u \in Unit
  /\ u.kind # "marker"
  /\ u.len > 0
  /\ u.start = pos
  /\ u.end = pos + u.len

-------------------------------------------------------------------------------
(***************************************************************************)
(* Sequences of units.                                                     *)
(***************************************************************************)
\* The numbers that describe a unit.
LEMMA UnitFields ==
  ASSUME NEW u \in Unit
  PROVE  u.start \in Nat /\ u.end \in Nat /\ u.len \in Nat /\ ShownExtra(u) \in Nat
BY DEF Unit, ShownExtra

\* A later part of a sequence of units.
LEMMA FromProperties ==
  ASSUME NEW us \in Seq(Unit), NEW k \in 1 .. Len(us) + 1
  PROVE  /\ From(us, k) \in Seq(Unit)
         /\ Len(From(us, k)) = Len(us) + 1 - k
         /\ \A i \in 1 .. Len(us) + 1 - k : From(us, k)[i] = us[k + i - 1]
         /\ From(us, k) = <<>> <=> k = Len(us) + 1
<1>1. \A i \in k .. Len(us) : us[i] \in Unit
  OBVIOUS
<1>2. /\ From(us, k) \in Seq(Unit)
      /\ Len(From(us, k)) = IF k <= Len(us) THEN Len(us) - k + 1 ELSE 0
      /\ \A i \in 1 .. Len(us) - k + 1 : From(us, k)[i] = us[k + i - 1]
  BY <1>1, SubSeqProperties DEF From
<1>3. From(us, k) # <<>> => Len(From(us, k)) # 0
  BY <1>2, EmptySeq, Zenon
<1>4. Len(<<>>) = 0
  OBVIOUS
<1>5. QED BY <1>2, <1>3, <1>4

\* Only the first unit of a slice can be a marker.
LEMMA MarkerIsFirst ==
  ASSUME NEW us \in Seq(Unit), IsSlice(us), NEW k \in 2 .. Len(us)
  PROVE  ~ IsMarker(us[k])
<1>1. k \in 1 .. Len(us) /\ k # 1
  OBVIOUS
<1>2. us[k] \in Unit
  BY <1>1
<1>3. us[k].end = us[k].start + us[k].len /\ us[k].len > 0
  BY <1>1 DEF IsSlice
<1>4. QED BY <1>2, <1>3, UnitFields DEF IsMarker

\* The positions of a slice increase.
LEMMA LaidOrdered ==
  ASSUME NEW us \in Seq(Unit), Laid(us), NEW k \in 1 .. Len(us)
  PROVE  us[1].start <= us[k].start /\ us[k].start <= us[Len(us)].end
<1>1. /\ 1 \in 1 .. Len(us) /\ Len(us) \in 1 .. Len(us)
      /\ us[1] \in Unit /\ us[k] \in Unit /\ us[Len(us)] \in Unit
  OBVIOUS
<1>2. \A i \in 1 .. Len(us) : us[i].start <= us[i].end
  <2> SUFFICES ASSUME NEW i \in 1 .. Len(us) PROVE us[i].start <= us[i].end
    OBVIOUS
  <2>1. us[i] \in Unit
    OBVIOUS
  <2>2. us[i].end = us[i].start \/ us[i].end = us[i].start + us[i].len
    BY DEF Laid, IsSlice
  <2>3. QED BY <2>1, <2>2, UnitFields
<1>3. us[1].start <= us[k].start
  <2>1. CASE k = 1
    BY <1>1, <2>1, UnitFields
  <2>2. CASE k # 1
    <3>1. us[1].end <= us[k].start
      BY <1>1, <2>2 DEF Laid
    <3>2. QED BY <1>1, <1>2, <3>1, UnitFields
  <2>3. QED BY <2>1, <2>2
<1>4. us[k].start <= us[Len(us)].end
  <2>1. CASE k = Len(us)
    BY <1>2, <2>1
  <2>2. CASE k # Len(us)
    <3>1. us[k].end <= us[Len(us)].start
      BY <1>1, <2>2 DEF Laid
    <3>2. us[k].start <= us[k].end /\ us[Len(us)].start <= us[Len(us)].end
      BY <1>1, <1>2
    <3>3. QED BY <1>1, <3>1, <3>2, UnitFields
  <2>3. QED BY <2>1, <2>2
<1>5. QED BY <1>3, <1>4

\* A later part of a slice is a slice, and not longer than the slice.
LEMMA FromLaid ==
  ASSUME NEW us \in Seq(Unit), Laid(us), NEW k \in 1 .. Len(us) + 1
  PROVE  /\ Laid(From(us, k))
         /\ RunLen(From(us, k), 1) = RunLen(us, k)
         /\ RunLen(us, k) \in Nat
         /\ RunLen(us, k) <= RunLen(us, 1)
<1> DEFINE fs == From(us, k)
<1>1. /\ fs \in Seq(Unit)
      /\ Len(fs) = Len(us) + 1 - k
      /\ \A i \in 1 .. Len(us) + 1 - k : fs[i] = us[k + i - 1]
  BY FromProperties
<1>2. Laid(fs)
  <2> HIDE DEF fs
  <2>1. IsSlice(fs)
    <3>1. \A i \in 1 .. Len(us) :
            /\ us[i].kind = "marker" => i = 1 /\ us[i].end = us[i].start
            /\ us[i].kind # "marker" => us[i].end = us[i].start + us[i].len /\ us[i].len > 0
      BY DEF Laid, IsSlice
    <3>2. \A i \in 1 .. Len(fs) : fs[i] = us[k + i - 1] /\ k + i - 1 \in 1 .. Len(us)
      BY <1>1
    <3>3. \A i \in 1 .. Len(fs) :
            /\ fs[i].kind = "marker" => i = 1 /\ fs[i].end = fs[i].start
            /\ fs[i].kind # "marker" => fs[i].end = fs[i].start + fs[i].len /\ fs[i].len > 0
      <4> SUFFICES ASSUME NEW i \in 1 .. Len(fs)
                   PROVE  /\ fs[i].kind = "marker" => i = 1 /\ fs[i].end = fs[i].start
                          /\ fs[i].kind # "marker" => fs[i].end = fs[i].start + fs[i].len
                                                      /\ fs[i].len > 0
        OBVIOUS
      <4> DEFINE j == k + i - 1
      <4>1. fs[i] = us[j] /\ j \in 1 .. Len(us)
        BY <3>2
      <4>2. j = 1 => i = 1
        BY <1>1
      <4> HIDE DEF j
      <4>3. QED BY <3>1, <4>1, <4>2
    <3>4. \A i \in 1 .. Len(fs) - 1 : fs[i + 1].start = fs[i].end
      <4> SUFFICES ASSUME NEW i \in 1 .. Len(fs) - 1 PROVE fs[i + 1].start = fs[i].end
        OBVIOUS
      <4> DEFINE j == k + i - 1
      <4>1. fs[i] = us[j] /\ fs[i + 1] = us[j + 1] /\ j \in 1 .. Len(us) - 1
        BY <1>1
      <4>2. us[j + 1].start = us[j].end
        BY <4>1 DEF Laid, IsSlice
      <4>3. QED BY <4>1, <4>2
    <3>5. QED BY <3>3, <3>4 DEF IsSlice
  <2>2. \A i, j \in 1 .. Len(fs) : i < j => fs[i].end <= fs[j].start
    BY <1>1 DEF Laid
  <2>3. QED BY <2>1, <2>2 DEF Laid
<1>3. RunLen(fs, 1) = RunLen(us, k)
  <2> HIDE DEF fs
  <2>1. CASE k = Len(us) + 1
    BY <1>1, <2>1 DEF RunLen
  <2>2. CASE k <= Len(us)
    <3>1. 1 <= Len(fs) /\ fs[1] = us[k] /\ fs[Len(fs)] = us[Len(us)]
      BY <1>1, <2>2
    <3>2. RunLen(fs, 1) = fs[Len(fs)].end - fs[1].start + ShownExtra(fs[1])
      BY <1>1, <3>1 DEF RunLen
    <3>3. RunLen(us, k) = us[Len(us)].end - us[k].start + ShownExtra(us[k])
      BY <2>2 DEF RunLen
    <3>4. QED BY <3>1, <3>2, <3>3
  <2>3. QED BY <2>1, <2>2
<1>4. RunLen(us, k) \in Nat /\ RunLen(us, k) <= RunLen(us, 1)
  <2> DEFINE last == us[Len(us)]
  <2>1. CASE us = <<>>
    BY <2>1 DEF RunLen
  <2>2. CASE us # <<>>
    <3>1. /\ 1 \in 1 .. Len(us) /\ Len(us) \in 1 .. Len(us)
          /\ us[1] \in Unit /\ last \in Unit
      BY <2>2, EmptySeq
    <3>3. us[1].start <= last.end
      BY <3>1, LaidOrdered
    <3>4. RunLen(us, 1) \in Nat /\ RunLen(us, 1) >= last.end - us[1].start
      BY <3>1, <3>3, UnitFields DEF RunLen
    <3>5. CASE k = Len(us) + 1
      BY <3>4, <3>5 DEF RunLen
    <3>6. CASE k = 1
      BY <3>4, <3>6
    <3>7. CASE k \in 2 .. Len(us)
      <4>1. us[k] \in Unit /\ k \in 1 .. Len(us)
        BY <3>7
      <4>2. RunLen(us, k) = last.end - us[k].start
        <5>1. ShownExtra(us[k]) = 0
          BY <3>7, MarkerIsFirst DEF Laid, ShownExtra
        <5>2. QED BY <3>1, <3>7, <4>1, <5>1, UnitFields DEF RunLen
      <4>3. us[1].start <= us[k].start /\ us[k].start <= last.end
        BY <4>1, LaidOrdered
      <4>4. QED BY <3>1, <3>4, <4>1, <4>2, <4>3, UnitFields
    <3>8. QED BY <3>5, <3>6, <3>7
  <2>3. QED BY <2>1, <2>2
<1>5. QED BY <1>2, <1>3, <1>4

\* Reading one more unit.
LEMMA AppendLaid ==
  ASSUME NEW us \in Seq(Unit), Laid(us), NEW pos \in Nat, NEW u, Fresh(u, pos),
         us # <<>> => us[Len(us)].end = pos
  PROVE  LET ext == Append(us, u)
         IN  /\ ext \in Seq(Unit) /\ ext # <<>> /\ Len(ext) = Len(us) + 1
             /\ Laid(ext)
             /\ ext[Len(ext)].end = pos + u.len
             /\ ext[1] = IF us = <<>> THEN u ELSE us[1]
             /\ RunLen(ext, 1) = RunLen(us, 1) + u.len
<1> DEFINE ext == Append(us, u)
<1>1. u \in Unit /\ u.start = pos /\ u.end = pos + u.len /\ u.len > 0 /\ u.len \in Nat
      /\ u.kind # "marker" /\ ~ IsMarker(u)
  BY UnitFields DEF Fresh, IsMarker
<1>2. /\ ext \in Seq(Unit) /\ ext # <<>> /\ Len(ext) = Len(us) + 1
      /\ \A i \in 1 .. Len(us) : ext[i] = us[i]
      /\ ext[Len(us) + 1] = u
  BY <1>1, AppendProperties
<1> HIDE DEF ext
<1>3. \A i \in 1 .. Len(us) : us[i].end <= pos
  <2>1. CASE us = <<>>
    BY <2>1
  <2>2. CASE us # <<>>
    <3> SUFFICES ASSUME NEW i \in 1 .. Len(us) PROVE us[i].end <= pos
      OBVIOUS
    <3>1. CASE i = Len(us)
      BY <2>2, <3>1, UnitFields
    <3>2. CASE i < Len(us)
      <4> DEFINE last == us[Len(us)]
      <4>1. us[i] \in Unit /\ last \in Unit /\ Len(us) \in 1 .. Len(us)
        BY <3>2
      <4>2. us[i].end <= last.start
        BY <3>2, <4>1 DEF Laid
      <4>3. last.end = last.start \/ last.end = last.start + last.len
        BY <4>1 DEF Laid, IsSlice
      <4>4. last.end = pos
        BY <2>2
      <4>5. QED BY <4>1, <4>2, <4>3, <4>4, UnitFields
    <3>3. QED BY <3>1, <3>2
  <2>3. QED BY <2>1, <2>2
<1>4. IsSlice(ext)
  <2>1. \A i \in 1 .. Len(ext) :
          /\ ext[i].kind = "marker" => i = 1 /\ ext[i].end = ext[i].start
          /\ ext[i].kind # "marker" => ext[i].end = ext[i].start + ext[i].len /\ ext[i].len > 0
    <3>1. \A i \in 1 .. Len(us) :
            /\ us[i].kind = "marker" => i = 1 /\ us[i].end = us[i].start
            /\ us[i].kind # "marker" => us[i].end = us[i].start + us[i].len /\ us[i].len > 0
      BY DEF Laid, IsSlice
    <3>2. QED BY <1>1, <1>2, <3>1
  <2>2. \A i \in 1 .. Len(ext) - 1 : ext[i + 1].start = ext[i].end
    <3> SUFFICES ASSUME NEW i \in 1 .. Len(us) PROVE ext[i + 1].start = ext[i].end
      BY <1>2
    <3>1. CASE i = Len(us)
      BY <1>1, <1>2, <3>1
    <3>2. CASE i < Len(us)
      <4>1. ext[i] = us[i] /\ ext[i + 1] = us[i + 1]
        BY <1>2, <3>2
      <4>2. us[i + 1].start = us[i].end
        BY <3>2 DEF Laid, IsSlice
      <4>3. QED BY <4>1, <4>2
    <3>3. QED BY <3>1, <3>2
  <2>3. QED BY <2>1, <2>2 DEF IsSlice
<1>5. Laid(ext)
  <2>1. \A i, j \in 1 .. Len(us) : i < j => us[i].end <= us[j].start
    BY DEF Laid
  <2>2. \A i, j \in 1 .. Len(ext) : i < j => ext[i].end <= ext[j].start
    <3> SUFFICES ASSUME NEW i \in 1 .. Len(us), NEW j \in 1 .. Len(us) + 1, i < j
                 PROVE  ext[i].end <= ext[j].start
      BY <1>2
    <3>1. CASE j = Len(us) + 1
      BY <1>1, <1>2, <1>3, <3>1
    <3>2. CASE j \in 1 .. Len(us)
      BY <1>2, <2>1, <3>2
    <3>3. QED BY <3>1, <3>2
  <2>3. QED BY <1>4, <2>2 DEF Laid
<1>6. ext[Len(ext)] = u /\ ext[1] = (IF us = <<>> THEN u ELSE us[1])
  BY <1>2, EmptySeq
<1>7. RunLen(ext, 1) = RunLen(us, 1) + u.len
  <2>1. RunLen(ext, 1) = u.end - ext[1].start + ShownExtra(ext[1])
    BY <1>2, <1>6 DEF RunLen
  <2>2. CASE us = <<>>
    <3>1. RunLen(us, 1) = 0 /\ ShownExtra(u) = 0
      BY <1>1, <2>2 DEF RunLen, ShownExtra
    <3>2. QED BY <1>1, <1>6, <2>1, <2>2, <3>1, UnitFields
  <2>3. CASE us # <<>>
    <3>1. RunLen(us, 1) = pos - us[1].start + ShownExtra(us[1])
      BY <2>3, EmptySeq DEF RunLen
    <3>2. us[1] \in Unit
      BY <2>3, EmptySeq
    <3>3. QED BY <1>1, <1>6, <2>1, <2>3, <3>1, <3>2, UnitFields
  <2>4. QED BY <2>2, <2>3
<1>8. ext[Len(ext)].end = pos + u.len
  BY <1>1, <1>6
<1>9. QED BY <1>2, <1>5, <1>6, <1>7, <1>8 DEF ext

\* Repeating a header in front of what is kept.
LEMMA MarkerLaid ==
  ASSUME NEW us \in Seq(Unit), Laid(us), NEW h \in Header, NEW p \in Nat,
         us # <<>> => us[1].start = p /\ ~ IsMarker(us[1])
  PROVE  LET ms == <<Marker(h, p)>> \o us
         IN  /\ ms \in Seq(Unit) /\ ms # <<>>
             /\ Laid(ms)
             /\ ms[1].start = p
             /\ ms[1].kind = "marker"
             /\ ms[Len(ms)].end = IF us = <<>> THEN p ELSE us[Len(us)].end
             /\ RunLen(ms, 1) = RunLen(us, 1) + h.len
<1> DEFINE m == Marker(h, p)
           ms == <<m>> \o us
<1>1. m \in Unit /\ m.start = p /\ m.end = p /\ m.len = h.len /\ m.kind = "marker"
      /\ ShownExtra(m) = h.len /\ h.len \in Nat
  BY DEF Marker, Unit, Header, Kinds, ShownExtra, IsMarker
<1> HIDE DEF m
<1>2. /\ ms \in Seq(Unit) /\ Len(ms) = Len(us) + 1
      /\ ms[1] = m
      /\ \A i \in 1 .. Len(us) : ms[i + 1] = us[i]
  BY <1>1, ConcatProperties
<1>3. ms # <<>>
  BY <1>2, EmptySeq
<1> HIDE DEF ms
<1>4. \A i \in 1 .. Len(us) : us[i].start >= p
  <2> SUFFICES ASSUME NEW i \in 1 .. Len(us) PROVE us[i].start >= p
    OBVIOUS
  <2>1. us[1] \in Unit /\ us[i] \in Unit /\ us[1].start = p
    BY EmptySeq
  <2>2. us[1].end = us[1].start \/ us[1].end = us[1].start + us[1].len
    BY DEF Laid, IsSlice
  <2>3. i = 1 \/ us[1].end <= us[i].start
    BY DEF Laid
  <2>4. QED BY <2>1, <2>2, <2>3, UnitFields
<1>5. \A i \in 2 .. Len(ms) : ms[i] = us[i - 1] /\ i - 1 \in 1 .. Len(us)
  BY <1>2
<1>6. IsSlice(ms)
  <2>1. \A i \in 1 .. Len(us) :
          us[i].kind # "marker" /\ us[i].end = us[i].start + us[i].len /\ us[i].len > 0
    <3> SUFFICES ASSUME NEW i \in 1 .. Len(us)
                 PROVE us[i].kind # "marker" /\ us[i].end = us[i].start + us[i].len /\ us[i].len > 0
      OBVIOUS
    <3>1. us[i].kind # "marker"
      BY EmptySeq DEF Laid, IsSlice, IsMarker
    <3>2. QED BY <3>1 DEF Laid, IsSlice
  <2>2. \A i \in 1 .. Len(ms) :
          /\ ms[i].kind = "marker" => i = 1 /\ ms[i].end = ms[i].start
          /\ ms[i].kind # "marker" => ms[i].end = ms[i].start + ms[i].len /\ ms[i].len > 0
    <3>1. ms[1].kind = "marker" /\ ms[1].end = ms[1].start
      BY <1>1, <1>2
    <3>2. \A i \in 2 .. Len(ms) :
            ms[i].kind # "marker" /\ ms[i].end = ms[i].start + ms[i].len /\ ms[i].len > 0
      BY <1>5, <2>1
    <3>3. \A i \in 1 .. Len(ms) : i = 1 \/ i \in 2 .. Len(ms)
      BY <1>2
    <3>4. QED BY <3>1, <3>2, <3>3
  <2>3. \A i \in 1 .. Len(ms) - 1 : ms[i + 1].start = ms[i].end
    <3> SUFFICES ASSUME NEW i \in 1 .. Len(us) PROVE us[i].start = ms[i].end
      BY <1>2
    <3>1. CASE i = 1
      BY <1>1, <1>2, <3>1, EmptySeq
    <3>2. CASE i # 1
      <4>1. ms[i] = us[i - 1] /\ i - 1 \in 1 .. Len(us) - 1
        BY <1>2, <1>5, <3>2
      <4>2. us[(i - 1) + 1].start = us[i - 1].end
        BY <4>1 DEF Laid, IsSlice
      <4>3. QED BY <4>1, <4>2
    <3>3. QED BY <3>1, <3>2
  <2>4. QED BY <2>2, <2>3 DEF IsSlice
<1>7. Laid(ms)
  <2>1. \A i, j \in 1 .. Len(us) : i < j => us[i].end <= us[j].start
    BY DEF Laid
  <2>2. \A i, j \in 1 .. Len(ms) : i < j => ms[i].end <= ms[j].start
    <3> SUFFICES ASSUME NEW i \in 1 .. Len(ms), NEW j \in 2 .. Len(ms), i < j
                 PROVE  ms[i].end <= ms[j].start
      BY <1>2
    <3>1. ms[j] = us[j - 1] /\ j - 1 \in 1 .. Len(us)
      BY <1>5
    <3>2. CASE i = 1
      BY <1>1, <1>2, <1>4, <3>1, <3>2
    <3>3. CASE i # 1
      <4>1. ms[i] = us[i - 1] /\ i - 1 \in 1 .. Len(us) /\ i - 1 < j - 1
        BY <1>5, <3>3
      <4>2. QED BY <2>1, <3>1, <4>1
    <3>4. QED BY <3>2, <3>3
  <2>3. QED BY <1>6, <2>2 DEF Laid
<1>8. ms[Len(ms)].end = (IF us = <<>> THEN p ELSE us[Len(us)].end)
  BY <1>1, <1>2, EmptySeq
<1>9. RunLen(ms, 1) = RunLen(us, 1) + h.len
  <2>1. RunLen(ms, 1) = ms[Len(ms)].end - p + h.len
    BY <1>1, <1>2 DEF RunLen
  <2>2. CASE us = <<>>
    BY <1>1, <1>8, <2>1, <2>2 DEF RunLen
  <2>3. CASE us # <<>>
    <3>1. us[1].start = p /\ us[1] \in Unit /\ us[Len(us)] \in Unit
      BY <2>3, EmptySeq
    <3>2. RunLen(us, 1) = us[Len(us)].end - p
      <4>1. ShownExtra(us[1]) = 0
        BY <2>3 DEF ShownExtra
      <4>2. RunLen(us, 1) = us[Len(us)].end - us[1].start + ShownExtra(us[1])
        BY <2>3, EmptySeq DEF RunLen
      <4>3. QED BY <3>1, <4>1, <4>2, UnitFields
    <3>3. QED BY <1>1, <1>8, <2>1, <2>3, <3>1, <3>2, UnitFields
  <2>4. QED BY <2>2, <2>3
<1>10. QED BY <1>1, <1>2, <1>3, <1>7, <1>8, <1>9 DEF ms, m

-------------------------------------------------------------------------------
(***************************************************************************)
(* Chunks.                                                                 *)
(***************************************************************************)

\* What is ready and fits can be flushed.
LEMMA FlushKeepsChunks ==
  ASSUME NEW cs, ChunksOK(cs), NEW us, NEW n, NEW pos \in Nat,
         Ready(cs, us, n, pos), us # <<>>, Allowed(us, n),
         ChunkSize <= AbsMax => Reach(cs) < pos
  PROVE  LET ds == Append(cs, BuildChunk(us))
         IN  /\ ChunksOK(ds)
             /\ ds # <<>>
             /\ Reach(ds) = pos
             /\ LastStart(ds) = us[1].start
<1> DEFINE c == BuildChunk(us)
           ds == Append(cs, c)
<1>1. /\ us \in Seq(Unit) /\ us[1] \in Unit /\ us[Len(us)] \in Unit
      /\ c.start = us[1].start /\ c.end = us[Len(us)].end /\ c.content = us
      /\ c \in Chunk
  BY EmptySeq, UnitFields DEF Ready, BuildChunk, Chunk
<1>2. ChunkOK(c)
  BY <1>1 DEF ChunkOK, Ready
<1> HIDE DEF c
<1>3. /\ cs \in Seq(Chunk) /\ ds \in Seq(Chunk) /\ ds # <<>> /\ Len(ds) = Len(cs) + 1
      /\ \A i \in 1 .. Len(cs) : ds[i] = cs[i]
      /\ ds[Len(cs) + 1] = c
  BY <1>1, AppendProperties DEF ChunksOK
<1> HIDE DEF ds
<1>4. \A i \in 1 .. Len(ds) : ChunkOK(ds[i])
  BY <1>2, <1>3 DEF ChunksOK
<1>5. ds[1].start = 0
  <2>1. CASE cs = <<>>
    <3>1. us[1].start <= 0
      BY <2>1 DEF Ready, Reach
    <3>2. QED BY <1>1, <1>3, <2>1, <3>1, UnitFields
  <2>2. CASE cs # <<>>
    BY <1>3, <2>2, EmptySeq DEF ChunksOK
  <2>3. QED BY <2>1, <2>2
<1>6. \A i \in 1 .. Len(ds) - 1 : Next2(ds[i], ds[i + 1])
  <2> SUFFICES ASSUME NEW i \in 1 .. Len(cs) PROVE Next2(ds[i], ds[i + 1])
    BY <1>3
  <2>1. CASE i < Len(cs)
    <3>1. ds[i] = cs[i] /\ ds[i + 1] = cs[i + 1]
      BY <1>3, <2>1
    <3>2. QED BY <1>3, <2>1, <3>1 DEF ChunksOK
  <2>2. CASE i = Len(cs)
    <3>1. cs # <<>> /\ ds[i] = cs[Len(cs)] /\ ds[i + 1] = c
      BY <1>3, <2>2
    <3>2. LastStart(cs) = ds[i].start /\ Reach(cs) = ds[i].end
      BY <3>1 DEF LastStart, Reach
    <3>3. QED BY <1>1, <3>1, <3>2 DEF Ready, Next2
  <2>3. QED BY <1>3, <2>1, <2>2
<1>7. Reach(ds) = pos /\ LastStart(ds) = us[1].start
  BY <1>1, <1>3 DEF Reach, LastStart, Ready
<1>8. QED BY <1>3, <1>4, <1>5, <1>6, <1>7 DEF ChunksOK, ds, c

\* A unit that is put down leaves everything ready for the next one.
LEMMA PlaceKeepsReady ==
  ASSUME NEW cs, ChunksOK(cs), NEW base, NEW n, NEW pos \in Nat, NEW u, Fresh(u, pos),
         Ready(cs, base, n, pos), ChunkSize \in Nat, u.len <= AbsMax,
         base # <<>> => Allowed(base, n) /\ n + u.len <= ChunkSize,
         Place(cs, base, n, u)
  PROVE  /\ ChunksOK(chunks')
         /\ Ready(chunks', current', curLen', pos + u.len)
         /\ Fits(chunks', current', curLen', pos + u.len)
<1>1. u \in Unit /\ u.len \in Nat /\ u.len > 0 /\ u.start = pos /\ u.end = pos + u.len
  BY UnitFields DEF Fresh
<1>2. AbsMax \in Nat /\ n \in Nat /\ base \in Seq(Unit) /\ Laid(base) /\ n = RunLen(base, 1)
  BY SizesAssumption DEF Ready
<1>3. Reach(cs) \in Nat /\ Reach(cs) <= pos
  <2>1. CASE base = <<>>
    BY <2>1 DEF Ready
  <2>2. CASE base # <<>>
    <3>1. Reach(cs) \in Nat
      <4>1. CASE cs = <<>>
        BY <4>1 DEF Reach
      <4>2. CASE cs # <<>>
        <5>1. cs[Len(cs)] \in Chunk
          BY <4>2, EmptySeq DEF ChunksOK
        <5>2. QED BY <4>2, <5>1 DEF Reach, Chunk
      <4>3. QED BY <4>1, <4>2
    <3>2. QED BY <2>2, <3>1 DEF Ready
  <2>3. QED BY <2>1, <2>2
<1>4. CASE n + u.len > AbsMax /\ base # <<>>
  <2>1. /\ chunks' = Append(cs, BuildChunk(base))
        /\ current' = <<u>>
        /\ curLen' = u.len
    BY <1>4 DEF Place
  <2>2. ~ (ChunkSize <= AbsMax)
    BY <1>1, <1>2, <1>4
  <2>3. ChunksOK(chunks') /\ chunks' # <<>> /\ Reach(chunks') = pos
        /\ LastStart(chunks') = base[1].start
    BY <1>4, <2>1, <2>2, FlushKeepsChunks
  <2>4. LastStart(chunks') <= pos
    <3>1. base[1] \in Unit
      BY <1>2, <1>4, EmptySeq
    <3>2. base[1].start <= Reach(cs)
      BY <1>4 DEF Ready
    <3>3. QED BY <1>3, <2>3, <3>1, <3>2, UnitFields
  <2>5. Laid(<<u>>) /\ RunLen(<<u>>, 1) = u.len /\ <<u>> \in Seq(Unit)
    BY <1>1 DEF Laid, IsSlice, RunLen, ShownExtra, IsMarker, Fresh
  <2>6. Ready(chunks', current', curLen', pos + u.len)
    BY <1>1, <2>1, <2>3, <2>4, <2>5 DEF Ready
  <2>7. Fits(chunks', current', curLen', pos + u.len)
    BY <1>1, <2>1, <2>2 DEF Fits, Allowed
  <2>8. QED BY <2>3, <2>6, <2>7
<1>5. CASE ~ (n + u.len > AbsMax /\ base # <<>>)
  <2>1. /\ chunks' = cs
        /\ current' = Append(base, u)
        /\ curLen' = n + u.len
    BY <1>5 DEF Place
  <2>2. base # <<>> => base[Len(base)].end = pos
    BY DEF Ready
  <2>3. /\ current' \in Seq(Unit) /\ current' # <<>> /\ Len(current') = Len(base) + 1
        /\ Laid(current')
        /\ current'[Len(current')].end = pos + u.len
        /\ current'[1] = IF base = <<>> THEN u ELSE base[1]
        /\ RunLen(current', 1) = n + u.len
    BY <1>2, <2>1, <2>2, AppendLaid
  <2>4. LastStart(cs) <= current'[1].start /\ current'[1].start <= Reach(cs)
    <3>1. CASE base # <<>>
      BY <2>3, <3>1 DEF Ready
    <3>2. CASE base = <<>>
      <4>1. Reach(cs) = pos /\ current'[1].start = pos
        BY <1>1, <2>3, <3>2 DEF Ready
      <4>2. LastStart(cs) <= pos
        <5>1. CASE cs = <<>>
          BY <5>1 DEF LastStart
        <5>2. CASE cs # <<>>
          <6> DEFINE c == cs[Len(cs)]
          <6>1. ChunkOK(c)
            BY <5>2, EmptySeq DEF ChunksOK
          <6>2. c.content \in Seq(Unit) /\ c.content # <<>> /\ Laid(c.content) 
                /\ c.start = c.content[1].start /\ c.end = c.content[Len(c.content)].end
            BY <6>1 DEF ChunkOK, Chunk
          <6>3. c.start <= c.end
            BY <6>2, LaidOrdered, EmptySeq
          <6>4. QED BY <4>1, <5>2, <6>3 DEF LastStart, Reach
        <5>3. QED BY <5>1, <5>2
      <4>3. QED BY <4>1, <4>2
    <3>3. QED BY <3>1, <3>2
  <2>5. Ready(chunks', current', curLen', pos + u.len)
    BY <1>1, <1>2, <1>3, <2>1, <2>3, <2>4, SMTT(30) DEF Ready
  <2>6. curLen' <= AbsMax
    <3>1. CASE base = <<>>
      BY <1>1, <1>2, <2>1, <3>1 DEF RunLen
    <3>2. CASE base # <<>>
      BY <1>1, <1>2, <1>5, <2>1, <3>2
    <3>3. QED BY <3>1, <3>2
  <2>7. curLen' <= ChunkSize \/ Len(current') = 1
    BY <2>1, <2>3
  <2>8. Fits(chunks', current', curLen', pos + u.len)
    BY <1>1, <1>3, <2>1, <2>6, <2>7 DEF Fits, Allowed
  <2>9. QED BY <2>1, <2>5, <2>8
<1>6. QED BY <1>4, <1>5

\* What compute_overlap() and the loop that shrinks it keep.
LEMMA KeptIsReady ==
  ASSUME NEW cs, ChunksOK(cs), cs # <<>>, NEW pos \in Nat, Reach(cs) = pos,
         NEW us \in Seq(Unit), Laid(us), us # <<>>, us[Len(us)].end = pos,
         LastStart(cs) = us[1].start,
         NEW k \in 1 .. Len(us) + 1
  PROVE  Ready(cs, From(us, k), RunLen(us, k), pos)
<1> DEFINE fs == From(us, k)
<1>1. /\ fs \in Seq(Unit) /\ Len(fs) = Len(us) + 1 - k
      /\ \A i \in 1 .. Len(us) + 1 - k : fs[i] = us[k + i - 1]
      /\ fs = <<>> <=> k = Len(us) + 1
  BY FromProperties
<1>2. Laid(fs) /\ RunLen(fs, 1) = RunLen(us, k) /\ RunLen(us, k) \in Nat
  BY FromLaid
<1> HIDE DEF fs
<1>3. fs # <<>> => /\ fs[Len(fs)].end = pos
                   /\ LastStart(cs) <= fs[1].start
                   /\ fs[1].start <= pos
  <2> SUFFICES ASSUME k \in 1 .. Len(us)
               PROVE  /\ fs[Len(fs)].end = pos
                      /\ LastStart(cs) <= fs[1].start
                      /\ fs[1].start <= pos
    BY <1>1
  <2>1. fs[1] = us[k] /\ fs[Len(fs)] = us[Len(us)]
    BY <1>1
  <2>2. us[1].start <= us[k].start /\ us[k].start <= us[Len(us)].end
    BY LaidOrdered
  <2>3. QED BY <2>1, <2>2
<1>4. QED BY <1>1, <1>2, <1>3 DEF Ready, fs

-------------------------------------------------------------------------------
(***************************************************************************)
(* The steps of merge_units().                                             *)
(***************************************************************************)
\* What is read is a unit that starts where the text read so far ends.
LEMMA ReadUnit ==
  ASSUME TypeOK, NEW s \in UnitShapes
  PROVE  /\ TextEnd \in Nat
         /\ Fresh(At(s, TextEnd), TextEnd)
<1>1. TextEnd \in Nat
  <2>1. CASE units = <<>>
    BY <2>1 DEF TextEnd
  <2>2. CASE units # <<>>
    <3>1. units[Len(units)] \in Unit
      BY <2>2, EmptySeq DEF TypeOK
    <3>2. QED BY <2>2, <3>1, UnitFields DEF TextEnd
  <2>3. QED BY <2>1, <2>2
<1>2. s \in Shape
  BY ShapesAssumption
<1>3. QED BY <1>1, <1>2 DEF Fresh, At, Unit, Shape, Kinds

\* The tracker's state stays well-formed.
LEMMA TrackerTyped ==
  ASSUME NEW t \in Tracker, NEW u \in Unit
  PROVE  Update(t, u) \in Tracker
<1>1. HeaderOf(u) \in Header /\ ExtendedHeader(u) \in Header
  BY SepLenAssumption DEF HeaderOf, ExtendedHeader, Header, Unit
<1>2. QED BY <1>1 DEF Update, Tracker, Unit, HasRow

\* Reading a unit keeps the tracker and the units well-formed.
LEMMA ReadKeepsTypes ==
  ASSUME TypeOK, NEW u, Fresh(u, TextEnd), Read(u)
  PROVE  /\ cfg' = cfg /\ phase' = phase /\ phase = "merging" /\ rest = <<>>
         /\ units' \in Seq(Unit)
         /\ ht' \in Tracker
         /\ TextEnd' = TextEnd + u.len
<1>1. u \in Unit /\ u.end = TextEnd + u.len
  BY DEF Fresh
<1>2. ht' \in Tracker
  BY <1>1, TrackerTyped DEF Read, TypeOK
<1>3. /\ units' \in Seq(Unit) /\ units' # <<>>
      /\ units'[Len(units')] = u
  BY <1>1, AppendProperties DEF Read, TypeOK
<1>4. TextEnd' = u.end
  BY <1>3 DEF TextEnd
<1>5. QED BY <1>1, <1>2, <1>3, <1>4 DEF Read

\* The three ways a unit that is not oversized is put down.
LEMMA SmallUnitKeepsReady ==
  ASSUME IInv, NEW u, Fresh(u, TextEnd), TextEnd \in Nat,
         FlushAtTableBoundary(u) \/ Extend(u) \/ FlushAndOverlap(u)
  PROVE  /\ ChunksOK(chunks')
         /\ Ready(chunks', current', curLen', TextEnd + u.len)
         /\ Fits(chunks', current', curLen', TextEnd + u.len)
<1> DEFINE cs == Append(chunks, BuildChunk(current))
           pos == TextEnd
<1>1. Read(u) /\ u.len <= AbsMax
  BY DEF FlushAtTableBoundary, Extend, FlushAndOverlap
<1>2. /\ TypeOK /\ ChunksOK(chunks) /\ ChunkSize \in Nat /\ u.len \in Nat /\ u \in Unit
      /\ Ready(chunks, current, curLen, pos)
      /\ Fits(chunks, current, curLen, pos)
  BY <1>1, UnitFields DEF IInv, Read, TypeOK, ChunkSize, Fresh
<1>3. current \in Seq(Unit) /\ Laid(current) /\ curLen = RunLen(current, 1) /\ curLen \in Nat
      /\ ht' \in Tracker
  BY <1>1, <1>2, ReadKeepsTypes DEF Ready
<1> HIDE DEF cs, pos
<1>4. current # <<>> => /\ ChunksOK(cs) /\ cs # <<>>
                        /\ Reach(cs) = pos
                        /\ LastStart(cs) = current[1].start
                        /\ current[Len(current)].end = pos
  BY <1>2, FlushKeepsChunks DEF Fits, Ready, cs, pos
<1>5. CASE FlushAtTableBoundary(u)
  <2>1. current # <<>> /\ Place(cs, <<>>, 0, u)
    BY <1>5 DEF FlushAtTableBoundary, AtTableBoundary, cs
  <2>2. Ready(cs, <<>>, 0, pos)
    BY <1>4, <2>1 DEF Ready, Laid, IsSlice, RunLen
  <2>3. QED BY <1>1, <1>2, <1>4, <2>1, <2>2, PlaceKeepsReady DEF pos
<1>6. CASE Extend(u)
  <2>1. Place(chunks, current, curLen, u) /\ ~ Overflows(u)
    BY <1>6 DEF Extend
  <2>2. current # <<>> => curLen + u.len <= ChunkSize
    <3>1. HeaderLen(ht'.active) \in Nat
      BY <1>3 DEF HeaderLen, Usable, Tracker, Header
    <3>2. current # <<>> => ~ (curLen + u.len + HeaderLen(ht'.active) > ChunkSize)
      BY <2>1 DEF Overflows
    <3>3. QED BY <1>2, <1>3, <3>1, <3>2
  <2>3. current # <<>> => Allowed(current, curLen)
    BY <1>2 DEF Fits
  <2>4. QED BY <1>1, <1>2, <2>1, <2>2, <2>3, PlaceKeepsReady DEF pos
<1>7. CASE FlushAndOverlap(u)
  <2>1. current # <<>> /\ curLen <= AbsMax
    BY <1>2, <1>7 DEF FlushAndOverlap, Overflows, Fits
  <2>2. PICK t \in 1 .. Len(current) + 1 :
          /\ OverlapFrom(current, t, u.len)
          /\ LET h == ht'.active
             IN  IF Usable(h) /\ h.len + u.len <= ChunkSize
                 THEN \E s \in t .. Len(current) + 1 :
                        /\ ShrinkStops(current, t, s, ChunkSize - u.len - h.len)
                        /\ LET kept == From(current, s)
                           IN  IF NeedsMarker(kept, u, h)
                               THEN Place(cs, WithMarker(kept, u, h),
                                          RunLen(current, s) + h.len, u)
                               ELSE Place(cs, kept, RunLen(current, s), u)
                 ELSE Place(cs, From(current, t), RunLen(current, t), u)
    BY <1>7 DEF FlushAndOverlap, cs
  <2>3. \A k \in 1 .. Len(current) + 1 :
          /\ Ready(cs, From(current, k), RunLen(current, k), pos)
          /\ RunLen(current, k) \in Nat
          /\ RunLen(current, k) <= AbsMax
    <3> SUFFICES ASSUME NEW k \in 1 .. Len(current) + 1
                 PROVE  /\ Ready(cs, From(current, k), RunLen(current, k), pos)
                        /\ RunLen(current, k) \in Nat
                        /\ RunLen(current, k) <= AbsMax
      OBVIOUS
    <3>1. Ready(cs, From(current, k), RunLen(current, k), pos)
      BY <1>3, <1>4, <2>1, KeptIsReady DEF pos
    <3>2. RunLen(current, k) \in Nat /\ RunLen(current, k) <= curLen
      BY <1>3, FromLaid
    <3>3. QED BY <1>3, <2>1, <3>1, <3>2, SizesAssumption
  <2>4. \A k \in 1 .. Len(current) + 1 : From(current, k) = <<>> <=> k = Len(current) + 1
    BY <1>3, FromProperties
  <2> DEFINE h == ht'.active
  <2>5. CASE ~ (Usable(h) /\ h.len + u.len <= ChunkSize)
    <3>1. Place(cs, From(current, t), RunLen(current, t), u)
      BY <2>2, <2>5
    <3>2. t <= Len(current) => RunLen(current, t) + u.len <= ChunkSize
      BY <2>2 DEF OverlapFrom, WalkBackStops, SkipStops, OverlapFits
    <3>3. From(current, t) # <<>> =>
            /\ Allowed(From(current, t), RunLen(current, t))
            /\ RunLen(current, t) + u.len <= ChunkSize
      BY <1>2, <2>3, <2>4, <3>2 DEF Allowed
    <3>4. QED BY <1>1, <1>2, <1>4, <2>1, <2>3, <3>1, <3>3, PlaceKeepsReady DEF pos
  <2>6. CASE Usable(h) /\ h.len + u.len <= ChunkSize
    <3>1. h \in Header /\ h.len \in Nat
      BY <1>3, <2>6 DEF Usable, Tracker, Header
    <3>2. PICK s \in t .. Len(current) + 1 :
            /\ ShrinkStops(current, t, s, ChunkSize - u.len - h.len)
            /\ LET kept == From(current, s)
               IN  IF NeedsMarker(kept, u, h)
                   THEN Place(cs, WithMarker(kept, u, h), RunLen(current, s) + h.len, u)
                   ELSE Place(cs, kept, RunLen(current, s), u)
      BY <2>2, <2>6
    <3> DEFINE kept == From(current, s)
    <3>3. s \in 1 .. Len(current) + 1
      OBVIOUS
    <3>4. RunLen(current, s) + h.len + u.len <= ChunkSize
      <4>1. CASE s = Len(current) + 1
        <5>1. RunLen(current, s) = 0
          BY <1>3, <4>1 DEF RunLen
        <5>2. QED BY <1>2, <2>6, <3>1, <5>1
      <4>2. CASE s <= Len(current)
        <5>1. RunLen(current, s) <= ChunkSize - u.len - h.len
          BY <3>2, <4>2 DEF ShrinkStops
        <5>2. QED BY <1>2, <2>3, <3>1, <3>3, <5>1, SMTT(30)
      <4>3. QED BY <3>3, <4>1, <4>2
    <3>5. /\ Ready(cs, kept, RunLen(current, s), pos) /\ RunLen(current, s) \in Nat
          /\ RunLen(current, s) <= AbsMax
          /\ kept = <<>> <=> s = Len(current) + 1
      BY <2>3, <2>4, <3>3
    <3>6. CASE ~ NeedsMarker(kept, u, h)
      <4>1. Place(cs, kept, RunLen(current, s), u)
        BY <3>2, <3>6
      <4>2. RunLen(current, s) + u.len <= ChunkSize
        BY <1>2, <3>1, <3>4, <3>5
      <4>3. Allowed(kept, RunLen(current, s))
        BY <1>2, <3>5, <4>2 DEF Allowed
      <4>4. QED BY <1>1, <1>2, <1>4, <2>1, <3>5, <4>1, <4>2, <4>3, PlaceKeepsReady DEF pos
    <3>7. CASE NeedsMarker(kept, u, h)
      <4> DEFINE p  == IF kept # <<>> THEN kept[1].start ELSE pos
                 ms == <<Marker(h, p)>> \o kept
      <4>1. Place(cs, ms, RunLen(current, s) + h.len, u)
        BY <3>2, <3>7 DEF WithMarker, Fresh, pos
      <4>2. kept \in Seq(Unit) /\ Laid(kept) /\ RunLen(current, s) = RunLen(kept, 1)
        BY <3>5 DEF Ready
      <4>3. kept # <<>> => ~ IsMarker(kept[1])
        <5> SUFFICES ASSUME kept # <<>> PROVE ~ IsMarker(kept[1])
          OBVIOUS
        <5>1. s \in 1 .. Len(current) /\ kept[1] = current[s]
          BY <1>3, <3>3, <3>5, FromProperties
        <5>2. CASE s = 1
          BY <2>2, <5>1, <5>2 DEF OverlapFrom, SkipStops, Skipped
        <5>3. CASE s \in 2 .. Len(current)
          BY <1>3, <5>1, <5>3, MarkerIsFirst DEF Laid
        <5>4. QED BY <5>1, <5>2, <5>3
      <4>4. p \in Nat /\ pos \in Nat
        BY <4>2, EmptySeq, UnitFields DEF pos
      <4>5. /\ ms \in Seq(Unit) /\ ms # <<>> /\ Laid(ms)
            /\ ms[1].start = p /\ ms[1].kind = "marker"
            /\ ms[Len(ms)].end = IF kept = <<>> THEN p ELSE kept[Len(kept)].end
            /\ RunLen(ms, 1) = RunLen(current, s) + h.len
        BY <3>1, <4>2, <4>3, <4>4, MarkerLaid
      <4> HIDE DEF ms
      <4>6. ms[Len(ms)].end = pos /\ LastStart(cs) <= p /\ p <= pos
        <5>1. CASE kept # <<>>
          BY <1>4, <2>1, <3>5, <4>5, <5>1 DEF Ready
        <5>2. CASE kept = <<>>
          <6>1. LastStart(cs) <= pos
            BY <1>3, <1>4, <2>1, LaidOrdered, EmptySeq
          <6>2. QED BY <4>4, <4>5, <5>2, <6>1
        <5>3. QED BY <5>1, <5>2
      <4>7. Ready(cs, ms, RunLen(current, s) + h.len, pos)
        BY <1>4, <2>1, <3>1, <3>5, <4>4, <4>5, <4>6, SMTT(30) DEF Ready
      <4>8. Allowed(ms, RunLen(current, s) + h.len)
        <5>1. RunLen(current, s) + h.len <= ChunkSize
          BY <1>2, <3>1, <3>4, <3>5
        <5>2. HasMarker(ms)
          BY <4>5 DEF HasMarker
        <5>3. QED BY <1>2, <3>1, <3>5, <5>1, <5>2, SizesAssumption DEF Allowed
      <4>9. RunLen(current, s) + h.len \in Nat
        BY <3>1, <3>5
      <4>10. QED BY <1>1, <1>2, <1>4, <2>1, <3>4, <4>1, <4>7, <4>8, PlaceKeepsReady DEF pos
    <3>8. QED BY <3>6, <3>7
  <2>7. QED BY <2>5, <2>6
<1>8. QED BY <1>5, <1>6, <1>7

\* What the loop that cuts an oversized unit makes of it.
LEMMA PieceTyped ==
  ASSUME NEW u \in Unit, NEW n \in Nat, n <= u.len
  PROVE  /\ Piece(u, n) \in Unit /\ Piece(u, n).kind = u.kind
         /\ Piece(u, n).start = u.start /\ Piece(u, n).end = u.start + n
         /\ Piece(u, n).len = n
         /\ Remainder(u, n) \in Unit /\ Remainder(u, n).kind = u.kind
         /\ Remainder(u, n).start = u.start + n /\ Remainder(u, n).end = u.end
         /\ Remainder(u, n).len = u.len - n
<1>1. u.start + n \in Nat /\ u.len - n \in Nat
  BY UnitFields
<1>2. QED BY <1>1 DEF Unit, Piece, Remainder

\* A piece of an oversized unit and its remainder share out the unit.
LEMMA CutOff ==
  ASSUME IInv, NEW n, CutPiece(n), ChunkSize \in Nat
  PROVE  LET u == rest[1]
         IN  /\ n \in Nat /\ n > 0 /\ n <= AbsMax /\ n <= u.len
             /\ Fresh(Piece(u, n), Reach(chunks))
             /\ Piece(u, n).end = Reach(chunks) + n
             /\ Piece(u, n).len = n
<1> DEFINE u == rest[1]
<1>1. /\ u \in Unit /\ u.kind # "marker" /\ u.len > 0 /\ u.start = Reach(chunks)
      /\ u.start \in Nat /\ u.len \in Nat
  BY EmptySeq, UnitFields DEF IInv, TypeOK, RestOK, CutPiece
<1>2. n \in PieceLengths(u.len)
  BY DEF CutPiece
<1>3. n \in Nat /\ n > 0 /\ n <= AbsMax /\ n <= u.len
  BY <1>1, <1>2, SizesAssumption DEF PieceLengths
<1> HIDE DEF u
<1>4. /\ Piece(u, n) \in Unit /\ Piece(u, n).kind = u.kind /\ Piece(u, n).start = u.start
      /\ Piece(u, n).end = u.start + n /\ Piece(u, n).len = n
  BY <1>1, <1>3, PieceTyped
<1>5. QED BY <1>1, <1>3, <1>4 DEF Fresh, u

\* merge_units() starts with its books in order.
LEMMA InitIInv == Init => IInv
<1> SUFFICES ASSUME Init PROVE IInv
  OBVIOUS
<1>1. TypeOK
  <2>1. cfg \in [size : Nat \ {0}, overlap : Nat]
    <3>1. PICK c \in Configs : cfg = Repaired(c)
      BY DEF Init
    <3>2. c \in [size : Int, overlap : Int]
      BY SizesAssumption
    <3>3. QED BY <3>1, <3>2, SizesAssumption DEF Repaired
  <2>2. NewTracker \in Tracker
    BY DEF NewTracker, Tracker
  <2>3. QED BY <2>1, <2>2 DEF Init, TypeOK
<1>2. ChunksOK(chunks) /\ Reach(chunks) = 0 /\ TextEnd = 0
  BY DEF Init, ChunksOK, Reach, TextEnd
<1>3. Ready(chunks, current, curLen, TextEnd)
  BY <1>2 DEF Init, Ready, Laid, IsSlice, RunLen
<1>4. Fits(chunks, current, curLen, TextEnd)
  BY SizesAssumption DEF Init, Fits
<1>5. QED BY <1>1, <1>2, <1>3, <1>4 DEF Init, IInv, RestOK

\* Every step keeps them in order.
LEMMA NextIInv == IInv /\ [Next]_vars => IInv'
<1> SUFFICES ASSUME IInv, [Next]_vars PROVE IInv'
  OBVIOUS
<1>0. TypeOK /\ ChunksOK(chunks) /\ ChunkSize \in Nat
  BY DEF IInv, TypeOK, ChunkSize
<1>1. ASSUME NEW s \in UnitShapes, NEW u, u = At(s, TextEnd),
             FlushAtTableBoundary(u) \/ Extend(u) \/ FlushAndOverlap(u)
      PROVE  IInv'
  <2>1. TextEnd \in Nat /\ Fresh(u, TextEnd) /\ u.len \in Nat
    BY <1>0, <1>1, ReadUnit, UnitFields DEF Fresh
  <2>2. Read(u) /\ rest' = rest
    BY <1>1 DEF FlushAtTableBoundary, Extend, FlushAndOverlap
  <2>3. /\ cfg' = cfg /\ phase' = "merging" /\ phase = "merging" /\ rest' = <<>>
        /\ units' \in Seq(Unit) /\ ht' \in Tracker
        /\ TextEnd' = TextEnd + u.len
    BY <1>0, <2>1, <2>2, ReadKeepsTypes
  <2>4. /\ ChunksOK(chunks')
        /\ Ready(chunks', current', curLen', TextEnd')
        /\ Fits(chunks', current', curLen', TextEnd')
    BY <1>1, <2>1, <2>3, SmallUnitKeepsReady
  <2>5. /\ ChunksOK(chunks)'
        /\ Ready(chunks, current, curLen, TextEnd)'
        /\ Fits(chunks, current, curLen, TextEnd)'
    BY <2>3, <2>4 DEF ChunksOK, ChunkOK, Next2, Ready, Fits, Allowed, ChunkSize
  <2>6. TypeOK'
    BY <1>0, <2>3, <2>4 DEF TypeOK, Ready, ChunksOK
  <2>7. QED BY <2>3, <2>5, <2>6 DEF IInv, RestOK
<1>2. ASSUME NEW s \in UnitShapes, NEW u, u = At(s, TextEnd), StartCutting(u)
      PROVE  IInv'
  <2>1. TextEnd \in Nat /\ Fresh(u, TextEnd) /\ u \in Unit /\ u.len \in Nat
    BY <1>0, <1>2, ReadUnit, UnitFields DEF Fresh
  <2>2. /\ Read(u) /\ rest' = <<u>> /\ current' = <<>> /\ curLen' = 0
        /\ chunks' = IF current = <<>> THEN chunks ELSE Append(chunks, BuildChunk(current))
    BY <1>2 DEF StartCutting
  <2>3. /\ cfg' = cfg /\ phase' = "merging" /\ phase = "merging" /\ rest = <<>>
        /\ units' \in Seq(Unit) /\ ht' \in Tracker
        /\ TextEnd' = TextEnd + u.len
    BY <1>0, <2>1, <2>2, ReadKeepsTypes
  <2>4. /\ Ready(chunks, current, curLen, TextEnd)
        /\ Fits(chunks, current, curLen, TextEnd)
    BY <2>3 DEF IInv
  <2>5. ChunksOK(chunks') /\ Reach(chunks') = TextEnd
    <3>1. CASE current = <<>>
      BY <1>0, <2>2, <2>4, <3>1 DEF Ready
    <3>2. CASE current # <<>>
      <4>1. Allowed(current, curLen) /\ (ChunkSize <= AbsMax => Reach(chunks) < TextEnd)
        BY <2>4, <3>2 DEF Fits
      <4>2. QED BY <1>0, <2>1, <2>2, <2>4, <3>2, <4>1, FlushKeepsChunks
    <3>3. QED BY <3>1, <3>2
  <2>6. ChunksOK(chunks)'
    BY <2>3, <2>5 DEF ChunksOK, ChunkOK, Next2, Allowed, ChunkSize
  <2>7. RestOK'
    <3>1. u.kind # "marker" /\ u.len > 0 /\ u.start = TextEnd /\ u.end = TextEnd + u.len
      BY <2>1 DEF Fresh
    <3>2. rest'[1] = u
      BY <2>2
    <3>3. Reach(chunks)' = Reach(chunks')
      BY DEF Reach
    <3>4. QED BY <2>2, <2>3, <2>5, <3>1, <3>2, <3>3 DEF RestOK
  <2>8. TypeOK'
    <3>1. <<u>> \in Seq(Unit) /\ Len(<<u>>) = 1
      BY <2>1
    <3>2. QED BY <1>0, <2>2, <2>3, <2>5, <3>1 DEF TypeOK, ChunksOK
  <2>9. rest' # <<>>
    BY <2>2
  <2>10. QED BY <2>3, <2>6, <2>7, <2>8, <2>9 DEF IInv
<1>3. ASSUME NEW n \in 1 .. AbsMax, CutPiece(n)
      PROVE  IInv'
  <2> DEFINE u == rest[1]
             p == Piece(u, n)
  <2>1. /\ phase = "merging" /\ current = <<>> /\ curLen = 0 /\ rest # <<>>
        /\ u.kind # "marker" /\ u.len > 0 /\ u.end = u.start + u.len
        /\ u.start = Reach(chunks) /\ u.end = TextEnd
    BY <1>3 DEF IInv, RestOK, CutPiece
  <2>2. u \in Unit /\ u.start \in Nat /\ u.len \in Nat
    BY <1>0, <2>1, EmptySeq, UnitFields DEF TypeOK
  <2>3. /\ chunks' = Append(chunks, BuildChunk(<<p>>))
        /\ rest' = IF n = u.len THEN <<>>
                   ELSE <<Remainder(u, n)>>
        /\ UNCHANGED <<cfg, units, ht, current, curLen, phase>>
    BY <1>3 DEF CutPiece
  <2>4. n \in Nat /\ n > 0 /\ n <= AbsMax /\ n <= u.len
        /\ Fresh(p, Reach(chunks)) /\ p.end = Reach(chunks) + n /\ p.len = n
    BY <1>0, <1>3, CutOff
  <2> HIDE DEF p, u
  <2>5. Ready(chunks, <<p>>, n, u.start + n)
    <3>1. <<p>> \in Seq(Unit) /\ Laid(<<p>>) /\ RunLen(<<p>>, 1) = n
      BY <2>4, UnitFields DEF Fresh, Laid, IsSlice, RunLen, ShownExtra, IsMarker
    <3>2. p.start = u.start /\ p.end = u.start + n
      BY <2>1, <2>4 DEF Fresh
    <3>3. LastStart(chunks) <= Reach(chunks)
      <4>1. CASE chunks = <<>>
        BY <4>1 DEF LastStart, Reach
      <4>2. CASE chunks # <<>>
        <5> DEFINE c == chunks[Len(chunks)]
        <5>1. ChunkOK(c)
          BY <1>0, <4>2, EmptySeq DEF ChunksOK
        <5>2. c.start <= c.end
          BY <5>1, LaidOrdered, EmptySeq DEF ChunkOK, Chunk
        <5>3. QED BY <4>2, <5>2 DEF LastStart, Reach
      <4>3. QED BY <4>1, <4>2
    <3>4. QED BY <2>1, <2>2, <2>4, <3>1, <3>2, <3>3 DEF Ready
  <2>6. Allowed(<<p>>, n)
    BY <2>4 DEF Allowed
  <2>7. ChunksOK(chunks') /\ Reach(chunks') = u.start + n
    <3>1. u.start + n \in Nat /\ Reach(chunks) < u.start + n /\ <<p>> # <<>>
      BY <2>1, <2>2, <2>4
    <3>2. QED BY <1>0, <2>3, <2>5, <2>6, <3>1, FlushKeepsChunks
  <2>8. ChunksOK(chunks)' /\ Reach(chunks)' = u.start + n /\ TextEnd' = TextEnd
    BY <2>3, <2>7 DEF ChunksOK, ChunkOK, Next2, Allowed, ChunkSize, Reach, TextEnd
  <2>9. CASE n = u.len
    <3>1. rest' = <<>>
      BY <2>3, <2>9
    <3>2. Ready(chunks, current, curLen, TextEnd)'
      BY <2>1, <2>3, <2>8, <2>9 DEF Ready, Laid, IsSlice, RunLen
    <3>3. Fits(chunks, current, curLen, TextEnd)'
      BY <2>1, <2>3, SizesAssumption DEF Fits
    <3>4. TypeOK'
      BY <1>0, <2>3, <2>7, <3>1 DEF TypeOK, ChunksOK
    <3>5. QED BY <2>1, <2>3, <2>8, <3>1, <3>2, <3>3, <3>4 DEF IInv, RestOK
  <2>10. CASE n # u.len
    <3> DEFINE v == Remainder(u, n)
    <3>1. rest' = <<v>>
      BY <2>3, <2>10
    <3>2. /\ v \in Unit /\ v.kind # "marker" /\ v.len > 0
          /\ v.start = u.start + n /\ v.end = v.start + v.len /\ v.end = TextEnd
      <4>1. u.start + n \in Nat /\ u.len - n \in Nat /\ u.len - n > 0
        BY <2>2, <2>4, <2>10
      <4>2. v \in Unit /\ v.kind = u.kind /\ v.end = u.end /\ v.start = u.start + n
            /\ v.len = u.len - n
        BY <2>2, <2>4, PieceTyped
      <4> HIDE DEF v
      <4>3. QED BY <2>1, <2>2, <2>4, <4>1, <4>2
    <3> HIDE DEF v
    <3>3. rest'[1] = v /\ <<v>> \in Seq(Unit) /\ Len(<<v>>) = 1 /\ rest' # <<>>
      BY <3>1, <3>2
    <3>4. RestOK'
      BY <2>1, <2>3, <2>8, <3>2, <3>3 DEF RestOK
    <3>5. TypeOK'
      BY <1>0, <2>3, <2>7, <3>1, <3>3 DEF TypeOK, ChunksOK
    <3>6. QED BY <2>1, <2>3, <2>8, <3>3, <3>4, <3>5 DEF IInv
  <2>11. QED BY <2>9, <2>10
<1>4. ASSUME Finish
      PROVE  IInv'
  <2>1. /\ phase = "merging" /\ rest = <<>> /\ phase' = "done"
        /\ chunks' = IF current = <<>> THEN chunks ELSE Append(chunks, BuildChunk(current))
        /\ UNCHANGED <<cfg, units, ht, current, curLen, rest>>
    BY <1>4 DEF Finish
  <2>2. /\ Ready(chunks, current, curLen, TextEnd)
        /\ Fits(chunks, current, curLen, TextEnd)
    BY <2>1 DEF IInv
  <2>3. TextEnd \in Nat
    <3>1. CASE units = <<>>
      BY <3>1 DEF TextEnd
    <3>2. CASE units # <<>>
      BY <1>0, <3>2, EmptySeq, UnitFields DEF TextEnd, TypeOK
    <3>3. QED BY <3>1, <3>2
  <2>4. ChunksOK(chunks') /\ Reach(chunks') = TextEnd
    <3>1. CASE current = <<>>
      BY <1>0, <2>1, <2>2, <3>1 DEF Ready
    <3>2. CASE current # <<>>
      <4>1. Allowed(current, curLen) /\ (ChunkSize <= AbsMax => Reach(chunks) < TextEnd)
        BY <2>2, <3>2 DEF Fits
      <4>2. QED BY <1>0, <2>1, <2>2, <2>3, <3>2, <4>1, FlushKeepsChunks
    <3>3. QED BY <3>1, <3>2
  <2>5. ChunksOK(chunks)' /\ Reach(chunks)' = TextEnd' /\ TextEnd' = TextEnd
    BY <2>1, <2>4 DEF ChunksOK, ChunkOK, Next2, Allowed, ChunkSize, Reach, TextEnd
  <2>6. TypeOK'
    BY <1>0, <2>1, <2>4 DEF TypeOK, ChunksOK
  <2>7. QED BY <2>1, <2>5, <2>6 DEF IInv, RestOK
<1>5. CASE UNCHANGED vars
  BY <1>0, <1>5 DEF vars, IInv, TypeOK, ChunksOK, ChunkOK, Next2, Allowed, ChunkSize, Reach,
     LastStart, TextEnd, RestOK, Ready, Fits
<1>6. CASE NextUnit
  <2>1. PICK s \in UnitShapes :
          LET u == At(s, TextEnd)
          IN  \/ FlushAtTableBoundary(u)
              \/ Extend(u)
              \/ FlushAndOverlap(u)
              \/ StartCutting(u)
    BY <1>6 DEF NextUnit
  <2>2. QED BY <1>1, <1>2, <2>1
<1>7. QED BY <1>3, <1>4, <1>5, <1>6 DEF Next

-------------------------------------------------------------------------------
(***************************************************************************)
(* The theorems.                                                           *)
(***************************************************************************)

\* The inductive invariant holds: merge_units() keeps its books.
THEOREM Invariant == Spec => []IInv
<1>1. Init => IInv
  BY InitIInv
<1>2. IInv /\ [Next]_vars => IInv'
  BY NextIInv
<1>3. QED BY <1>1, <1>2, PTL DEF Spec

\* The variables of merge_units() keep their types.
THEOREM TypeCorrect == Spec => []TypeOK
<1>1. IInv => TypeOK
  BY DEF IInv
<1>2. QED BY <1>1, Invariant, PTL

\* Every chunk is one stretch of the document, behind at most one repeated
\* header, and its start and end say which.
THEOREM SlicesCorrect == Spec => []ChunksAreSlices
<1>1. IInv => ChunksAreSlices
  BY DEF IInv, ChunksOK, ChunkOK, Laid, ChunksAreSlices
<1>2. QED BY <1>1, Invariant, PTL

\* No chunk exceeds the absolute maximum, nor chunk_size unless it is one unit.
THEOREM BudgetCorrect == Spec => []WithinBudget
<1>1. IInv => WithinBudget
  BY DEF IInv, ChunksOK, ChunkOK, WithinBudget
<1>2. QED BY <1>1, Invariant, PTL

\* No chunk repeats only what earlier chunks hold.
THEOREM NoveltyCorrect == Spec => []EveryChunkIsNew
<1>1. IInv => EveryChunkIsNew
  BY DEF IInv, ChunksOK, Next2, EveryChunkIsNew
<1>2. QED BY <1>1, Invariant, PTL

\* A chunk, once produced, stays as it is and where it is.
LEMMA ChunksGrow ==
  ASSUME IInv, [Next]_vars
  PROVE  /\ Len(chunks) <= Len(chunks')
         /\ \A i \in 1 .. Len(chunks) : chunks'[i] = chunks[i]
<1> DEFINE Longer(old, new) ==
      Len(old) <= Len(new) /\ \A i \in 1 .. Len(old) : new[i] = old[i]
<1> SUFFICES Longer(chunks, chunks')
  OBVIOUS
<1>1. chunks \in Seq(Chunk) /\ chunks' \in Seq(Chunk)
  BY NextIInv DEF IInv, TypeOK
<1>2. \A c \in Chunk : Append(chunks, c) \in Seq(Chunk) /\ Longer(chunks, Append(chunks, c))
  BY <1>1, AppendProperties
<1>3. \A c, d \in Chunk : Longer(chunks, Append(Append(chunks, c), d))
  <2> SUFFICES ASSUME NEW c \in Chunk, NEW d \in Chunk
               PROVE  Longer(chunks, Append(Append(chunks, c), d))
    OBVIOUS
  <2> DEFINE mid == Append(chunks, c)
  <2>1. mid \in Seq(Chunk) /\ Longer(chunks, mid) /\ Len(mid) \in Nat
    BY <1>2
  <2> HIDE DEF mid
  <2>2. Longer(mid, Append(mid, d))
    BY <2>1, AppendProperties
  <2>3. Longer(chunks, Append(mid, d))
    BY <1>1, <2>1, <2>2
  <2>4. QED BY <2>3 DEF mid
<1>4. \A us \in Seq(Unit) : us # <<>> => BuildChunk(us) \in Chunk
  BY EmptySeq, UnitFields DEF BuildChunk, Chunk
<1> HIDE DEF Longer
<1>5. ASSUME NEW base \in Seq(Unit), NEW n, NEW u, NEW cs,
             Place(cs, base, n, u),
             cs = chunks \/ (current # <<>> /\ cs = Append(chunks, BuildChunk(current)))
      PROVE  Longer(chunks, chunks')
  <2>1. chunks' = cs \/ (base # <<>> /\ chunks' = Append(cs, BuildChunk(base)))
    BY <1>5 DEF Place
  <2>2. current # <<>> => BuildChunk(current) \in Chunk
    BY <1>4 DEF IInv, TypeOK
  <2>3. base # <<>> => BuildChunk(base) \in Chunk
    BY <1>4
  <2>4. Longer(chunks, chunks)
    BY DEF Longer
  <2>5. QED BY <1>2, <1>3, <1>5, <2>1, <2>2, <2>3, <2>4
<1>6. current \in Seq(Unit)
  BY DEF IInv, TypeOK
<1>7. (chunks' = IF current = <<>> THEN chunks ELSE Append(chunks, BuildChunk(current)))
        => Longer(chunks, chunks')
  <2>1. Longer(chunks, chunks)
    BY DEF Longer
  <2>2. QED BY <1>2, <1>4, <1>6, <2>1
<1>8. ASSUME NEW s \in UnitShapes, NEW u, u = At(s, TextEnd),
             FlushAtTableBoundary(u) \/ Extend(u) \/ FlushAndOverlap(u) \/ StartCutting(u)
      PROVE  Longer(chunks, chunks')
  <2>1. CASE FlushAtTableBoundary(u)
    <3>1. current # <<>> /\ Place(Append(chunks, BuildChunk(current)), <<>>, 0, u)
      BY <2>1 DEF FlushAtTableBoundary, AtTableBoundary
    <3>2. <<>> \in Seq(Unit)
      OBVIOUS
    <3>3. QED BY <1>5, <3>1, <3>2
  <2>2. CASE Extend(u)
    BY <1>5, <1>6, <2>2 DEF Extend
  <2>3. CASE StartCutting(u)
    BY <1>7, <2>3 DEF StartCutting
  <2>4. CASE FlushAndOverlap(u)
    <3> DEFINE cs == Append(chunks, BuildChunk(current))
    <3>1. current # <<>>
      BY <2>4 DEF FlushAndOverlap, Overflows
    <3>2. \A k \in 1 .. Len(current) + 1 : From(current, k) \in Seq(Unit)
      BY <1>6, FromProperties
    <3>3. ht' \in Tracker
      <4>1. TypeOK
        BY DEF IInv
      <4>2. Fresh(u, TextEnd)
        BY <1>8, <4>1, ReadUnit
      <4>3. QED BY <2>4, <4>1, <4>2, ReadKeepsTypes DEF FlushAndOverlap
    <3>4. \E base \in Seq(Unit) : \E n : Place(cs, base, n, u)
      <4> DEFINE h == ht'.active
      <4>1. PICK t \in 1 .. Len(current) + 1 :
              IF Usable(h) /\ h.len + u.len <= ChunkSize
              THEN \E k \in t .. Len(current) + 1 :
                     LET kept == From(current, k)
                     IN  IF NeedsMarker(kept, u, h)
                         THEN Place(cs, WithMarker(kept, u, h), RunLen(current, k) + h.len, u)
                         ELSE Place(cs, kept, RunLen(current, k), u)
              ELSE Place(cs, From(current, t), RunLen(current, t), u)
        BY <2>4 DEF FlushAndOverlap
      <4>2. CASE ~ (Usable(h) /\ h.len + u.len <= ChunkSize)
        BY <3>2, <4>1, <4>2
      <4>3. CASE Usable(h) /\ h.len + u.len <= ChunkSize
        <5>1. PICK k \in t .. Len(current) + 1 :
                LET kept == From(current, k)
                IN  IF NeedsMarker(kept, u, h)
                    THEN Place(cs, WithMarker(kept, u, h), RunLen(current, k) + h.len, u)
                    ELSE Place(cs, kept, RunLen(current, k), u)
          BY <4>1, <4>3
        <5> DEFINE kept == From(current, k)
                   p == IF kept # <<>> THEN kept[1].start ELSE u.start
        <5>2. kept \in Seq(Unit)
          BY <3>2
        <5>3. p \in Nat
          <6>1. u \in Unit
            BY <1>8, ReadUnit DEF IInv, Fresh
          <6>2. QED BY <5>2, <6>1, EmptySeq, UnitFields
        <5>4. h \in Header
          BY <3>3, <4>3 DEF Usable, Tracker
        <5> HIDE DEF kept
        <5>5. Marker(h, p) \in Unit
          BY <5>3, <5>4 DEF Marker, Unit, Header, Kinds
        <5>6. WithMarker(kept, u, h) \in Seq(Unit)
          BY <5>2, <5>5, ConcatProperties DEF WithMarker
        <5>7. QED BY <5>1, <5>2, <5>6 DEF kept
      <4>4. QED BY <4>2, <4>3
    <3>5. QED BY <1>5, <3>1, <3>4
  <2>5. QED BY <1>8, <2>1, <2>2, <2>3, <2>4
<1>9. ASSUME NEW n \in 1 .. AbsMax, CutPiece(n)
      PROVE  Longer(chunks, chunks')
  <2>1. ChunkSize \in Nat
    BY DEF IInv, TypeOK, ChunkSize
  <2>2. Piece(rest[1], n) \in Unit
    BY <1>9, <2>1, CutOff DEF Fresh
  <2>3. <<Piece(rest[1], n)>> \in Seq(Unit)
    BY <2>2
  <2>4. BuildChunk(<<Piece(rest[1], n)>>) \in Chunk
    BY <1>4, <2>3
  <2>5. QED BY <1>2, <1>9, <2>4 DEF CutPiece
<1>10. CASE Finish
  BY <1>7, <1>10 DEF Finish
<1>11. CASE UNCHANGED vars
  BY <1>11 DEF vars, Longer
<1>12. CASE NextUnit
  <2>1. PICK s \in UnitShapes :
          LET u == At(s, TextEnd)
          IN  \/ FlushAtTableBoundary(u)
              \/ Extend(u)
              \/ FlushAndOverlap(u)
              \/ StartCutting(u)
    BY <1>12 DEF NextUnit
  <2>2. QED BY <1>8, <2>1
<1>13. NextUnit \/ (\E n \in 1 .. AbsMax : CutPiece(n)) \/ Finish \/ UNCHANGED vars
  BY DEF Next
<1>14. QED BY <1>9, <1>10, <1>11, <1>12, <1>13

\* The document only gets longer, and the chunks never reach past its end.
LEMMA ReachBounded == IInv => Reach(chunks) <= TextEnd
<1> SUFFICES ASSUME IInv PROVE Reach(chunks) <= TextEnd
  OBVIOUS
<1>1. TextEnd \in Nat
  BY EmptySeq, UnitFields DEF TextEnd, IInv, TypeOK
<1>2. CASE rest # <<>>
  <2>1. rest[1] \in Unit /\ rest[1].len > 0 /\ rest[1].end = rest[1].start + rest[1].len
        /\ rest[1].start = Reach(chunks) /\ rest[1].end = TextEnd
    BY <1>2, EmptySeq DEF IInv, TypeOK, RestOK
  <2>2. QED BY <2>1, UnitFields
<1>3. CASE rest = <<>> /\ phase = "merging"
  BY <1>1, <1>3 DEF IInv, Ready
<1>4. CASE phase = "done"
  BY <1>1, <1>4 DEF IInv
<1>5. QED BY <1>2, <1>3, <1>4 DEF IInv, TypeOK

\* The same of the next state.
LEMMA ReachBoundedNext == IInv' => (Reach(chunks) <= TextEnd)'
BY ReachBounded, PTL

\* merge_units() implements ChunkCover: its chunks follow the document without
\* a gap, are never taken back, and cover all of it when it returns.
THEOREM CoverCorrect == Spec => CoversDocument
<1>1. Init => Cover!Init
  BY DEF Init, Cover!Init, TextEnd, Spans
<1>2. ASSUME IInv, IInv', [Next]_vars
      PROVE  [Cover!Next]_Cover!vars
  <2>1. /\ chunks \in Seq(Chunk) /\ chunks' \in Seq(Chunk)
        /\ ChunksOK(chunks)'
        /\ Reach(chunks)' <= TextEnd'
    BY <1>2, ReachBoundedNext DEF IInv, TypeOK
  <2>2. Cover!Grows(Spans, Spans')
    <3>1. Len(chunks) <= Len(chunks') /\ \A i \in 1 .. Len(chunks) : chunks'[i] = chunks[i]
      BY <1>2, ChunksGrow
    <3>2. Len(Spans) = Len(chunks) /\ Len(Spans') = Len(chunks')
      BY <2>1 DEF Spans
    <3>3. \A i \in 1 .. Len(chunks) : Spans'[i] = Spans[i]
      BY <2>1, <3>1 DEF Spans
    <3>4. QED BY <3>1, <3>2, <3>3 DEF Cover!Grows
  <2>3. Cover!Chain(Spans')
    <3>1. Len(Spans') = Len(chunks') /\ (Spans' # <<>> => chunks' # <<>>)
          /\ \A i \in 1 .. Len(chunks') : /\ Spans'[i][1] = chunks'[i].start
                                         /\ Spans'[i][2] = chunks'[i].end
      BY <2>1 DEF Spans
    <3>2. \A i \in 1 .. Len(chunks') - 1 : Next2(chunks[i], chunks[i + 1])'
      BY <2>1 DEF ChunksOK, Next2
    <3>3. Spans' # <<>> => Spans'[1][1] = 0
      BY <2>1, <3>1, EmptySeq DEF ChunksOK
    <3>4. \A i \in 1 .. Len(Spans') - 1 : Cover!Follows(Spans'[i], Spans'[i + 1])
      BY <2>1, <3>1, <3>2 DEF Cover!Follows, Next2
    <3>5. QED BY <3>3, <3>4 DEF Cover!Chain
  <2>4. Cover!Covered(Spans') = Reach(chunks)'
    BY <2>1 DEF Cover!Covered, Reach, Spans
  <2>5. TextEnd \in Nat
    BY <1>2, EmptySeq, UnitFields DEF TextEnd, IInv, TypeOK
  <2>6. CASE NextUnit
    <3>1. PICK s \in UnitShapes :
            LET u == At(s, TextEnd)
            IN  \/ FlushAtTableBoundary(u)
                \/ Extend(u)
                \/ FlushAndOverlap(u)
                \/ StartCutting(u)
      BY <2>6 DEF NextUnit
    <3> DEFINE u == At(s, TextEnd)
    <3>2. Read(u)
      BY <3>1 DEF FlushAtTableBoundary, Extend, FlushAndOverlap, StartCutting
    <3>3. TypeOK /\ Fresh(u, TextEnd)
      BY <1>2, ReadUnit DEF IInv
    <3> HIDE DEF u
    <3>4. u.len \in Nat
      BY <3>3, UnitFields DEF Fresh
    <3>5. phase = "merging" /\ phase' = "merging" /\ TextEnd' = TextEnd + u.len
      BY <3>2, <3>3, ReadKeepsTypes
    <3>6. QED BY <2>1, <2>2, <2>3, <2>4, <2>5, <3>4, <3>5 DEF Cover!Next, Cover!Work
  <2>7. ASSUME NEW n \in 1 .. AbsMax, CutPiece(n)
        PROVE  Cover!Work
    <3>1. phase = "merging" /\ phase' = "merging" /\ TextEnd' = TextEnd
      BY <1>2, <2>7 DEF IInv, RestOK, CutPiece, TextEnd
    <3>2. QED BY <2>1, <2>2, <2>3, <2>4, <2>5, <3>1 DEF Cover!Work
  <2>8. CASE Finish
    <3>1. phase = "merging" /\ phase' = "done" /\ TextEnd' = TextEnd
      BY <2>8 DEF Finish, TextEnd
    <3>2. Cover!Covered(Spans') = TextEnd
      BY <1>2, <2>4, <3>1 DEF IInv
    <3>3. QED BY <2>2, <2>3, <3>1, <3>2 DEF Cover!Next, Cover!Return
  <2>9. CASE UNCHANGED vars
    BY <2>9 DEF vars, Cover!vars, TextEnd, Spans
  <2>10. NextUnit \/ (\E n \in 1 .. AbsMax : CutPiece(n)) \/ Finish \/ UNCHANGED vars
    BY <1>2 DEF Next
  <2>11. QED BY <2>6, <2>7, <2>8, <2>9, <2>10 DEF Cover!Next
<1>3. QED BY <1>1, <1>2, Invariant, PTL DEF Spec, CoversDocument, Cover!Spec

-------------------------------------------------------------------------------
(***************************************************************************)
(* The lengths that merge_units() counts by hand.                          *)
(***************************************************************************)
\* What holds of 0 and goes from each number to the next holds up to N.
LEMMA UpTo ==
  ASSUME NEW N \in Nat, NEW P, 0 \in P,
         \A k \in 0 .. N - 1 : k \in P => k + 1 \in P
  PROVE  0 .. N \subseteq P
<1> DEFINE T == (0 .. N) \ P
<1> SUFFICES ASSUME T # {} PROVE FALSE
  OBVIOUS
<1>1. T \subseteq Nat
  OBVIOUS
<1>2. PICK m \in T : \A n \in T : ~ (<<n, m>> \in OpToRel(<, Nat))
  <2> HIDE DEF T
  <2> QED
    BY <1>1, WFMin, NatLessThanWellFounded, Zenon
<1>3. m \in 1 .. N
  OBVIOUS
<1>4. m - 1 \notin T
  <2>1. m - 1 \in Nat /\ m \in Nat /\ m - 1 < m
    BY <1>3
  <2>2. <<m - 1, m>> \in OpToRel(<, Nat)
    BY <2>1, Zenon DEF OpToRel
  <2> QED
    BY <1>2, <2>2
<1> QED
  BY <1>3, <1>4

\* The lengths of the units of a slice add up to what its positions tell.
LEMMA SliceLength ==
  ASSUME NEW us \in Seq(Unit), Laid(us)
  PROVE  RunLen(us, 1) = ContentLen(us)
<1> DEFINE N == Len(us)
           Step(f) == [k \in 0 .. N |-> IF k = 0 THEN 0 ELSE f[k - 1] + us[k].len]
           told == [k \in 0 .. N |->
                      IF k = 0 THEN 0 ELSE us[k].end - us[1].start + ShownExtra(us[1])]
           sum == CHOOSE f : f = Step(f)
<1>0. N \in Nat
  OBVIOUS
<1>1. told = Step(told)
  <2> DEFINE Told(k) == us[k].end - us[1].start + ShownExtra(us[1])
             Sum(k) == told[k - 1] + us[k].len
  <2> SUFFICES ASSUME NEW k \in 1 .. N
               PROVE  Told(k) = Sum(k)
    <3>1. /\ told = [k \in 0 .. N |-> IF k = 0 THEN 0 ELSE Told(k)]
          /\ Step(told) = [k \in 0 .. N |-> IF k = 0 THEN 0 ELSE Sum(k)]
      OBVIOUS
    <3>2. \A k \in 0 .. N : k = 0 \/ k \in 1 .. N
      BY <1>0
    <3> HIDE DEF Told, Sum, told, Step, N
    <3> QED
      BY <3>1, <3>2
  <2>1. us[k] \in Unit /\ us[1] \in Unit
    OBVIOUS
  <2>2. CASE k = 1
    <3>1. us[1].kind = "marker" => us[1].end = us[1].start
      BY <2>2 DEF Laid, IsSlice
    <3>2. us[1].kind # "marker" => us[1].end = us[1].start + us[1].len /\ us[1].len > 0
      BY <2>2 DEF Laid, IsSlice
    <3>3. told[k - 1] = 0
      BY <2>2
    <3>4. QED BY <2>1, <2>2, <3>1, <3>2, <3>3, UnitFields DEF ShownExtra, IsMarker
  <2>3. CASE k # 1
    <3>1. us[k].end = us[k].start + us[k].len
      BY <2>3 DEF Laid, IsSlice
    <3>2. k - 1 \in 1 .. N /\ us[k - 1] \in Unit
      BY <2>3
    <3>3. us[k].start = us[k - 1].end
      <4>1. k - 1 \in 1 .. Len(us) - 1
        BY <2>3
      <4>2. us[(k - 1) + 1].start = us[k - 1].end
        BY <4>1 DEF Laid, IsSlice
      <4>3. QED BY <4>2
    <3>4. told[k - 1] = us[k - 1].end - us[1].start + ShownExtra(us[1])
      <4>1. k - 1 \in 0 .. N /\ k - 1 # 0
        BY <2>3
      <4> DEFINE i == k - 1
      <4> HIDE DEF i
      <4>2. i \in 0 .. N /\ i # 0 => told[i] = us[i].end - us[1].start + ShownExtra(us[1])
        OBVIOUS
      <4>3. QED BY <4>1, <4>2 DEF i
    <3> HIDE DEF told
    <3>5. us[k].end - us[1].start = us[k - 1].end - us[1].start + us[k].len
      BY <2>1, <3>1, <3>2, <3>3, UnitFields, SMTT(30)
    <3>6. /\ us[k].end \in Nat /\ us[k].len \in Nat /\ us[k - 1].end \in Nat
          /\ us[1].start \in Nat /\ ShownExtra(us[1]) \in Nat
      BY <2>1, <3>2, UnitFields
    <3>7. \A a, b, c, l, x \in Nat : a - b = c - b + l => a - b + x = (c - b + x) + l
      OBVIOUS
    <3>8. us[k].end - us[1].start + ShownExtra(us[1])
            = (us[k - 1].end - us[1].start + ShownExtra(us[1])) + us[k].len
      <4> HIDE DEF Told, Sum
      <4> QED BY <3>5, <3>6, <3>7
    <3>9. Sum(k) = (us[k - 1].end - us[1].start + ShownExtra(us[1])) + us[k].len
      BY <3>4
    <3>10. QED BY <3>8, <3>9
  <2>4. QED BY <2>2, <2>3
<1>2. sum = Step(sum)
  <2> HIDE DEF Step, told
  <2> QED BY <1>1, Zenon
<1>3. 0 .. N \subseteq {k \in 0 .. N : sum[k] = told[k]}
  <2> DEFINE P == {k \in 0 .. N : sum[k] = told[k]}
  <2> HIDE DEF told, sum
  <2>1. 0 \in P
    <3>1. Step(sum)[0] = 0 /\ Step(told)[0] = 0
      OBVIOUS
    <3>2. QED BY <1>0, <1>1, <1>2, <3>1
  <2>2. ASSUME NEW k \in 0 .. N - 1, k \in P PROVE k + 1 \in P
    <3>1. Step(sum)[k + 1] = sum[k] + us[k + 1].len /\ Step(told)[k + 1] = told[k] + us[k + 1].len
      OBVIOUS
    <3>2. QED BY <1>1, <1>2, <2>2, <3>1
  <2> HIDE DEF P
  <2>3. 0 .. N \subseteq P
    BY <1>0, <2>1, <2>2, UpTo
  <2>4. QED BY <2>3 DEF P
<1>4. ContentLen(us) = sum[N]
  BY DEF ContentLen
<1>5. sum[N] = told[N]
  <2>1. N \in 0 .. N
    BY <1>0
  <2> HIDE DEF sum, told
  <2>2. QED BY <1>3, <2>1
<1>6. told[N] = RunLen(us, 1)
  BY <1>0 DEF RunLen
<1>7. QED BY <1>4, <1>5, <1>6

\* The chunk in hand is a slice, and cur_len is its length, at any time.
Counted == Laid(current) /\ curLen = RunLen(current, 1)

LEMMA CountedStep ==
  ASSUME IInv, IInv', Counted, [Next]_vars
  PROVE  Counted'
<1>1. CASE rest' # <<>>
  <2>1. current' = <<>> /\ curLen' = 0
    BY <1>1 DEF IInv, RestOK
  <2>2. QED BY <2>1 DEF Counted, Laid, IsSlice, RunLen
<1>2. CASE rest' = <<>> /\ phase' = "merging"
  BY <1>2 DEF IInv, Ready, Counted
<1>3. CASE phase' = "done"
  <2>1. current' = current /\ curLen' = curLen
    <3>1. CASE phase = "merging"
      <4>1. \A u : Read(u) => phase' = "merging"
        BY <3>1 DEF Read
      <4>2. ~ NextUnit
        BY <1>3, <4>1 DEF NextUnit, FlushAtTableBoundary, Extend, FlushAndOverlap, StartCutting
      <4>3. \A n \in 1 .. AbsMax : CutPiece(n) => phase' = "merging"
        BY <3>1 DEF CutPiece
      <4>4. Finish \/ UNCHANGED vars
        BY <1>3, <4>2, <4>3 DEF Next
      <4>5. QED BY <4>4 DEF Finish, vars
    <3>2. CASE phase # "merging"
      <4>1. ~ NextUnit
        BY <3>2 DEF NextUnit, FlushAtTableBoundary, Extend, FlushAndOverlap, StartCutting, Read
      <4>2. \A n : CutPiece(n) => current' = current /\ curLen' = curLen
        BY DEF CutPiece
      <4>3. (\E n \in 1 .. AbsMax : CutPiece(n)) \/ Finish \/ UNCHANGED vars
        BY <4>1 DEF Next
      <4>4. QED BY <4>2, <4>3 DEF Finish, vars
    <3>3. QED BY <3>1, <3>2
  <2>2. QED BY <2>1 DEF Counted, Laid, IsSlice, RunLen
<1>4. QED BY <1>1, <1>2, <1>3 DEF IInv, TypeOK

\* cur_len is the number of characters of the chunk in hand, and the positions
\* of every chunk tell how long it is.
THEOREM LengthsCorrect == Spec => []LengthsAreExact
<1>1. Init => Counted
  BY DEF Init, Counted, Laid, IsSlice, RunLen
<1>2. IInv /\ Counted => LengthsAreExact
  <2> SUFFICES ASSUME IInv, Counted PROVE LengthsAreExact
    OBVIOUS
  <2>1. curLen = ContentLen(current)
    BY SliceLength DEF Counted, IInv, TypeOK
  <2>2. ASSUME NEW i \in 1 .. Len(chunks)
        PROVE  RunLen(chunks[i].content, 1) = ContentLen(chunks[i].content)
    <3>1. chunks[i].content \in Seq(Unit) /\ Laid(chunks[i].content)
      BY DEF IInv, ChunksOK, ChunkOK, Chunk
    <3>2. QED BY <3>1, SliceLength
  <2>3. QED BY <2>1, <2>2 DEF LengthsAreExact
<1>3. QED BY <1>1, <1>2, CountedStep, Invariant, PTL DEF Spec

-------------------------------------------------------------------------------
(***************************************************************************)
(* What FlushAndOverlap(u) starts the next chunk with: the units of the    *)
(* flushed chunk from s on, alone or behind the header of the table.       *)
(***************************************************************************)
Flushed == Append(chunks, BuildChunk(current))

KeptAlone(u, s) ==
  /\ Place(Flushed, From(current, s), RunLen(current, s), u)
  /\ s <= Len(current) => RunLen(current, s) + u.len <= ChunkSize
  /\ Usable(ht'.active) /\ ht'.active.len + u.len <= ChunkSize =>
       ~ NeedsMarker(From(current, s), u, ht'.active)

KeptBehindHeader(u, s) ==
  LET h == ht'.active
  IN  /\ h \in Header
      /\ Usable(h)
      /\ NeedsMarker(From(current, s), u, h)
      /\ Place(Flushed, WithMarker(From(current, s), u, h), RunLen(current, s) + h.len, u)
      /\ RunLen(current, s) + h.len + u.len <= ChunkSize

\* The chunk after a flush starts in one of these two ways, and what is kept
\* does not start with an earlier marker.
LEMMA OverlapResult ==
  ASSUME IInv, NEW u, Fresh(u, TextEnd), FlushAndOverlap(u)
  PROVE  /\ current # <<>>
         /\ curLen + u.len + HeaderLen(ht'.active) > ChunkSize
         /\ \E s \in 1 .. Len(current) + 1 :
              /\ s <= Len(current) => ~ IsMarker(current[s])
              /\ KeptAlone(u, s) \/ KeptBehindHeader(u, s)
<1> DEFINE h == ht'.active
<1>1. /\ TypeOK /\ ChunkSize \in Nat /\ u.len \in Nat /\ ht' \in Tracker
      /\ current \in Seq(Unit) /\ Laid(current) /\ curLen = RunLen(current, 1)
  <2>1. Read(u) /\ rest = <<>> /\ phase = "merging"
    BY DEF FlushAndOverlap, Read
  <2>2. TypeOK /\ Ready(chunks, current, curLen, TextEnd)
    BY <2>1 DEF IInv
  <2>3. ht' \in Tracker
    BY <2>1, <2>2, ReadKeepsTypes
  <2>4. QED BY <2>2, <2>3, UnitFields DEF Ready, TypeOK, ChunkSize, Fresh
<1>2. current # <<>> /\ curLen + u.len + HeaderLen(h) > ChunkSize
  BY DEF FlushAndOverlap, Overflows
<1>3. PICK t \in 1 .. Len(current) + 1 :
        /\ OverlapFrom(current, t, u.len)
        /\ IF Usable(h) /\ h.len + u.len <= ChunkSize
           THEN \E s \in t .. Len(current) + 1 :
                  /\ ShrinkStops(current, t, s, ChunkSize - u.len - h.len)
                  /\ LET kept == From(current, s)
                     IN  IF NeedsMarker(kept, u, h)
                         THEN Place(Flushed, WithMarker(kept, u, h),
                                    RunLen(current, s) + h.len, u)
                         ELSE Place(Flushed, kept, RunLen(current, s), u)
           ELSE Place(Flushed, From(current, t), RunLen(current, t), u)
  BY DEF FlushAndOverlap, Flushed
<1>4. \A s \in t .. Len(current) : ~ IsMarker(current[s])
  <2> SUFFICES ASSUME NEW s \in t .. Len(current) PROVE ~ IsMarker(current[s])
    OBVIOUS
  <2>1. CASE s = 1
    BY <1>3, <2>1 DEF OverlapFrom, SkipStops, Skipped
  <2>2. CASE s \in 2 .. Len(current)
    BY <1>1, <2>2, MarkerIsFirst DEF Laid
  <2>3. QED BY <2>1, <2>2
<1>5. \A s \in 1 .. Len(current) + 1 : RunLen(current, s) \in Nat
  BY <1>1, FromLaid
<1>6. CASE ~ (Usable(h) /\ h.len + u.len <= ChunkSize)
  <2>1. Place(Flushed, From(current, t), RunLen(current, t), u)
    BY <1>3, <1>6
  <2>2. t <= Len(current) => RunLen(current, t) + u.len <= ChunkSize
    BY <1>3 DEF OverlapFrom, WalkBackStops, SkipStops, OverlapFits
  <2>3. KeptAlone(u, t)
    BY <1>6, <2>1, <2>2 DEF KeptAlone
  <2>4. QED BY <1>2, <1>4, <2>3
<1>7. CASE Usable(h) /\ h.len + u.len <= ChunkSize
  <2>1. h \in Header /\ h.len \in Nat
    BY <1>1, <1>7 DEF Usable, Tracker, Header
  <2>2. PICK s \in t .. Len(current) + 1 :
          /\ ShrinkStops(current, t, s, ChunkSize - u.len - h.len)
          /\ LET kept == From(current, s)
             IN  IF NeedsMarker(kept, u, h)
                 THEN Place(Flushed, WithMarker(kept, u, h), RunLen(current, s) + h.len, u)
                 ELSE Place(Flushed, kept, RunLen(current, s), u)
    BY <1>3, <1>7
  <2>3. RunLen(current, s) + h.len + u.len <= ChunkSize
    <3>1. CASE s = Len(current) + 1
      <4>1. RunLen(current, s) = 0
        BY <1>1, <3>1 DEF RunLen
      <4>2. QED BY <1>1, <1>7, <2>1, <4>1
    <3>2. CASE s <= Len(current)
      <4>1. RunLen(current, s) <= ChunkSize - u.len - h.len
        BY <2>2, <3>2 DEF ShrinkStops
      <4>2. RunLen(current, s) \in Nat
        BY <1>5
      <4>3. QED BY <1>1, <2>1, <4>1, <4>2, SMTT(30)
    <3>3. QED BY <3>1, <3>2
  <2>4. s \in 1 .. Len(current) + 1 /\ (s <= Len(current) => ~ IsMarker(current[s]))
    BY <1>4
  <2>5. CASE NeedsMarker(From(current, s), u, h)
    <3>1. KeptBehindHeader(u, s)
      BY <1>7, <2>1, <2>2, <2>3, <2>5 DEF KeptBehindHeader
    <3>2. QED BY <1>2, <2>4, <3>1
  <2>6. CASE ~ NeedsMarker(From(current, s), u, h)
    <3>1. RunLen(current, s) + u.len <= ChunkSize
      <4>1. RunLen(current, s) \in Nat
        BY <1>5, <2>4
      <4>2. QED BY <1>1, <2>1, <2>3, <4>1, SMTT(30)
    <3>2. KeptAlone(u, s)
      BY <2>2, <2>6, <3>1 DEF KeptAlone
    <3>3. QED BY <1>2, <2>4, <3>2
  <2>7. QED BY <2>5, <2>6
<1>8. QED BY <1>6, <1>7

-------------------------------------------------------------------------------
(***************************************************************************)
(* Two neighbours: a chunk that repeats a header and nothing of the chunk  *)
(* before it would not have fitted into it.                                *)
(***************************************************************************)
Pair(c, d) ==
  HasMarker(d.content) /\ c.end = d.start =>
    RunLen(c.content, 1) + RunLen(d.content, 1) > ChunkSize

PairsOK(cs) == \A i \in 1 .. Len(cs) - 1 : Pair(cs[i], cs[i + 1])

\* The same of the last chunk and the one in hand, us, n characters long.
Apart(cs, us, n) ==
  cs # <<>> /\ HasMarker(us) /\ Reach(cs) = us[1].start =>
    RunLen(cs[Len(cs)].content, 1) + n > ChunkSize

ApartInv ==
  ChunkSize <= AbsMax =>
    /\ PairsOK(chunks)
    /\ phase = "merging" => Apart(chunks, current, curLen)

\* Flushing what is apart from the chunks before it.
LEMMA FlushKeepsPairs ==
  ASSUME NEW cs \in Seq(Chunk), PairsOK(cs), NEW us \in Seq(Unit), us # <<>>,
         Apart(cs, us, RunLen(us, 1))
  PROVE  LET ds == Append(cs, BuildChunk(us))
         IN  PairsOK(ds) /\ ds # <<>> /\ Reach(ds) = us[Len(us)].end
             /\ ds[Len(ds)].content = us
<1> DEFINE c == BuildChunk(us)
           ds == Append(cs, c)
<1>1. c \in Chunk /\ c.content = us /\ c.start = us[1].start /\ c.end = us[Len(us)].end
  BY EmptySeq, UnitFields DEF BuildChunk, Chunk
<1> HIDE DEF c
<1>2. /\ ds \in Seq(Chunk) /\ ds # <<>> /\ Len(ds) = Len(cs) + 1
      /\ \A i \in 1 .. Len(cs) : ds[i] = cs[i]
      /\ ds[Len(cs) + 1] = c
  BY <1>1, AppendProperties
<1> HIDE DEF ds
<1>3. ASSUME NEW i \in 1 .. Len(ds) - 1 PROVE Pair(ds[i], ds[i + 1])
  <2>1. CASE i < Len(cs)
    <3>1. ds[i] = cs[i] /\ ds[i + 1] = cs[i + 1] /\ i \in 1 .. Len(cs) - 1
      BY <1>2, <2>1
    <3>2. QED BY <3>1 DEF PairsOK
  <2>2. CASE i = Len(cs)
    <3>1. cs # <<>> /\ ds[i] = cs[Len(cs)] /\ ds[i + 1] = c
      BY <1>2, <2>2
    <3>2. QED BY <1>1, <3>1 DEF Pair, Apart, Reach
  <2>3. QED BY <1>2, <2>1, <2>2
<1>4. QED BY <1>1, <1>2, <1>3 DEF PairsOK, Reach, ds, c

\* What does not start with a marker is apart from anything.
LEMMA NoMarkerApart ==
  ASSUME NEW base \in Seq(Unit), base # <<>> => ~ IsMarker(base[1]), Laid(base),
         NEW u \in Unit, u.kind # "marker", NEW cs, NEW n
  PROVE  Apart(cs, Append(base, u), n) /\ Apart(cs, <<u>>, n)
<1>1. Append(base, u)[1] = IF base = <<>> THEN u ELSE base[1]
  BY EmptySeq, AppendProperties
<1>2. base # <<>> => base[1].kind # "marker"
  BY EmptySeq DEF Laid, IsSlice, IsMarker
<1>3. QED BY <1>1, <1>2 DEF Apart, HasMarker

\* What a unit that is not oversized leaves, when chunk_size is not above the
\* absolute maximum: nothing else is flushed.
LEMMA PlacePlain ==
  ASSUME NEW cs, NEW base, NEW n \in Nat, NEW u, u.len \in Nat, u.len <= AbsMax,
         base # <<>> => n + u.len <= ChunkSize, ChunkSize \in Nat, ChunkSize <= AbsMax,
         Place(cs, base, n, u)
  PROVE  chunks' = cs /\ current' = Append(base, u) /\ curLen' = n + u.len
<1>1. ~ (n + u.len > AbsMax /\ base # <<>>)
  BY SizesAssumption
<1>2. QED BY <1>1 DEF Place

\* The configuration never changes.
LEMMA CfgConstant == [Next]_vars => cfg' = cfg
BY DEF Next, vars, NextUnit, FlushAtTableBoundary, Extend, FlushAndOverlap, StartCutting,
   Read, CutPiece, Finish

\* The three ways a small unit is put down keep neighbours apart.
LEMMA SmallUnitApart ==
  ASSUME IInv, ApartInv, ChunkSize <= AbsMax, NEW u, Fresh(u, TextEnd),
         FlushAtTableBoundary(u) \/ Extend(u) \/ FlushAndOverlap(u)
  PROVE  PairsOK(chunks') /\ Apart(chunks', current', curLen')
<1>1. Read(u) /\ u.len <= AbsMax /\ phase = "merging" /\ rest = <<>>
  BY DEF FlushAtTableBoundary, Extend, FlushAndOverlap, Read
<1>2. /\ chunks \in Seq(Chunk) /\ ChunkSize \in Nat
      /\ u.len \in Nat /\ u \in Unit /\ u.len > 0 /\ u.kind # "marker"
      /\ current \in Seq(Unit) /\ Laid(current) /\ curLen = RunLen(current, 1) /\ curLen \in Nat
      /\ ht' \in Tracker
      /\ PairsOK(chunks) /\ Apart(chunks, current, curLen)
  <2>1. TypeOK /\ Ready(chunks, current, curLen, TextEnd)
    BY <1>1 DEF IInv
  <2>2. ht' \in Tracker
    BY <1>1, <2>1, ReadKeepsTypes
  <2>3. QED BY <1>1, <2>1, <2>2, UnitFields DEF Ready, TypeOK, ChunkSize, Fresh, ApartInv
<1>3. current # <<>> =>
        /\ PairsOK(Flushed) /\ Flushed # <<>>
        /\ Reach(Flushed) = current[Len(current)].end
        /\ Flushed[Len(Flushed)].content = current
  BY <1>2, FlushKeepsPairs DEF Flushed
<1>4. CASE FlushAtTableBoundary(u)
  <2>1. current # <<>> /\ Place(Flushed, <<>>, 0, u)
    BY <1>4 DEF FlushAtTableBoundary, AtTableBoundary, Flushed
  <2>2. chunks' = Flushed /\ current' = Append(<<>>, u)
    BY <1>1, <1>2, <2>1, PlacePlain
  <2>3. <<>> \in Seq(Unit) /\ Laid(<<>>)
    BY DEF Laid, IsSlice
  <2>4. QED BY <1>2, <1>3, <2>1, <2>2, <2>3, NoMarkerApart
<1>5. CASE Extend(u)
  <2>1. Place(chunks, current, curLen, u) /\ ~ Overflows(u)
    BY <1>5 DEF Extend
  <2>2. current # <<>> => curLen + u.len <= ChunkSize
    <3>1. HeaderLen(ht'.active) \in Nat
      BY <1>2 DEF HeaderLen, Usable, Tracker, Header
    <3>2. current # <<>> => ~ (curLen + u.len + HeaderLen(ht'.active) > ChunkSize)
      BY <2>1 DEF Overflows
    <3>3. QED BY <1>2, <3>1, <3>2
  <2>3. chunks' = chunks /\ current' = Append(current, u) /\ curLen' = curLen + u.len
    BY <1>1, <1>2, <2>1, <2>2, PlacePlain
  <2>4. CASE current = <<>>
    BY <1>2, <2>3, <2>4, NoMarkerApart
  <2>5. CASE current # <<>>
    <3>1. current' # <<>> /\ current'[1] = current[1]
      BY <1>2, <2>3, <2>5, EmptySeq, AppendProperties
    <3>2. chunks # <<>> => RunLen(chunks[Len(chunks)].content, 1) \in Nat
      <4> SUFFICES ASSUME chunks # <<>> PROVE RunLen(chunks[Len(chunks)].content, 1) \in Nat
        OBVIOUS
      <4> DEFINE us == chunks[Len(chunks)].content
      <4>1. us \in Seq(Unit) /\ Laid(us)
        BY <1>2, EmptySeq, SMTT(30) DEF IInv, ChunksOK, ChunkOK, Chunk
      <4>2. 1 \in 1 .. Len(us) + 1
        BY <4>1
      <4> HIDE DEF us
      <4>3. RunLen(us, 1) \in Nat
        BY <4>1, <4>2, FromLaid
      <4>4. QED BY <4>3 DEF us
    <3>3. QED BY <1>2, <2>3, <2>5, <3>1, <3>2 DEF Apart, HasMarker
  <2>6. QED BY <2>4, <2>5
<1>6. CASE FlushAndOverlap(u)
  <2> DEFINE h == ht'.active
  <2>1. current # <<>> /\ curLen + u.len + HeaderLen(h) > ChunkSize
    BY <1>6, OverlapResult
  <2>2. PICK s \in 1 .. Len(current) + 1 :
          /\ s <= Len(current) => ~ IsMarker(current[s])
          /\ KeptAlone(u, s) \/ KeptBehindHeader(u, s)
    BY <1>6, OverlapResult
  <2> DEFINE kept == From(current, s)
  <2>3. /\ kept \in Seq(Unit) /\ Laid(kept)
        /\ kept = <<>> <=> s = Len(current) + 1
        /\ s <= Len(current) => kept[1] = current[s]
        /\ RunLen(current, s) \in Nat
    <3>1. /\ kept \in Seq(Unit) /\ Laid(kept) /\ RunLen(current, s) \in Nat
          /\ kept = <<>> <=> s = Len(current) + 1
      BY <1>2, FromProperties, FromLaid
    <3>2. \A i \in 1 .. Len(current) + 1 - s : kept[i] = current[s + i - 1]
      BY <1>2, FromProperties
    <3> HIDE DEF kept
    <3>3. ASSUME s <= Len(current) PROVE kept[1] = current[s]
      <4>1. 1 \in 1 .. Len(current) + 1 - s /\ s + 1 - 1 = s
        BY <1>2, <3>3
      <4>2. QED BY <3>2, <4>1
    <3>4. QED BY <3>1, <3>3
  <2> HIDE DEF kept
  <2>4. CASE KeptAlone(u, s)
    <3>1. Place(Flushed, kept, RunLen(current, s), u)
          /\ (kept # <<>> => RunLen(current, s) + u.len <= ChunkSize)
      BY <2>3, <2>4 DEF KeptAlone, kept
    <3>2. chunks' = Flushed /\ current' = Append(kept, u)
      BY <1>1, <1>2, <2>3, <3>1, PlacePlain
    <3>3. kept # <<>> => ~ IsMarker(kept[1])
      BY <2>2, <2>3
    <3>4. QED BY <1>2, <1>3, <2>1, <2>3, <3>2, <3>3, NoMarkerApart
  <2>5. CASE KeptBehindHeader(u, s)
    <3> DEFINE ms == WithMarker(kept, u, h)
    <3>1. /\ h \in Header /\ Usable(h) /\ h.len \in Nat
          /\ Place(Flushed, ms, RunLen(current, s) + h.len, u)
          /\ RunLen(current, s) + h.len + u.len <= ChunkSize
      BY <2>5 DEF KeptBehindHeader, kept, Header
    <3>2. chunks' = Flushed /\ current' = Append(ms, u)
          /\ curLen' = RunLen(current, s) + h.len + u.len
      <4> HIDE DEF ms
      <4>1. RunLen(current, s) + h.len \in Nat
        BY <2>3, <3>1
      <4>2. QED BY <1>1, <1>2, <3>1, <4>1, PlacePlain
    <3>3. ms \in Seq(Unit) /\ ms # <<>>
          /\ ms[1].start = IF kept # <<>> THEN kept[1].start ELSE u.start
      <4> DEFINE p == IF kept # <<>> THEN kept[1].start ELSE u.start
      <4>1. p \in Nat
        BY <1>2, <2>3, EmptySeq, UnitFields
      <4>2. kept # <<>> => kept[1].start = p /\ ~ IsMarker(kept[1])
        BY <2>2, <2>3
      <4>3. ms = <<Marker(h, p)>> \o kept
        BY DEF WithMarker
      <4>4. QED BY <2>3, <3>1, <4>1, <4>2, <4>3, MarkerLaid
    <3> HIDE DEF ms
    <3>4. current'[1].start = IF kept # <<>> THEN kept[1].start ELSE u.start
      BY <1>2, <3>2, <3>3, EmptySeq, AppendProperties
    <3>5. CASE kept = <<>>
      <4>1. RunLen(current, s) = 0
        BY <1>2, <2>3, <3>5 DEF RunLen
      <4>2. curLen' = h.len + u.len /\ HeaderLen(h) = h.len
        BY <1>2, <3>1, <3>2, <4>1 DEF HeaderLen
      <4>3. RunLen(Flushed[Len(Flushed)].content, 1) + curLen' > ChunkSize
        BY <1>2, <1>3, <2>1, <3>1, <4>2
      <4>4. QED BY <1>3, <2>1, <3>2, <4>3 DEF Apart
    <3>6. CASE kept # <<>>
      <4>1. s \in 1 .. Len(current) /\ kept[1] = current[s] /\ ~ IsMarker(current[s])
        BY <2>2, <2>3, <3>6
      <4> DEFINE last == current[Len(current)]
      <4>2. current[s] \in Unit /\ last \in Unit /\ Len(current) \in 1 .. Len(current)
        BY <1>2, <4>1
      <4>3. current[s].start < current[s].end
        <5>1. \/ current[s].end = current[s].start
              \/ current[s].end = current[s].start + current[s].len /\ current[s].len > 0
          BY <1>2, <4>1 DEF Laid, IsSlice
        <5>2. QED BY <4>1, <4>2, <5>1, UnitFields DEF IsMarker
      <4>4. current[s].end <= last.end
        <5>1. CASE s = Len(current)
          BY <4>2, <5>1, UnitFields
        <5>2. CASE s # Len(current)
          <6>1. current[s].end <= last.start /\ last.start <= last.end
            BY <1>2, <4>1, <4>2, <5>2, LaidOrdered DEF Laid
          <6>2. QED BY <4>2, <6>1, UnitFields
        <5>3. QED BY <5>1, <5>2
      <4>5. current'[1].start < Reach(Flushed)
        BY <1>3, <2>1, <3>4, <3>6, <4>1, <4>2, <4>3, <4>4, UnitFields
      <4>6. QED BY <1>3, <2>1, <3>2, <3>4, <3>6, <4>1, <4>2, <4>5, UnitFields DEF Apart
    <3>7. QED BY <3>5, <3>6
  <2>6. QED BY <2>2, <2>4, <2>5
<1>7. QED BY <1>4, <1>5, <1>6

\* A step keeps neighbours apart.
LEMMA ApartStep ==
  ASSUME IInv, ApartInv, [Next]_vars
  PROVE  ApartInv'
<1>1. cfg' = cfg /\ ChunkSize' = ChunkSize
  BY CfgConstant DEF ChunkSize
<1> SUFFICES ASSUME ChunkSize <= AbsMax
             PROVE  PairsOK(chunks') /\ (phase' = "merging" => Apart(chunks', current', curLen'))
  BY <1>1 DEF ApartInv, PairsOK, Pair, Apart, Reach, ChunkSize
<1>2. /\ TypeOK /\ chunks \in Seq(Chunk) /\ current \in Seq(Unit)
      /\ PairsOK(chunks) /\ (phase = "merging" => Apart(chunks, current, curLen))
      /\ Apart(chunks, <<>>, 0)
  BY DEF IInv, TypeOK, ApartInv, Apart, HasMarker
<1>3. phase = "merging" /\ rest = <<>> /\ current # <<>> => PairsOK(Flushed)
  BY <1>2, FlushKeepsPairs DEF IInv, Ready, Flushed
<1>4. ASSUME NEW s \in UnitShapes, NEW u, u = At(s, TextEnd),
             FlushAtTableBoundary(u) \/ Extend(u) \/ FlushAndOverlap(u)
      PROVE  PairsOK(chunks') /\ Apart(chunks', current', curLen')
  BY <1>2, <1>4, ReadUnit, SmallUnitApart
<1>5. ASSUME NEW u, StartCutting(u)
      PROVE  PairsOK(chunks') /\ Apart(chunks', current', curLen')
  <2>1. /\ phase = "merging" /\ rest = <<>> /\ current' = <<>>
        /\ chunks' = IF current = <<>> THEN chunks ELSE Flushed
    BY <1>5 DEF StartCutting, Read, Flushed
  <2>2. QED BY <1>2, <1>3, <2>1 DEF Apart, HasMarker
<1>6. ASSUME NEW n \in 1 .. AbsMax, CutPiece(n)
      PROVE  PairsOK(chunks') /\ Apart(chunks', current', curLen')
  <2> DEFINE p == Piece(rest[1], n)
  <2>1. rest # <<>> /\ current = <<>> /\ current' = current
        /\ chunks' = Append(chunks, BuildChunk(<<p>>))
    BY <1>6 DEF CutPiece, IInv, RestOK
  <2>2. p \in Unit /\ p.kind # "marker"
    BY <1>2, <1>6, CutOff DEF Fresh, TypeOK, ChunkSize
  <2> HIDE DEF p
  <2>3. <<p>> \in Seq(Unit) /\ <<p>> # <<>> /\ ~ HasMarker(<<p>>)
    BY <2>2 DEF HasMarker
  <2>4. Apart(chunks, <<p>>, RunLen(<<p>>, 1))
    BY <2>3 DEF Apart
  <2>5. PairsOK(chunks')
    BY <1>2, <2>1, <2>3, <2>4, FlushKeepsPairs
  <2>6. QED BY <2>1, <2>5 DEF Apart, HasMarker
<1>7. CASE Finish
  <2>1. /\ phase = "merging" /\ rest = <<>> /\ phase' = "done"
        /\ chunks' = IF current = <<>> THEN chunks ELSE Flushed
    BY <1>7 DEF Finish, Flushed
  <2>2. QED BY <1>2, <1>3, <2>1
<1>8. CASE UNCHANGED vars
  BY <1>2, <1>8 DEF vars, PairsOK, Pair, Apart, Reach
<1>9. CASE NextUnit
  <2>1. PICK s \in UnitShapes :
          LET u == At(s, TextEnd)
          IN  \/ FlushAtTableBoundary(u)
              \/ Extend(u)
              \/ FlushAndOverlap(u)
              \/ StartCutting(u)
    BY <1>9 DEF NextUnit
  <2>2. QED BY <1>4, <1>5, <2>1
<1>10. QED BY <1>6, <1>7, <1>8, <1>9 DEF Next

\* A chunk that repeats a header and no text of the chunk before it would not
\* have fitted into that chunk: coalescing never buries a repeated header.
THEOREM RepeatedHeadersCorrect == Spec => []RepeatedHeadersDoNotFit
<1>1. Init => ApartInv
  BY DEF Init, ApartInv, PairsOK, Apart
<1>2. ApartInv => RepeatedHeadersDoNotFit
  BY DEF ApartInv, PairsOK, Pair, RepeatedHeadersDoNotFit
<1>3. QED BY <1>1, <1>2, ApartStep, Invariant, PTL DEF Spec

-------------------------------------------------------------------------------
(***************************************************************************)
(* Where a repeated header may travel.  doc is the document read so far.   *)
(***************************************************************************)
DocOK(doc) ==
  /\ Laid(doc)
  /\ \A i \in 1 .. Len(doc) : doc[i].kind # "marker" /\ doc[i].src = doc[i].start

\* Apart from a marker, us is the end of the document.
EndOf(us, doc) ==
  \A k \in 1 .. Len(us) :
    us[k].kind # "marker" =>
      /\ Len(doc) - Len(us) + k \in 1 .. Len(doc)
      /\ us[k] = doc[Len(doc) - Len(us) + k]

\* The tracked header comes from unit j, and the table has not ended since.
TrackedFrom(t, doc, j) ==
  /\ doc[j].src = t.active.src
  /\ \A m \in j .. Len(doc) : Piped(doc[m])
  /\ \A m \in j .. Len(doc) - 1 : ~ WidthDiffers(t.active, doc[m])
  /\ WidthDiffers(t.active, doc[Len(doc)]) => t.pendingBreak

TracksTable(t, doc) ==
  t.active # NoHeader => \E j \in 1 .. Len(doc) : TrackedFrom(t, doc, j)

\* What HeaderStaysInItsTables says of us, with the units named.
StaysIn(us, doc) ==
  HasMarker(us) /\ Len(us) > 1 =>
    \E j, i \in 1 .. Len(doc) :
      /\ doc[j].src = us[1].src
      /\ doc[i].src = us[2].src
      /\ \A m \in j .. i : Piped(doc[m])
      /\ ~ WidthDiffers(us[1], us[2])

StaysInv ==
  /\ DocOK(units)
  /\ EndOf(current, units)
  /\ TracksTable(ht, units)
  /\ StaysIn(current, units)
  /\ HasMarker(current) => Len(current) > 1
  /\ \A i \in 1 .. Len(chunks) : StaysIn(chunks[i].content, units)

\* Every unit of the document starts at an offset of its own.
LEMMA SourcesDiffer ==
  ASSUME NEW doc \in Seq(Unit), DocOK(doc), NEW i \in 1 .. Len(doc), NEW j \in 1 .. Len(doc),
         doc[i].src = doc[j].src
  PROVE  i = j
<1>1. \A a, b \in 1 .. Len(doc) : a < b => doc[a].src < doc[b].src
  <2> SUFFICES ASSUME NEW a \in 1 .. Len(doc), NEW b \in 1 .. Len(doc), a < b
               PROVE  doc[a].src < doc[b].src
    OBVIOUS
  <2>1. doc[a] \in Unit /\ doc[b] \in Unit
    OBVIOUS
  <2>2. doc[a].end = doc[a].start + doc[a].len /\ doc[a].len > 0
    BY DEF DocOK, Laid, IsSlice
  <2>3. doc[a].end <= doc[b].start /\ doc[a].src = doc[a].start /\ doc[b].src = doc[b].start
    BY DEF DocOK, Laid
  <2>4. /\ doc[a].start \in Nat /\ doc[a].end \in Nat /\ doc[a].len \in Nat
        /\ doc[b].start \in Nat
    BY <2>1, UnitFields
  <2>5. QED BY <2>2, <2>3, <2>4, SMTT(30)
<1>2. \A a \in 1 .. Len(doc) : doc[a].src \in Nat
  <2> SUFFICES ASSUME NEW a \in 1 .. Len(doc) PROVE doc[a].src \in Nat
    OBVIOUS
  <2>1. doc[a] \in Unit
    OBVIOUS
  <2>2. QED BY <2>1 DEF Unit
<1>3. i < j \/ j < i \/ i = j
  OBVIOUS
<1>4. QED BY <1>1, <1>2, <1>3

\* Reading a unit.
LEMMA ReadDoc ==
  ASSUME NEW doc \in Seq(Unit), DocOK(doc), NEW pos \in Nat, NEW u, Fresh(u, pos), u.src = pos,
         doc # <<>> => doc[Len(doc)].end = pos
  PROVE  DocOK(Append(doc, u))
<1>1. Laid(Append(doc, u))
  BY AppendLaid DEF DocOK
<1>2. /\ Len(Append(doc, u)) = Len(doc) + 1 /\ Append(doc, u)[Len(doc) + 1] = u
      /\ \A i \in 1 .. Len(doc) : Append(doc, u)[i] = doc[i]
  BY AppendProperties DEF Fresh
<1>3. u.kind # "marker" /\ u.src = u.start
  BY DEF Fresh
<1>4. QED BY <1>1, <1>2, <1>3 DEF DocOK

\* What update() makes of the active header.
LEMMA UpdateCases ==
  ASSUME NEW t \in Tracker, NEW u \in Unit, Update(t, u).active # NoHeader
  PROVE  \/ /\ Update(t, u).active = ExtendedHeader(u)
            /\ ~ EndsTable(u)
         \/ /\ Update(t, u).active = HeaderOf(u)
            /\ u.kind = "head"
         \/ /\ Update(t, u).active = t.active
            /\ t.active # NoHeader
            /\ ~ EndsTable(u)
            /\ ~ t.pendingBreak
            /\ WidthDiffers(t.active, u) => Update(t, u).pendingBreak
<1>1. u.cols \in Nat
  BY DEF Unit
<1>2. QED BY <1>1 DEF Update, HasRow, WidthDiffers, Tracker

\* The tracker follows the table: its header is that of the rows just read.
LEMMA UpdateTracks ==
  ASSUME NEW t \in Tracker, NEW doc \in Seq(Unit), NEW u \in Unit, u.kind # "marker",
         TracksTable(t, doc)
  PROVE  TracksTable(Update(t, u), Append(doc, u))
<1> DEFINE ext == Append(doc, u)
           v   == Update(t, u)
           n   == Len(doc)
<1>1. /\ ext \in Seq(Unit) /\ Len(ext) = n + 1 /\ ext[n + 1] = u /\ n \in Nat
      /\ \A i \in 1 .. n : ext[i] = doc[i]
  BY AppendProperties
<1> HIDE DEF ext, v
<1> SUFFICES ASSUME v.active # NoHeader
             PROVE  \E j \in 1 .. Len(ext) : TrackedFrom(v, ext, j)
  BY DEF TracksTable, ext, v
<1>2. ~ EndsTable(u) => Piped(u)
  BY DEF EndsTable, Piped, Unit, Kinds
<1>3. ASSUME v.active.src = u.src, v.active.cols = u.cols, Piped(u)
      PROVE  TrackedFrom(v, ext, n + 1)
  <2>1. ~ WidthDiffers(v.active, u)
    BY <1>3 DEF WidthDiffers
  <2>2. QED BY <1>1, <1>3, <2>1 DEF TrackedFrom
<1>4. CASE v.active = ExtendedHeader(u) /\ ~ EndsTable(u)
  BY <1>1, <1>2, <1>3, <1>4 DEF ExtendedHeader
<1>5. CASE v.active = HeaderOf(u) /\ u.kind = "head"
  BY <1>1, <1>3, <1>5 DEF HeaderOf, Piped
<1>6. CASE /\ v.active = t.active /\ t.active # NoHeader /\ ~ EndsTable(u) /\ ~ t.pendingBreak
           /\ WidthDiffers(t.active, u) => v.pendingBreak
  <2>1. PICK j \in 1 .. n : TrackedFrom(t, doc, j)
    BY <1>6 DEF TracksTable
  <2>2. ext[j].src = v.active.src
    BY <1>1, <1>6, <2>1 DEF TrackedFrom
  <2>3. \A m \in j .. n + 1 : Piped(ext[m])
    BY <1>1, <1>2, <1>6, <2>1 DEF TrackedFrom
  <2>4. \A m \in j .. n : ~ WidthDiffers(v.active, ext[m])
    <3>1. ~ WidthDiffers(t.active, doc[n])
      BY <1>6, <2>1 DEF TrackedFrom
    <3>2. \A m \in j .. n - 1 : ~ WidthDiffers(t.active, doc[m])
      BY <2>1 DEF TrackedFrom
    <3>3. QED BY <1>1, <1>6, <3>1, <3>2
  <2>5. WidthDiffers(v.active, u) => v.pendingBreak
    BY <1>6
  <2>6. TrackedFrom(v, ext, j)
    BY <1>1, <2>2, <2>3, <2>4, <2>5 DEF TrackedFrom
  <2>7. QED BY <1>1, <2>6
<1>7. QED BY <1>4, <1>5, <1>6, UpdateCases DEF v

\* What is said of a chunk stays true when the document goes on.
LEMMA StaysInLonger ==
  ASSUME NEW us, NEW doc \in Seq(Unit), NEW u \in Unit, StaysIn(us, doc)
  PROVE  StaysIn(us, Append(doc, u))
<1>1. /\ Len(Append(doc, u)) = Len(doc) + 1 /\ Len(doc) \in Nat
      /\ \A i \in 1 .. Len(doc) : Append(doc, u)[i] = doc[i]
  BY AppendProperties
<1> DEFINE ext == Append(doc, u)
<1> HIDE DEF ext
<1>2. SUFFICES ASSUME HasMarker(us), Len(us) > 1
               PROVE  StaysIn(us, ext)
  BY DEF StaysIn, ext
<1>3. PICK j \in 1 .. Len(doc), i \in 1 .. Len(doc) :
        /\ doc[j].src = us[1].src
        /\ doc[i].src = us[2].src
        /\ \A m \in j .. i : Piped(doc[m])
        /\ ~ WidthDiffers(us[1], us[2])
  BY <1>2 DEF StaysIn
<1>4. /\ j \in 1 .. Len(ext) /\ i \in 1 .. Len(ext) /\ ext[j] = doc[j] /\ ext[i] = doc[i]
      /\ \A m \in j .. i : ext[m] = doc[m]
  BY <1>1 DEF ext
<1>5. QED BY <1>3, <1>4 DEF StaysIn

\* The end of the document stays its end when both go on, when units are
\* dropped from its front and when a marker is put there.
LEMMA EndGoesOn ==
  ASSUME NEW us \in Seq(Unit), NEW doc \in Seq(Unit), EndOf(us, doc)
  PROVE  /\ \A u \in Unit : EndOf(Append(us, u), Append(doc, u))
         /\ \A k \in 1 .. Len(us) + 1 : EndOf(From(us, k), doc)
         /\ \A m \in Unit : m.kind = "marker" => EndOf(<<m>> \o us, doc)
<1>1. ASSUME NEW u \in Unit PROVE EndOf(Append(us, u), Append(doc, u))
  <2> DEFINE vs == Append(us, u)
             ext == Append(doc, u)
  <2>1. /\ Len(vs) = Len(us) + 1 /\ vs[Len(us) + 1] = u
        /\ \A i \in 1 .. Len(us) : vs[i] = us[i]
        /\ Len(ext) = Len(doc) + 1 /\ ext[Len(doc) + 1] = u
        /\ \A i \in 1 .. Len(doc) : ext[i] = doc[i]
    BY AppendProperties
  <2> HIDE DEF vs, ext
  <2>2. ASSUME NEW k \in 1 .. Len(vs), vs[k].kind # "marker"
        PROVE  /\ Len(ext) - Len(vs) + k \in 1 .. Len(ext)
               /\ vs[k] = ext[Len(ext) - Len(vs) + k]
    <3>1. CASE k = Len(us) + 1
      BY <2>1, <3>1
    <3>2. CASE k \in 1 .. Len(us)
      <4> DEFINE i == Len(doc) - Len(us) + k
      <4>1. vs[k] = us[k] /\ Len(ext) - Len(vs) + k = i
        BY <2>1, <3>2
      <4>2. i \in 1 .. Len(doc) /\ us[k] = doc[i]
        BY <2>2, <3>2, <4>1 DEF EndOf
      <4> HIDE DEF i
      <4>3. QED BY <2>1, <4>1, <4>2
    <3>3. QED BY <2>1, <3>1, <3>2
  <2>3. QED BY <2>2 DEF EndOf, vs, ext
<1>2. ASSUME NEW k \in 1 .. Len(us) + 1 PROVE EndOf(From(us, k), doc)
  <2> DEFINE fs == From(us, k)
  <2>1. /\ Len(fs) = Len(us) + 1 - k
        /\ \A i \in 1 .. Len(us) + 1 - k : fs[i] = us[k + i - 1]
    BY FromProperties
  <2> HIDE DEF fs
  <2>2. ASSUME NEW i \in 1 .. Len(fs), fs[i].kind # "marker"
        PROVE  /\ Len(doc) - Len(fs) + i \in 1 .. Len(doc)
               /\ fs[i] = doc[Len(doc) - Len(fs) + i]
    <3> DEFINE j == k + i - 1
    <3>1. j \in 1 .. Len(us) /\ fs[i] = us[j] /\ Len(doc) - Len(fs) + i = Len(doc) - Len(us) + j
      BY <2>1
    <3> HIDE DEF j
    <3>2. QED BY <2>2, <3>1 DEF EndOf
  <2>3. QED BY <2>2 DEF EndOf, fs
<1>3. ASSUME NEW m \in Unit, m.kind = "marker" PROVE EndOf(<<m>> \o us, doc)
  <2> DEFINE ms == <<m>> \o us
  <2>1. /\ Len(ms) = Len(us) + 1 /\ ms[1] = m
        /\ \A i \in 1 .. Len(us) : ms[i + 1] = us[i]
    BY ConcatProperties
  <2> HIDE DEF ms
  <2>2. ASSUME NEW k \in 1 .. Len(ms), ms[k].kind # "marker"
        PROVE  /\ Len(doc) - Len(ms) + k \in 1 .. Len(doc)
               /\ ms[k] = doc[Len(doc) - Len(ms) + k]
    <3> DEFINE i == k - 1
    <3>1. i \in 1 .. Len(us) /\ k = i + 1
      BY <1>3, <2>1, <2>2
    <3>2. ms[k] = us[i] /\ Len(doc) - Len(ms) + k = Len(doc) - Len(us) + i
      BY <2>1, <3>1
    <3> HIDE DEF i
    <3>3. QED BY <2>2, <3>1, <3>2 DEF EndOf
  <2>3. QED BY <2>2 DEF EndOf, ms
<1>4. QED BY <1>1, <1>2, <1>3

\* A header that is repeated in front of what is kept, and of the unit after
\* it, stays in its tables.
LEMMA MarkerStays ==
  ASSUME NEW doc \in Seq(Unit), NEW u \in Unit, DocOK(Append(doc, u)),
         NEW t \in Tracker, TracksTable(t, Append(doc, u)), t.active # NoHeader,
         NEW kept \in Seq(Unit), Laid(kept), kept # <<>> => kept[1].kind # "marker",
         EndOf(kept, doc), NeedsMarker(kept, u, t.active), NEW p \in Nat
  PROVE  LET ms == <<Marker(t.active, p)>> \o kept
         IN  StaysIn(ms, Append(doc, u)) /\ StaysIn(Append(ms, u), Append(doc, u))
<1> DEFINE h   == t.active
           ext == Append(doc, u)
           m   == Marker(h, p)
           ms  == <<m>> \o kept
           v   == IF kept = <<>> THEN u ELSE kept[1]
           n   == Len(doc)
<1>1. /\ ext \in Seq(Unit) /\ Len(ext) = n + 1 /\ ext[n + 1] = u /\ n \in Nat
      /\ \A i \in 1 .. n : ext[i] = doc[i]
  BY AppendProperties
<1>2. h \in Header
  BY DEF Tracker
<1>3. m \in Unit /\ m.src = h.src /\ m.cols = h.cols
  BY <1>2 DEF Marker, Unit, Header, Kinds
<1> HIDE DEF m
<1>4. /\ ms \in Seq(Unit) /\ Len(ms) = Len(kept) + 1 /\ ms[1] = m
      /\ \A i \in 1 .. Len(kept) : ms[i + 1] = kept[i]
  BY <1>3, ConcatProperties
<1> HIDE DEF ms
<1>5. /\ Append(ms, u)[1] = m
      /\ Append(ms, u)[2] = v
      /\ Len(ms) > 1 => ms[2] = v
  <2>1. /\ Append(ms, u)[Len(ms) + 1] = u
        /\ \A i \in 1 .. Len(ms) : Append(ms, u)[i] = ms[i]
    BY <1>4, AppendProperties
  <2>2. CASE kept = <<>>
    <3>1. Len(ms) = 1
      BY <1>4, <2>2
    <3> DEFINE ext2 == Append(ms, u)
    <3>2. ext2[Len(ms) + 1] = u /\ \A i \in 1 .. Len(ms) : ext2[i] = ms[i]
      BY <2>1
    <3> HIDE DEF ext2
    <3>3. ext2[2] = u /\ ext2[1] = ms[1]
      BY <3>1, <3>2
    <3>4. QED BY <1>4, <2>2, <3>1, <3>3 DEF ext2
  <2>3. CASE kept # <<>>
    <3>1. Len(kept) >= 1
      BY <2>3, EmptySeq
    <3>2. 1 \in 1 .. Len(kept) /\ 1 \in 1 .. Len(ms) /\ 2 \in 1 .. Len(ms)
      BY <1>4, <3>1
    <3>3. ms[1 + 1] = kept[1]
      BY <1>4, <3>2
    <3>4. QED BY <1>4, <2>1, <2>3, <3>2, <3>3
  <2>4. QED BY <2>2, <2>3
<1> HIDE DEF ext
<1>6. PICK j \in 1 .. Len(ext) : TrackedFrom(t, ext, j)
  BY DEF TracksTable, ext
<1>7. /\ ext[j].src = h.src
      /\ \A i \in j .. Len(ext) : Piped(ext[i])
      /\ \A i \in j .. Len(ext) - 1 : ~ WidthDiffers(h, ext[i])
  BY <1>6 DEF TrackedFrom
<1>8. /\ u.src # h.src
      /\ \A i \in 1 .. Len(kept) : kept[i].src # h.src
      /\ ~ WidthDiffers(h, u)
  BY DEF NeedsMarker, Shows
<1>9. \E i \in 1 .. Len(ext) :
        /\ ext[i] = v
        /\ \A k \in j .. i : Piped(ext[k])
        /\ ~ WidthDiffers(h, v)
  <2>1. CASE kept = <<>>
    BY <1>1, <1>7, <1>8, <2>1
  <2>2. CASE kept # <<>>
    <3> DEFINE i == n - Len(kept) + 1
    <3>1. 1 \in 1 .. Len(kept) /\ Len(kept) \in Nat /\ v = kept[1]
      BY <2>2, EmptySeq
    <3>2. i \in 1 .. n /\ v = doc[i]
      BY <2>2, <3>1 DEF EndOf
    <3>3. ext[i] = v /\ i \in 1 .. Len(ext)
      BY <1>1, <3>2
    <3>4. i >= j
      <4> SUFFICES ASSUME i < j PROVE FALSE
        BY <1>1, <3>2
      <4>1. j # n + 1
        BY <1>1, <1>7, <1>8
      <4> DEFINE k == j - i + 1
      <4>2. k \in 2 .. Len(kept) /\ j \in 1 .. n /\ n - Len(kept) + k = j
        BY <1>1, <3>1, <3>2, <4>1
      <4> HIDE DEF k, i
      <4>3. kept[k].kind # "marker"
        BY <4>2 DEF Laid, IsSlice
      <4>4. kept[k] = doc[j]
        <5>1. k \in 1 .. Len(kept)
          BY <4>2
        <5>2. kept[k] = doc[n - Len(kept) + k]
          BY <4>3, <5>1 DEF EndOf
        <5>3. QED BY <4>2, <5>2
      <4>5. kept[k].src = h.src
        BY <1>1, <1>7, <4>2, <4>4
      <4>6. QED BY <1>8, <4>2, <4>5
    <3> HIDE DEF i
    <3>5. ~ WidthDiffers(h, ext[i])
      BY <1>1, <1>7, <3>2, <3>4
    <3>6. QED BY <1>1, <1>7, <3>2, <3>3, <3>4, <3>5
  <2>3. QED BY <2>1, <2>2
<1>10. ~ WidthDiffers(h, v) => ~ WidthDiffers(m, v)
  BY <1>3 DEF WidthDiffers
<1> HIDE DEF v
<1>11. PICK i \in 1 .. Len(ext) :
         /\ ext[i] = v
         /\ \A k \in j .. i : Piped(ext[k])
         /\ ~ WidthDiffers(m, v)
  BY <1>9, <1>10
<1>12. ext[j].src = m.src /\ ext[i].src = v.src
  BY <1>3, <1>7, <1>11
<1>13. ASSUME NEW us, us[1] = m, us[2] = v PROVE StaysIn(us, ext)
  <2>1. ext[j].src = us[1].src /\ ext[i].src = us[2].src
    BY <1>12, <1>13
  <2>2. ~ WidthDiffers(us[1], us[2])
    BY <1>11, <1>13
  <2>3. \A k \in j .. i : Piped(ext[k])
    BY <1>11
  <2>4. QED BY <2>1, <2>2, <2>3 DEF StaysIn
<1>14. StaysIn(Append(ms, u), ext) /\ StaysIn(ms, ext)
  <2>1. StaysIn(Append(ms, u), ext)
    BY <1>5, <1>13
  <2>2. CASE Len(ms) > 1
    BY <1>4, <1>5, <1>13, <2>1, <2>2
  <2>3. CASE ~ (Len(ms) > 1)
    BY <2>1, <2>3 DEF StaysIn
  <2>4. QED BY <2>2, <2>3
<1>15. QED BY <1>14 DEF ms, m, ext

AllStay(cs, doc) == \A i \in 1 .. Len(cs) : StaysIn(cs[i].content, doc)

\* Without a marker there is nothing to stay.
LEMMA NoMarkerStays ==
  ASSUME NEW base \in Seq(Unit), base # <<>> => base[1].kind # "marker",
         NEW u \in Unit, u.kind # "marker", NEW doc
  PROVE  StaysIn(base, doc) /\ StaysIn(Append(base, u), doc) /\ StaysIn(<<u>>, doc)
<1>1. Append(base, u)[1] = IF base = <<>> THEN u ELSE base[1]
  BY EmptySeq, AppendProperties
<1>2. ~ HasMarker(base) /\ ~ HasMarker(Append(base, u)) /\ ~ HasMarker(<<u>>)
  BY <1>1 DEF HasMarker
<1>3. QED BY <1>2 DEF StaysIn

\* A flush adds the chunk in hand to the chunks.
LEMMA FlushStays ==
  ASSUME NEW cs \in Seq(Chunk), NEW doc, AllStay(cs, doc),
         NEW us \in Seq(Unit), us # <<>>, StaysIn(us, doc)
  PROVE  Append(cs, BuildChunk(us)) \in Seq(Chunk) /\ AllStay(Append(cs, BuildChunk(us)), doc)
<1> DEFINE c == BuildChunk(us)
<1>1. c \in Chunk /\ c.content = us
  BY EmptySeq, UnitFields DEF BuildChunk, Chunk
<1> HIDE DEF c
<1>2. /\ Append(cs, c) \in Seq(Chunk) /\ Len(Append(cs, c)) = Len(cs) + 1
      /\ \A i \in 1 .. Len(cs) : Append(cs, c)[i] = cs[i]
      /\ Append(cs, c)[Len(cs) + 1] = c
  BY <1>1, AppendProperties
<1>3. QED BY <1>1, <1>2 DEF AllStay, c

\* The unit that is put down.
LEMMA PlaceStays ==
  ASSUME NEW cs \in Seq(Chunk), NEW doc \in Seq(Unit), NEW u \in Unit, u.kind # "marker",
         AllStay(cs, Append(doc, u)), NEW base \in Seq(Unit), EndOf(base, doc),
         StaysIn(base, Append(doc, u)), StaysIn(Append(base, u), Append(doc, u)),
         NEW n, Place(cs, base, n, u)
  PROVE  /\ AllStay(chunks', Append(doc, u))
         /\ StaysIn(current', Append(doc, u))
         /\ EndOf(current', Append(doc, u))
         /\ HasMarker(current') => Len(current') > 1
<1>1. HasMarker(Append(base, u)) => Len(Append(base, u)) > 1
  <2>1. CASE base = <<>>
    <3>1. Append(base, u) = <<u>>
      BY <2>1
    <3>2. QED BY <3>1 DEF HasMarker
  <2>2. CASE base # <<>>
    BY <2>2, EmptySeq, AppendProperties
  <2>3. QED BY <2>1, <2>2
<1>2. CASE chunks' = cs /\ current' = Append(base, u)
  BY <1>1, <1>2, EndGoesOn
<1>3. CASE base # <<>> /\ chunks' = Append(cs, BuildChunk(base)) /\ current' = <<u>>
  <2>1. AllStay(chunks', Append(doc, u))
    BY <1>3, FlushStays
  <2>2. <<>> \in Seq(Unit) /\ EndOf(<<>>, doc) /\ Append(<<>>, u) = <<u>>
    BY DEF EndOf
  <2>3. EndOf(<<u>>, Append(doc, u))
    BY <2>2, EndGoesOn
  <2>4. StaysIn(<<u>>, Append(doc, u))
    BY <2>2, NoMarkerStays
  <2>5. ~ HasMarker(<<u>>)
    BY DEF HasMarker
  <2>6. QED BY <1>3, <2>1, <2>3, <2>4, <2>5
<1>4. QED BY <1>2, <1>3 DEF Place

\* What is kept for the next chunk starts with a unit of the document.
LEMMA KeptStarts ==
  ASSUME NEW us \in Seq(Unit), Laid(us), NEW k \in 1 .. Len(us) + 1,
         k <= Len(us) => ~ IsMarker(us[k]), From(us, k) # <<>>
  PROVE  k <= Len(us) /\ From(us, k)[1] = us[k] /\ us[k].kind # "marker"
<1>1. /\ \A i \in 1 .. Len(us) + 1 - k : From(us, k)[i] = us[k + i - 1]
      /\ From(us, k) = <<>> <=> k = Len(us) + 1
  BY FromProperties
<1>2. k \in 1 .. Len(us) /\ 1 \in 1 .. Len(us) + 1 - k /\ k + 1 - 1 = k
  BY <1>1
<1>3. From(us, k)[1] = us[k]
  BY <1>1, <1>2
<1>4. QED BY <1>2, <1>3 DEF Laid, IsSlice, IsMarker

\* What reading a unit keeps, whatever becomes of the unit.
LEMMA ReadStays ==
  ASSUME TypeOK, StaysInv, NEW s \in UnitShapes, NEW u, u = At(s, TextEnd), Read(u)
  PROVE  /\ units' = Append(units, u) /\ u \in Unit /\ u.kind # "marker"
         /\ DocOK(units')
         /\ TracksTable(ht', units')
         /\ StaysIn(current, units')
         /\ AllStay(chunks, units')
<1>1. /\ units \in Seq(Unit) /\ ht \in Tracker /\ TextEnd \in Nat
      /\ Fresh(u, TextEnd) /\ u.src = TextEnd
  BY ReadUnit DEF TypeOK, At
<1>2. units' = Append(units, u) /\ ht' = Update(ht, u) /\ u \in Unit /\ u.kind # "marker"
  BY <1>1 DEF Read, Fresh
<1>3. units # <<>> => units[Len(units)].end = TextEnd
  BY DEF TextEnd
<1>4. DocOK(units')
  BY <1>1, <1>2, <1>3, ReadDoc DEF StaysInv
<1>5. TracksTable(ht', units')
  BY <1>1, <1>2, UpdateTracks DEF StaysInv
<1>6. StaysIn(current, units') /\ AllStay(chunks, units')
  BY <1>1, <1>2, StaysInLonger DEF StaysInv, AllStay
<1>7. QED BY <1>2, <1>4, <1>5, <1>6

\* The three ways a small unit is put down keep every header in its tables.
LEMMA SmallUnitStays ==
  ASSUME IInv, StaysInv, NEW s \in UnitShapes, NEW u, u = At(s, TextEnd),
         FlushAtTableBoundary(u) \/ Extend(u) \/ FlushAndOverlap(u)
  PROVE  StaysInv'
<1>1. Read(u)
  BY DEF FlushAtTableBoundary, Extend, FlushAndOverlap
<1>2. /\ TypeOK /\ chunks \in Seq(Chunk) /\ units \in Seq(Unit) /\ Fresh(u, TextEnd)
      /\ current \in Seq(Unit) /\ Laid(current) /\ ht' \in Tracker /\ TextEnd \in Nat
  <2>1. TypeOK /\ Ready(chunks, current, curLen, TextEnd)
    BY <1>1 DEF IInv, Read
  <2>2. Fresh(u, TextEnd) /\ TextEnd \in Nat
    BY <2>1, ReadUnit
  <2>3. ht' \in Tracker
    BY <1>1, <2>1, <2>2, ReadKeepsTypes
  <2>4. QED BY <2>1, <2>2, <2>3 DEF Ready, TypeOK
<1>3. /\ units' = Append(units, u) /\ u \in Unit /\ u.kind # "marker"
      /\ DocOK(units') /\ TracksTable(ht', units')
      /\ StaysIn(current, units') /\ AllStay(chunks, units')
  BY <1>1, <1>2, ReadStays
<1>4. EndOf(current, units)
  BY DEF StaysInv
<1>5. current # <<>> => Flushed \in Seq(Chunk) /\ AllStay(Flushed, units')
  BY <1>2, <1>3, FlushStays DEF Flushed
<1>6. SUFFICES /\ AllStay(chunks', units')
               /\ StaysIn(current', units')
               /\ EndOf(current', units')
               /\ HasMarker(current') => Len(current') > 1
  BY <1>3 DEF HasMarker, StaysInv, AllStay, DocOK, TracksTable, TrackedFrom, StaysIn, EndOf
<1>7. CASE FlushAtTableBoundary(u)
  <2>1. current # <<>> /\ Place(Flushed, <<>>, 0, u)
    BY <1>7 DEF FlushAtTableBoundary, AtTableBoundary, Flushed
  <2>2. <<>> \in Seq(Unit) /\ EndOf(<<>>, units)
    BY DEF EndOf
  <2>3. StaysIn(<<>>, units') /\ StaysIn(Append(<<>>, u), units')
    BY <1>3, <2>2, NoMarkerStays
  <2>4. QED BY <1>2, <1>3, <1>5, <2>1, <2>2, <2>3, PlaceStays
<1>8. CASE Extend(u)
  <2>1. Place(chunks, current, curLen, u)
    BY <1>8 DEF Extend
  <2>2. StaysIn(Append(current, u), units')
    <3>1. CASE current = <<>> \/ current[1].kind # "marker"
      BY <1>2, <1>3, <3>1, NoMarkerStays
    <3>2. CASE current # <<>> /\ current[1].kind = "marker"
      <4>1. HasMarker(current) /\ Len(current) > 1
        BY <3>2 DEF StaysInv, HasMarker
      <4>2. Append(current, u)[1] = current[1] /\ Append(current, u)[2] = current[2]
        BY <1>2, <1>3, <4>1, AppendProperties
      <4>3. QED BY <1>3, <4>1, <4>2 DEF StaysIn
    <3>3. QED BY <3>1, <3>2
  <2>3. QED BY <1>2, <1>3, <1>4, <2>1, <2>2, PlaceStays
<1>9. CASE FlushAndOverlap(u)
  <2> DEFINE h == ht'.active
  <2>1. current # <<>>
    BY <1>2, <1>9, OverlapResult
  <2>2. PICK k \in 1 .. Len(current) + 1 :
          /\ k <= Len(current) => ~ IsMarker(current[k])
          /\ KeptAlone(u, k) \/ KeptBehindHeader(u, k)
    BY <1>2, <1>9, OverlapResult
  <2> DEFINE kept == From(current, k)
  <2>3. kept \in Seq(Unit) /\ Laid(kept) /\ EndOf(kept, units)
    BY <1>2, <1>4, FromProperties, FromLaid, EndGoesOn
  <2>4. kept # <<>> => kept[1].kind # "marker"
    BY <1>2, <2>2, KeptStarts
  <2> HIDE DEF kept
  <2>5. CASE KeptAlone(u, k)
    <3>1. Place(Flushed, kept, RunLen(current, k), u)
      BY <2>5 DEF KeptAlone, kept
    <3>2. StaysIn(kept, units') /\ StaysIn(Append(kept, u), units')
      BY <1>3, <2>3, <2>4, NoMarkerStays
    <3>3. QED BY <1>2, <1>3, <1>5, <2>1, <2>3, <3>1, <3>2, PlaceStays
  <2>6. CASE KeptBehindHeader(u, k)
    <3> DEFINE p  == IF kept # <<>> THEN kept[1].start ELSE u.start
               ms == <<Marker(h, p)>> \o kept
    <3>1. /\ h \in Header /\ h # NoHeader /\ NeedsMarker(kept, u, h)
          /\ Place(Flushed, ms, RunLen(current, k) + h.len, u)
      BY <2>6, NoHeaderAssumption DEF KeptBehindHeader, WithMarker, kept
    <3>2. p \in Nat
      BY <1>3, <2>3, EmptySeq, UnitFields
    <3>3. StaysIn(ms, units') /\ StaysIn(Append(ms, u), units')
      BY <1>2, <1>3, <2>3, <2>4, <3>1, <3>2, MarkerStays
    <3>4. Marker(h, p) \in Unit /\ Marker(h, p).kind = "marker"
      BY <3>1, <3>2 DEF Marker, Unit, Header, Kinds
    <3>5. ms \in Seq(Unit) /\ EndOf(ms, units)
      BY <1>2, <2>3, <3>4, EndGoesOn, ConcatProperties
    <3> HIDE DEF ms
    <3>6. QED BY <1>2, <1>3, <1>5, <2>1, <3>1, <3>3, <3>5, PlaceStays
  <2>7. QED BY <2>2, <2>5, <2>6
<1>10. QED BY <1>7, <1>8, <1>9

\* Every step keeps every header in its tables.
LEMMA StaysStep ==
  ASSUME IInv, StaysInv, [Next]_vars
  PROVE  StaysInv'
<1>1. /\ TypeOK /\ chunks \in Seq(Chunk) /\ units \in Seq(Unit) /\ current \in Seq(Unit)
      /\ AllStay(chunks, units) /\ StaysIn(current, units)
  BY DEF IInv, TypeOK, StaysInv, AllStay
<1>2. current # <<>> => AllStay(Flushed, units)
  BY <1>1, FlushStays DEF Flushed
<1>3. ASSUME NEW s \in UnitShapes, NEW u, u = At(s, TextEnd), StartCutting(u)
      PROVE  StaysInv'
  <2>1. /\ Read(u) /\ current' = <<>>
        /\ chunks' = IF current = <<>> THEN chunks ELSE Flushed
    BY <1>3 DEF StartCutting, Flushed
  <2>2. /\ units' = Append(units, u) /\ u \in Unit /\ u.kind # "marker"
        /\ DocOK(units') /\ TracksTable(ht', units')
        /\ StaysIn(current, units') /\ AllStay(chunks, units')
    BY <1>1, <1>3, <2>1, ReadStays
  <2>3. AllStay(chunks', units')
    BY <1>1, <2>1, <2>2, FlushStays DEF Flushed
  <2>4. EndOf(<<>>, units') /\ StaysIn(<<>>, units') /\ ~ HasMarker(<<>>)
    BY DEF EndOf, StaysIn, HasMarker
  <2>5. QED BY <2>1, <2>2, <2>3, <2>4
        DEF StaysInv, AllStay, DocOK, TracksTable, TrackedFrom, StaysIn, EndOf, HasMarker
<1>4. ASSUME NEW n \in 1 .. AbsMax, CutPiece(n)
      PROVE  StaysInv'
  <2> DEFINE p == Piece(rest[1], n)
  <2>1. UNCHANGED <<units, ht, current>> /\ chunks' = Append(chunks, BuildChunk(<<p>>))
    BY <1>4 DEF CutPiece
  <2>2. p \in Unit /\ p.kind # "marker"
    BY <1>1, <1>4, CutOff DEF Fresh, TypeOK, ChunkSize
  <2> HIDE DEF p
  <2>3. <<p>> \in Seq(Unit) /\ <<p>> # <<>> /\ StaysIn(<<p>>, units)
    BY <2>2 DEF StaysIn, HasMarker
  <2>4. AllStay(chunks', units)
    BY <1>1, <2>1, <2>3, FlushStays
  <2>5. /\ DocOK(units)' /\ EndOf(current, units)' /\ TracksTable(ht, units)'
        /\ StaysIn(current, units)' /\ (HasMarker(current) => Len(current) > 1)'
    BY <2>1 DEF StaysInv, DocOK, TracksTable, TrackedFrom, StaysIn, EndOf, HasMarker
  <2>6. (\A i \in 1 .. Len(chunks) : StaysIn(chunks[i].content, units))'
    BY <2>1, <2>4 DEF AllStay, StaysIn, HasMarker
  <2>7. QED BY <2>5, <2>6 DEF StaysInv
<1>5. CASE Finish
  <2>1. UNCHANGED <<units, ht, current>> /\ chunks' = IF current = <<>> THEN chunks ELSE Flushed
    BY <1>5 DEF Finish, Flushed
  <2>2. AllStay(chunks', units)
    BY <1>1, <1>2, <2>1
  <2>3. QED BY <2>1, <2>2
        DEF StaysInv, AllStay, DocOK, TracksTable, TrackedFrom, StaysIn, EndOf, HasMarker
<1>6. CASE UNCHANGED vars
  BY <1>6 DEF vars, StaysInv, DocOK, TracksTable, TrackedFrom, StaysIn, EndOf, HasMarker
<1>7. CASE NextUnit
  <2>1. PICK s \in UnitShapes :
          LET u == At(s, TextEnd)
          IN  \/ FlushAtTableBoundary(u)
              \/ Extend(u)
              \/ FlushAndOverlap(u)
              \/ StartCutting(u)
    BY <1>7 DEF NextUnit
  <2>2. QED BY <1>3, <2>1, SmallUnitStays
<1>8. QED BY <1>4, <1>5, <1>6, <1>7 DEF Next

\* A repeated header never travels across prose, nor in front of a row of
\* another width, in whatever order headers, rows and prose come.
THEOREM HeaderStaysCorrect == Spec => []HeaderStaysInItsTables
<1>1. Init => StaysInv
  <2> SUFFICES ASSUME Init PROVE StaysInv
    OBVIOUS
  <2>1. units = <<>> /\ current = <<>> /\ chunks = <<>> /\ ht.active = NoHeader
    BY DEF Init, NewTracker
  <2>2. QED BY <2>1 DEF StaysInv, DocOK, Laid, IsSlice, EndOf, TracksTable, StaysIn, HasMarker
<1>2. IInv /\ StaysInv => HeaderStaysInItsTables
  <2> SUFFICES ASSUME IInv, StaysInv, NEW us \in Marked, Len(us) > 1
               PROVE  /\ \A i \in IndexOf(us[1]) .. IndexOf(us[2]) : Piped(units[i])
                      /\ ~ WidthDiffers(us[1], us[2])
    BY DEF HeaderStaysInItsTables
  <2>1. HasMarker(us) /\ StaysIn(us, units) /\ DocOK(units) /\ units \in Seq(Unit)
    BY DEF Marked, StaysInv, IInv, TypeOK
  <2>2. PICK j \in 1 .. Len(units), i \in 1 .. Len(units) :
          /\ units[j].src = us[1].src
          /\ units[i].src = us[2].src
          /\ \A m \in j .. i : Piped(units[m])
          /\ ~ WidthDiffers(us[1], us[2])
    BY <2>1 DEF StaysIn
  <2>3. ASSUME NEW v, NEW k \in 1 .. Len(units), units[k].src = v.src
        PROVE  IndexOf(v) = k
    <3>1. IndexOf(v) \in 1 .. Len(units) /\ units[IndexOf(v)].src = v.src
      BY <2>3 DEF IndexOf
    <3> DEFINE l == IndexOf(v)
    <3> HIDE DEF l
    <3>2. l \in 1 .. Len(units) /\ units[l].src = units[k].src
      BY <2>3, <3>1 DEF l
    <3>3. l = k
      BY <2>1, <3>2, SourcesDiffer
    <3>4. QED BY <3>3 DEF l
  <2>4. IndexOf(us[1]) = j /\ IndexOf(us[2]) = i
    BY <2>2, <2>3
  <2>5. QED BY <2>2, <2>4
<1>3. QED BY <1>1, <1>2, StaysStep, Invariant, PTL DEF Spec

-------------------------------------------------------------------------------
(***************************************************************************)
(* Rows and the header of their table.  doc is the document read so far;   *)
(* the table is one that follows prose, or nothing, and is regular: it     *)
(* starts at unit j and its rows go on to the end of doc.                  *)
(***************************************************************************)
OpenTable(doc, j) ==
  /\ doc[j].kind = "head"
  /\ j > 1 => ~ Piped(doc[j - 1])
  /\ \A m \in j + 1 .. Len(doc) : IsRow(doc[m]) /\ ~ doc[m - 1].brk
  /\ \A m \in j .. Len(doc) :
       HasRow(doc[m]) /\ doc[m].cols = doc[Len(doc)].cols /\ doc[m].len <= AbsMax

\* Only its empty header line has been read.
Unnamed(doc, j) == doc[j].bare /\ Len(doc) = j

NamesOf(doc, j) == IF doc[j].bare THEN doc[j + 1] ELSE doc[j]

HeaderOfTable(doc, j) ==
  IF doc[j].bare THEN ExtendedHeader(doc[j + 1]) ELSE HeaderOf(doc[j])

\* The tracker holds the header of the table.
KnowsTable(t, doc, j) ==
  /\ Unnamed(doc, j) => t.active = HeaderOf(doc[j]) /\ t.pendingExtend /\ ~ t.pendingBreak
  /\ ~ Unnamed(doc, j) => /\ t.active = HeaderOfTable(doc, j)
                          /\ ~ t.pendingExtend
                          /\ t.pendingBreak => doc[Len(doc)].brk

KnowsTables(t, doc) ==
  \A j \in 1 .. Len(doc) : OpenTable(doc, j) => KnowsTable(t, doc, j)

Shown(us, x) == \E i \in 1 .. Len(us) : us[i].src = x

\* The chunk in hand shows the names, or has no room for them, like the last
\* row by itself.
Carries(doc, us, n, j) ==
  ~ Unnamed(doc, j) /\ HeaderOfTable(doc, j).len <= ChunkSize =>
    \/ Shown(us, NamesOf(doc, j).src)
    \/ /\ n + HeaderOfTable(doc, j).len > ChunkSize
       /\ doc[Len(doc)].len + HeaderOfTable(doc, j).len > ChunkSize

CarryInv ==
  /\ KnowsTables(ht, units)
  /\ phase = "merging" /\ ChunkSize <= AbsMax =>
       \A j \in 1 .. Len(units) :
         OpenTable(units, j) =>
           /\ rest = <<>>
           /\ current # <<>>
           /\ Carries(units, current, curLen, j)

\* One more row: the table was open before, and its header is the same.
LEMMA TableGoesOn ==
  ASSUME NEW doc \in Seq(Unit), NEW u \in Unit, NEW j \in 1 .. Len(doc),
         OpenTable(Append(doc, u), j)
  PROVE  /\ OpenTable(doc, j)
         /\ IsRow(u) /\ HasRow(u) /\ u.cols = doc[j].cols /\ u.cols = doc[Len(doc)].cols
         /\ ~ doc[Len(doc)].brk
         /\ ~ Unnamed(Append(doc, u), j)
         /\ NamesOf(Append(doc, u), j) = IF Unnamed(doc, j) THEN u ELSE NamesOf(doc, j)
         /\ HeaderOfTable(Append(doc, u), j) =
              IF Unnamed(doc, j) THEN ExtendedHeader(u) ELSE HeaderOfTable(doc, j)
         /\ ~ Unnamed(doc, j) => HeaderOfTable(doc, j).cols = u.cols
<1> DEFINE ext == Append(doc, u)
           n   == Len(doc)
<1>1. /\ Len(ext) = n + 1 /\ ext[n + 1] = u /\ n \in Nat /\ j \in 1 .. n
      /\ \A i \in 1 .. n : ext[i] = doc[i]
  BY AppendProperties
<1>2. OpenTable(ext, j)
  OBVIOUS
<1> HIDE DEF ext, n
<1>3. /\ ext[j] = doc[j] /\ doc[j].kind = "head"
      /\ j > 1 => ~ Piped(doc[j - 1])
  <2>1. ext[j] = doc[j] /\ (j > 1 => ext[j - 1] = doc[j - 1])
    BY <1>1
  <2>2. QED BY <1>2, <2>1 DEF OpenTable
<1>4. \A m \in j .. n + 1 : HasRow(ext[m]) /\ ext[m].cols = u.cols /\ ext[m].len <= AbsMax
  BY <1>1, <1>2 DEF OpenTable
<1>5. \A m \in j + 1 .. n + 1 : IsRow(ext[m]) /\ ~ ext[m - 1].brk
  BY <1>1, <1>2 DEF OpenTable
<1>6. \A m \in j .. n : HasRow(doc[m]) /\ doc[m].cols = u.cols /\ doc[m].len <= AbsMax
  BY <1>1, <1>4
<1>7. \A m \in j + 1 .. n : IsRow(doc[m]) /\ ~ doc[m - 1].brk
  <2> SUFFICES ASSUME NEW m \in j + 1 .. n PROVE IsRow(doc[m]) /\ ~ doc[m - 1].brk
    OBVIOUS
  <2>1. m \in j + 1 .. n + 1 /\ ext[m] = doc[m] /\ ext[m - 1] = doc[m - 1]
    BY <1>1
  <2>2. QED BY <1>5, <2>1
<1>8. OpenTable(doc, j)
  BY <1>1, <1>3, <1>6, <1>7 DEF OpenTable, n
<1>9. /\ IsRow(u) /\ HasRow(u) /\ u.cols = doc[j].cols /\ u.cols = doc[n].cols
      /\ ~ doc[n].brk
  <2>1. IsRow(ext[n + 1]) /\ ~ ext[(n + 1) - 1].brk /\ ext[(n + 1) - 1] = doc[n]
    BY <1>1, <1>5
  <2>2. HasRow(ext[n + 1])
    BY <1>1, <1>4
  <2>3. IsRow(u) /\ HasRow(u) /\ ~ doc[n].brk
    BY <1>1, <2>1, <2>2
  <2>4. u.cols = doc[j].cols
    <3>1. j \in j .. n
      BY <1>1
    <3>2. QED BY <1>6, <3>1
  <2>5. u.cols = doc[n].cols
    <3>1. n \in j .. n
      BY <1>1
    <3>2. QED BY <1>6, <3>1
  <2>6. QED BY <2>3, <2>4, <2>5
<1>10. ~ Unnamed(ext, j)
  BY <1>1 DEF Unnamed
<1>11. CASE Unnamed(doc, j)
  <2>1. doc[j].bare /\ ext[j + 1] = u
    BY <1>1, <1>11 DEF Unnamed, n
  <2>2. QED BY <1>3, <1>8, <1>9, <1>10, <1>11, <2>1 DEF NamesOf, HeaderOfTable, ext, n
<1>12. CASE ~ Unnamed(doc, j)
  <2>1. doc[j].bare => j + 1 \in 1 .. n /\ ext[j + 1] = doc[j + 1]
    BY <1>1, <1>12 DEF Unnamed, n
  <2>2. NamesOf(ext, j) = NamesOf(doc, j) /\ HeaderOfTable(ext, j) = HeaderOfTable(doc, j)
    BY <1>3, <2>1 DEF NamesOf, HeaderOfTable
  <2>3. HeaderOfTable(doc, j).cols = u.cols
    <3>1. doc[j].bare => doc[j + 1].cols = u.cols
      BY <1>1, <1>6, <2>1
    <3>2. QED BY <1>9, <3>1 DEF HeaderOfTable, ExtendedHeader, HeaderOf
  <2>4. QED BY <1>8, <1>9, <1>10, <1>12, <2>2, <2>3 DEF ext, n
<1>13. QED BY <1>11, <1>12

\* The tracker knows the header of every regular table, and does not end it
\* while the rows go on.
LEMMA UpdateKnows ==
  ASSUME NEW t \in Tracker, NEW doc \in Seq(Unit), NEW u \in Unit, u.kind # "marker",
         TracksTable(t, doc), KnowsTables(t, doc)
  PROVE  /\ KnowsTables(Update(t, u), Append(doc, u))
         /\ \A j \in 1 .. Len(doc) :
              OpenTable(Append(doc, u), j) => ~ Update(t, u).endedNow
<1> DEFINE ext == Append(doc, u)
           v   == Update(t, u)
           n   == Len(doc)
<1>1. /\ Len(ext) = n + 1 /\ ext[n + 1] = u /\ n \in Nat
      /\ \A i \in 1 .. n : ext[i] = doc[i]
  BY AppendProperties
<1>2. ASSUME NEW j \in 1 .. n, OpenTable(ext, j)
      PROVE  KnowsTable(v, ext, j) /\ ~ v.endedNow
  <2>1. /\ OpenTable(doc, j)
        /\ IsRow(u) /\ HasRow(u)
        /\ ~ doc[n].brk
        /\ ~ Unnamed(ext, j)
        /\ HeaderOfTable(ext, j) =
             IF Unnamed(doc, j) THEN ExtendedHeader(u) ELSE HeaderOfTable(doc, j)
        /\ ~ Unnamed(doc, j) => HeaderOfTable(doc, j).cols = u.cols
    BY <1>2, TableGoesOn
  <2>2. KnowsTable(t, doc, j)
    BY <2>1 DEF KnowsTables
  <2>3. ~ EndsTable(u)
    BY <2>1 DEF EndsTable, IsRow
  <2>4. doc[j] \in Unit /\ (n # j => doc[j + 1] \in Unit)
    OBVIOUS
  <2>5. HeaderOf(doc[j]) \in Header /\ (~ Unnamed(doc, j) => HeaderOfTable(doc, j) \in Header)
    <3>1. ASSUME NEW w \in Unit PROVE HeaderOf(w) \in Header /\ ExtendedHeader(w) \in Header
      <4>1. w.src \in Nat /\ w.len \in Nat /\ w.cols \in Nat
        BY DEF Unit
      <4>2. w.len + SepLen \in Nat
        BY <4>1, SepLenAssumption
      <4>3. QED BY <4>1, <4>2 DEF HeaderOf, ExtendedHeader, Header
    <3>2. ~ Unnamed(doc, j) /\ doc[j].bare => n # j
      BY DEF Unnamed
    <3>3. QED BY <2>4, <3>1, <3>2 DEF HeaderOfTable
  <2>6. t.active # NoHeader /\ ~ t.pendingBreak
    BY <2>1, <2>2, <2>5, NoHeaderAssumption DEF KnowsTable
  <2> HIDE DEF v
  <2>7. CASE Unnamed(doc, j)
    <3>1. t.pendingExtend
      BY <2>2, <2>7 DEF KnowsTable
    <3>2. /\ v.active = ExtendedHeader(u) /\ ~ v.pendingExtend /\ ~ v.pendingBreak
          /\ ~ v.endedNow
      BY <2>1, <2>3, <2>6, <3>1 DEF Update, v
    <3>3. QED BY <2>1, <2>7, <3>2 DEF KnowsTable
  <2>8. CASE ~ Unnamed(doc, j)
    <3>1. ~ t.pendingExtend /\ t.active = HeaderOfTable(doc, j) /\ t.active.cols = u.cols
      BY <2>1, <2>2, <2>8 DEF KnowsTable
    <3>2. /\ v.active = t.active /\ ~ v.pendingExtend /\ (v.pendingBreak => u.brk)
          /\ ~ v.endedNow
      BY <2>1, <2>3, <2>6, <3>1 DEF Update, WidthDiffers, v
    <3>3. ext[Len(ext)] = u
      BY <1>1
    <3>4. QED BY <2>1, <2>8, <3>1, <3>2, <3>3 DEF KnowsTable
  <2>9. QED BY <2>7, <2>8
<1>3. ASSUME OpenTable(ext, n + 1) PROVE KnowsTable(v, ext, n + 1)
  <2>1. u.kind = "head" /\ (n > 0 => ~ Piped(doc[n]))
    <3>1. ext[n + 1].kind = "head" /\ (n + 1 > 1 => ~ Piped(ext[(n + 1) - 1]))
      BY <1>3 DEF OpenTable
    <3>2. n > 0 => ext[(n + 1) - 1] = doc[n]
      BY <1>1
    <3>3. QED BY <1>1, <3>1, <3>2
  <2>2. t.active = NoHeader
    <3> SUFFICES ASSUME t.active # NoHeader PROVE FALSE
      OBVIOUS
    <3>1. PICK j \in 1 .. n : TrackedFrom(t, doc, j)
      BY DEF TracksTable
    <3>2. Piped(doc[n]) /\ n > 0
      BY <1>1, <3>1 DEF TrackedFrom
    <3>3. QED BY <2>1, <3>2
  <2>3. /\ v.active = HeaderOf(u) /\ v.pendingExtend = u.bare /\ ~ v.pendingBreak
    <3>1. u.bare \in BOOLEAN
      BY DEF Unit
    <3>2. QED BY <2>1, <2>2, <3>1 DEF Update
  <2> HIDE DEF v, ext
  <2>4. Unnamed(ext, n + 1) <=> u.bare
    BY <1>1 DEF Unnamed
  <2>5. ~ u.bare => HeaderOfTable(ext, n + 1) = HeaderOf(u)
    BY <1>1 DEF HeaderOfTable
  <2>6. QED BY <1>1, <2>3, <2>4, <2>5 DEF KnowsTable
<1>4. KnowsTables(v, ext)
  BY <1>1, <1>2, <1>3 DEF KnowsTables
<1>5. QED BY <1>2, <1>4

\* The unit that is put down last is in the chunk in hand, and what stands
\* before it stays there.
LEMMA ShownAppend ==
  ASSUME NEW us \in Seq(Unit), NEW u \in Unit
  PROVE  /\ Shown(Append(us, u), u.src)
         /\ \A x : Shown(us, x) => Shown(Append(us, u), x)
         /\ Append(us, u) # <<>>
<1>1. /\ Len(Append(us, u)) = Len(us) + 1 /\ Append(us, u)[Len(us) + 1] = u
      /\ \A i \in 1 .. Len(us) : Append(us, u)[i] = us[i]
      /\ Append(us, u) # <<>>
  BY AppendProperties
<1>2. Len(us) + 1 \in 1 .. Len(us) + 1 /\ 1 .. Len(us) \subseteq 1 .. Len(us) + 1
  OBVIOUS
<1>3. QED BY <1>1, <1>2 DEF Shown

\* What a row of an open table finds: its chunk goes on, or the next one starts
\* with its header, unless header and row have no room in a chunk.
LEMMA RowCarries ==
  ASSUME IInv, NEW u, Fresh(u, TextEnd), ChunkSize <= AbsMax,
         FlushAtTableBoundary(u) \/ Extend(u) \/ FlushAndOverlap(u),
         NEW H \in Header, ht'.active = H, ~ ht'.endedNow, H.len <= ChunkSize,
         ~ WidthDiffers(H, u), current # <<>>,
         Shown(current, H.src) \/ curLen + H.len > ChunkSize
  PROVE  Shown(current', H.src) \/ (curLen' + H.len > ChunkSize /\ u.len + H.len > ChunkSize)
<1>1. Read(u) /\ u.len <= AbsMax /\ phase = "merging" /\ rest = <<>>
  BY DEF FlushAtTableBoundary, Extend, FlushAndOverlap, Read
<1>2. /\ ChunkSize \in Nat /\ u.len \in Nat /\ u \in Unit /\ H.len \in Nat
      /\ current \in Seq(Unit) /\ Laid(current) /\ curLen \in Nat
  <2>1. TypeOK /\ Ready(chunks, current, curLen, TextEnd)
    BY <1>1 DEF IInv
  <2>2. QED BY <2>1, UnitFields DEF Ready, TypeOK, ChunkSize, Fresh, Header
<1>3. H # NoHeader /\ Usable(H) /\ HeaderLen(H) = H.len
  BY NoHeaderAssumption DEF Usable, HeaderLen
<1>4. CASE FlushAtTableBoundary(u)
  BY <1>4 DEF FlushAtTableBoundary, AtTableBoundary
<1>5. CASE Extend(u)
  <2>1. Place(chunks, current, curLen, u) /\ curLen + u.len + H.len <= ChunkSize
    <3>1. Place(chunks, current, curLen, u) /\ ~ (curLen + u.len + H.len > ChunkSize)
      BY <1>3, <1>5 DEF Extend, Overflows
    <3>2. QED BY <1>2, <3>1
  <2>2. curLen + u.len <= ChunkSize /\ curLen + H.len <= ChunkSize
    BY <1>2, <2>1
  <2>3. current' = Append(current, u)
    BY <1>1, <1>2, <2>1, <2>2, PlacePlain
  <2>4. Shown(current, H.src)
    BY <1>2, <2>2
  <2>5. QED BY <1>2, <2>3, <2>4, ShownAppend
<1>6. CASE FlushAndOverlap(u)
  <2>1. PICK s \in 1 .. Len(current) + 1 :
          /\ s <= Len(current) => ~ IsMarker(current[s])
          /\ KeptAlone(u, s) \/ KeptBehindHeader(u, s)
    BY <1>6, OverlapResult
  <2> DEFINE kept == From(current, s)
             n    == RunLen(current, s)
  <2>2. /\ kept \in Seq(Unit) /\ n \in Nat
        /\ kept = <<>> <=> s = Len(current) + 1
    BY <1>2, FromProperties, FromLaid
  <2>3. CASE KeptAlone(u, s)
    <3>1. /\ Place(Flushed, kept, n, u)
          /\ kept # <<>> => n + u.len <= ChunkSize
          /\ H.len + u.len <= ChunkSize => ~ NeedsMarker(kept, u, H)
      BY <1>2, <1>3, <2>2, <2>3 DEF KeptAlone
    <3> HIDE DEF kept, n
    <3>2. current' = Append(kept, u) /\ curLen' = n + u.len
      BY <1>1, <1>2, <2>2, <3>1, PlacePlain
    <3>3. CASE H.len + u.len <= ChunkSize
      <4>1. Shows(kept, u, H)
        BY <3>1, <3>3 DEF NeedsMarker
      <4>2. u.src = H.src \/ Shown(kept, H.src)
        BY <4>1 DEF Shows, Shown
      <4>3. QED BY <1>2, <2>2, <3>2, <4>2, ShownAppend
    <3>4. CASE ~ (H.len + u.len <= ChunkSize)
      BY <1>2, <2>2, <3>2, <3>4, SMTT(30)
    <3>5. QED BY <3>3, <3>4
  <2>4. CASE KeptBehindHeader(u, s)
    <3> DEFINE p  == IF kept # <<>> THEN kept[1].start ELSE u.start
               ms == <<Marker(H, p)>> \o kept
    <3>1. Place(Flushed, ms, n + H.len, u) /\ n + H.len + u.len <= ChunkSize
      BY <2>4 DEF KeptBehindHeader, WithMarker
    <3>2. p \in Nat
      BY <1>2, <2>2, EmptySeq, UnitFields
    <3> HIDE DEF p
    <3>3. Marker(H, p) \in Unit /\ Marker(H, p).src = H.src
      BY <3>2 DEF Marker, Unit, Header, Kinds
    <3>4. ms \in Seq(Unit) /\ Shown(ms, H.src)
      <4> HIDE DEF kept
      <4>1. /\ ms \in Seq(Unit) /\ Len(ms) = Len(kept) + 1 /\ Len(kept) \in Nat
            /\ ms[1] = Marker(H, p)
        BY <2>2, <3>3, ConcatProperties
      <4> HIDE DEF ms
      <4>2. 1 \in 1 .. Len(ms) /\ ms[1].src = H.src
        BY <3>3, <4>1
      <4>3. QED BY <4>1, <4>2 DEF Shown
    <3> HIDE DEF ms, n
    <3>5. n + H.len \in Nat
      BY <1>2, <2>2
    <3>6. current' = Append(ms, u)
      BY <1>1, <1>2, <3>1, <3>5, PlacePlain
    <3>7. QED BY <1>2, <3>4, <3>6, ShownAppend
  <2>5. QED BY <2>1, <2>3, <2>4
<1>7. QED BY <1>4, <1>5, <1>6

\* The unit that is put down ends the chunk in hand.
LEMMA PutDownLast ==
  ASSUME IInv, NEW u, Fresh(u, TextEnd),
         FlushAtTableBoundary(u) \/ Extend(u) \/ FlushAndOverlap(u)
  PROVE  \E base \in Seq(Unit) : current' = Append(base, u) \/ current' = <<u>>
<1>1. Read(u) /\ phase = "merging" /\ rest = <<>>
  BY DEF FlushAtTableBoundary, Extend, FlushAndOverlap, Read
<1>2. u \in Unit /\ current \in Seq(Unit) /\ Laid(current)
  <2>1. TypeOK /\ Ready(chunks, current, curLen, TextEnd)
    BY <1>1 DEF IInv
  <2>2. QED BY <2>1 DEF Ready, TypeOK, Fresh
<1>3. \A cs, base, n : Place(cs, base, n, u) => current' = Append(base, u) \/ current' = <<u>>
  BY DEF Place
<1>4. CASE FlushAtTableBoundary(u)
  <2>1. <<>> \in Seq(Unit)
    OBVIOUS
  <2>2. QED BY <1>3, <1>4, <2>1 DEF FlushAtTableBoundary
<1>5. CASE Extend(u)
  BY <1>2, <1>3, <1>5 DEF Extend
<1>6. CASE FlushAndOverlap(u)
  <2> DEFINE h == ht'.active
  <2>1. PICK s \in 1 .. Len(current) + 1 : KeptAlone(u, s) \/ KeptBehindHeader(u, s)
    BY <1>6, OverlapResult
  <2> DEFINE kept == From(current, s)
  <2>2. kept \in Seq(Unit)
    BY <1>2, FromProperties
  <2>3. CASE KeptAlone(u, s)
    BY <1>3, <2>2, <2>3 DEF KeptAlone
  <2>4. CASE KeptBehindHeader(u, s)
    <3> DEFINE p == IF kept # <<>> THEN kept[1].start ELSE u.start
    <3>1. h \in Header /\ Place(Flushed, <<Marker(h, p)>> \o kept, RunLen(current, s) + h.len, u)
      BY <2>4 DEF KeptBehindHeader, WithMarker
    <3>2. p \in Nat
      BY <1>2, <2>2, EmptySeq, UnitFields
    <3> HIDE DEF p
    <3>3. Marker(h, p) \in Unit
      BY <3>1, <3>2 DEF Marker, Unit, Header, Kinds
    <3>4. <<Marker(h, p)>> \o kept \in Seq(Unit)
      BY <2>2, <3>3, ConcatProperties
    <3>5. QED BY <1>3, <3>1, <3>4
  <2>5. QED BY <2>1, <2>3, <2>4
<1>7. QED BY <1>4, <1>5, <1>6

\* What reading a unit does to the tables, whatever becomes of the unit.
LEMMA ReadCarries ==
  ASSUME TypeOK, StaysInv, CarryInv, NEW s \in UnitShapes, NEW u, u = At(s, TextEnd), Read(u)
  PROVE  /\ KnowsTables(ht', units')
         /\ units' = Append(units, u) /\ u \in Unit
         /\ \A j \in 1 .. Len(units) : OpenTable(units', j) => ~ ht'.endedNow
<1>1. units \in Seq(Unit) /\ ht \in Tracker /\ Fresh(u, TextEnd)
  BY ReadUnit DEF TypeOK
<1>2. units' = Append(units, u) /\ ht' = Update(ht, u) /\ u \in Unit /\ u.kind # "marker"
  BY <1>1 DEF Read, Fresh
<1>3. TracksTable(ht, units) /\ KnowsTables(ht, units)
  BY DEF StaysInv, CarryInv
<1>4. QED BY <1>1, <1>2, <1>3, UpdateKnows

\* The three ways a small unit is put down leave a chunk that shows the names
\* of the open table.
LEMMA SmallUnitCarries ==
  ASSUME IInv, StaysInv, CarryInv, NEW s \in UnitShapes, NEW u, u = At(s, TextEnd),
         FlushAtTableBoundary(u) \/ Extend(u) \/ FlushAndOverlap(u)
  PROVE  CarryInv'
<1>1. Read(u) /\ phase = "merging" /\ phase' = phase /\ rest = <<>> /\ rest' = rest /\ cfg' = cfg
      /\ u.len <= AbsMax
  BY DEF FlushAtTableBoundary, Extend, FlushAndOverlap, Read
<1>2. /\ TypeOK /\ units \in Seq(Unit) /\ Fresh(u, TextEnd) /\ ht' \in Tracker
      /\ ChunkSize \in Nat /\ ChunkSize' = ChunkSize
  <2>1. TypeOK
    BY DEF IInv
  <2>2. Fresh(u, TextEnd)
    BY <2>1, ReadUnit
  <2>3. ht' \in Tracker
    BY <1>1, <2>1, <2>2, ReadKeepsTypes
  <2>4. QED BY <1>1, <2>1, <2>2, <2>3 DEF TypeOK, ChunkSize
<1>3. /\ KnowsTables(ht', units')
      /\ units' = Append(units, u) /\ u \in Unit
      /\ \A j \in 1 .. Len(units) : OpenTable(units', j) => ~ ht'.endedNow
  BY <1>1, <1>2, ReadCarries
<1>4. Len(units') = Len(units) + 1 /\ units'[Len(units')] = u
  BY <1>2, <1>3, AppendProperties
<1>5. ASSUME ChunkSize <= AbsMax
      PROVE  current' # <<>> /\ Shown(current', u.src)
  <2>1. PICK base \in Seq(Unit) : current' = Append(base, u) \/ current' = <<u>>
    BY <1>2, <1>3, PutDownLast
  <2>2. <<u>> = Append(<<>>, u) /\ <<>> \in Seq(Unit)
    OBVIOUS
  <2>3. QED BY <1>3, <2>1, <2>2, ShownAppend
<1>6. ASSUME ChunkSize <= AbsMax, NEW j \in 1 .. Len(units'), OpenTable(units', j),
             ~ Unnamed(units', j), HeaderOfTable(units', j).len <= ChunkSize
      PROVE  \/ Shown(current', NamesOf(units', j).src)
             \/ /\ curLen' + HeaderOfTable(units', j).len > ChunkSize
                /\ u.len + HeaderOfTable(units', j).len > ChunkSize
  <2> DEFINE H == HeaderOfTable(units', j)
  <2>1. NamesOf(units', j).src = H.src
    BY DEF NamesOf, HeaderOfTable, ExtendedHeader, HeaderOf
  <2>2. CASE j = Len(units')
    <3>1. ~ u.bare
      BY <1>4, <1>6, <2>2 DEF Unnamed
    <3>2. NamesOf(units', j) = u
      BY <1>4, <2>2, <3>1 DEF NamesOf
    <3>3. QED BY <1>5, <1>6, <3>2
  <2>3. CASE j # Len(units')
    <3>1. j \in 1 .. Len(units) /\ ~ ht'.endedNow
      BY <1>2, <1>3, <1>4, <1>6, <2>3
    <3>2. OpenTable(Append(units, u), j)
      BY <1>3, <1>6
    <3>3. /\ OpenTable(units, j)
          /\ u.cols = units[j].cols
          /\ NamesOf(units', j) = IF Unnamed(units, j) THEN u ELSE NamesOf(units, j)
          /\ H = IF Unnamed(units, j) THEN ExtendedHeader(u) ELSE HeaderOfTable(units, j)
          /\ ~ Unnamed(units, j) => HeaderOfTable(units, j).cols = u.cols
      BY <1>2, <1>3, <3>1, <3>2, TableGoesOn
    <3>4. CASE Unnamed(units, j)
      BY <1>5, <1>6, <3>3, <3>4
    <3>5. CASE ~ Unnamed(units, j)
      <4>1. ht'.active = H
        BY <1>3, <1>6 DEF KnowsTables, KnowsTable
      <4>2. H \in Header
        <5>1. \A w \in Unit : w.len + SepLen \in Nat
          BY SepLenAssumption, UnitFields
        <5>2. units' \in Seq(Unit)
          BY <1>2, <1>3, AppendProperties
        <5>3. units'[j] \in Unit /\ (units'[j].bare => units'[j + 1] \in Unit)
          BY <1>6, <5>2 DEF Unnamed
        <5>4. QED BY <5>1, <5>3 DEF HeaderOfTable, HeaderOf, ExtendedHeader, Header, Unit
      <4>3. current # <<>> /\ Carries(units, current, curLen, j)
        BY <1>1, <1>6, <3>1, <3>3 DEF CarryInv
      <4>4. H.len <= ChunkSize /\ H = HeaderOfTable(units, j) /\ NamesOf(units, j).src = H.src
        BY <1>6, <2>1, <3>3, <3>5
      <4>5. Shown(current, H.src) \/ curLen + H.len > ChunkSize
        BY <3>5, <4>3, <4>4 DEF Carries
      <4>6. ~ WidthDiffers(H, u)
        BY <3>3, <3>5, <4>4 DEF WidthDiffers
      <4> HIDE DEF H
      <4>7. Shown(current', H.src) \/ (curLen' + H.len > ChunkSize /\ u.len + H.len > ChunkSize)
        BY <1>2, <1>6, <3>1, <4>1, <4>2, <4>3, <4>4, <4>5, <4>6, RowCarries
      <4>8. QED BY <2>1, <4>7 DEF H
    <3>6. QED BY <3>4, <3>5
  <2>4. QED BY <2>2, <2>3
<1>7. ASSUME ChunkSize <= AbsMax, NEW j \in 1 .. Len(units'), OpenTable(units', j)
      PROVE  rest' = <<>> /\ current' # <<>> /\ Carries(units, current, curLen, j)'
  BY <1>1, <1>2, <1>4, <1>5, <1>6, <1>7 DEF Carries, Shown, Unnamed, HeaderOfTable, NamesOf
<1>8. KnowsTables(ht, units)'
  BY <1>3 DEF KnowsTables, KnowsTable, OpenTable, Unnamed, HeaderOfTable
<1>9. (phase = "merging" /\ ChunkSize <= AbsMax =>
        \A j \in 1 .. Len(units) :
          OpenTable(units, j) =>
            rest = <<>> /\ current # <<>> /\ Carries(units, current, curLen, j))'
  BY <1>2, <1>7 DEF OpenTable
<1>10. QED BY <1>8, <1>9 DEF CarryInv

\* Every step keeps what is known of the tables.
LEMMA CarryStep ==
  ASSUME IInv, StaysInv, CarryInv, [Next]_vars
  PROVE  CarryInv'
<1>1. TypeOK /\ units \in Seq(Unit)
  BY DEF IInv, TypeOK
<1>2. ASSUME NEW s \in UnitShapes, NEW u, u = At(s, TextEnd), StartCutting(u)
      PROVE  CarryInv'
  <2>1. Read(u) /\ u.len > AbsMax
    BY <1>2 DEF StartCutting
  <2>2. KnowsTables(ht', units') /\ units' = Append(units, u) /\ u \in Unit
    BY <1>1, <1>2, <2>1, ReadCarries
  <2>3. Len(units') \in Nat /\ units'[Len(units')] = u
    BY <1>1, <2>2, AppendProperties
  <2>4. ASSUME NEW j \in 1 .. Len(units') PROVE ~ OpenTable(units', j)
    <3>1. Len(units') \in j .. Len(units')
      BY <2>3
    <3>2. ~ (u.len <= AbsMax)
      BY <2>1, <2>2, UnitFields, SizesAssumption
    <3>3. QED BY <2>3, <3>1, <3>2 DEF OpenTable
  <2>5. QED BY <2>2, <2>4 DEF CarryInv, KnowsTables, KnowsTable, OpenTable, Unnamed,
        HeaderOfTable
<1>3. ASSUME NEW n \in 1 .. AbsMax, CutPiece(n)
      PROVE  CarryInv'
  <2>1. rest # <<>> /\ UNCHANGED <<cfg, units, ht, current, curLen, phase>>
    BY <1>3 DEF CutPiece
  <2>2. ~ (phase = "merging" /\ ChunkSize <= AbsMax /\ \E j \in 1 .. Len(units) : OpenTable(units, j))
    BY <2>1 DEF CarryInv
  <2>3. QED BY <2>1, <2>2 DEF CarryInv, KnowsTables, KnowsTable, OpenTable, Unnamed,
        HeaderOfTable, ChunkSize
<1>4. CASE Finish
  <2>1. phase' # "merging" /\ UNCHANGED <<units, ht>>
    BY <1>4 DEF Finish
  <2>2. QED BY <2>1 DEF CarryInv, KnowsTables, KnowsTable, OpenTable, Unnamed, HeaderOfTable
<1>5. CASE UNCHANGED vars
  BY <1>5 DEF vars, CarryInv, KnowsTables, KnowsTable, OpenTable, Unnamed, HeaderOfTable,
     Carries, Shown, NamesOf, ChunkSize
<1>6. CASE NextUnit
  <2>1. PICK s \in UnitShapes :
          LET u == At(s, TextEnd)
          IN  \/ FlushAtTableBoundary(u)
              \/ Extend(u)
              \/ FlushAndOverlap(u)
              \/ StartCutting(u)
    BY <1>6 DEF NextUnit
  <2>2. QED BY <1>2, <2>1, SmallUnitCarries
<1>7. QED BY <1>3, <1>4, <1>5, <1>6 DEF Next

\* In the first table after prose, with rows of one width and none of them cut,
\* the row read last stands in a chunk that shows the names of its columns,
\* wherever the table was cut, when header and row fit into chunk_size and that
\* is at most the absolute maximum.
THEOREM RowsCarryCorrect == Spec => []RowsCarryHeader
<1>1. Init => StaysInv /\ CarryInv
  <2> SUFFICES ASSUME Init PROVE StaysInv /\ CarryInv
    OBVIOUS
  <2>1. units = <<>> /\ current = <<>> /\ chunks = <<>> /\ ht.active = NoHeader
    BY DEF Init, NewTracker
  <2>2. QED BY <2>1 DEF StaysInv, DocOK, Laid, IsSlice, EndOf, TracksTable, StaysIn, HasMarker,
        CarryInv, KnowsTables
<1>2. IInv /\ CarryInv => RowsCarryHeader
  <2> SUFFICES ASSUME IInv, CarryInv, phase = "merging", current # <<>>,
                      NEW j \in 1 .. Len(units), RowOwesHeader(j, Len(units)),
                      j > 1 => ~ Piped(units[j - 1])
               PROVE  ShowsNames(j)
    BY DEF RowsCarryHeader
  <2> DEFINE n == Len(units)
  <2>1. ChunkSize <= AbsMax /\ n >= NamesAt(j) /\ RepeatedLen(j) + units[n].len <= ChunkSize
    BY DEF RowOwesHeader
  <2>2. OpenTable(units, j)
    BY DEF RowOwesHeader, InTable, StartsTable, Regular, OpenTable
  <2>3. ~ Unnamed(units, j) /\ NamesOf(units, j) = units[NamesAt(j)]
        /\ HeaderOfTable(units, j).len = RepeatedLen(j)
    <3>1. ~ Unnamed(units, j)
      BY <2>1 DEF Unnamed, NamesAt
    <3>2. QED BY <3>1 DEF NamesOf, NamesAt, HeaderOfTable, RepeatedLen, ExtendedHeader, HeaderOf
  <2>4. units[n].len \in Nat /\ RepeatedLen(j) \in Nat /\ ChunkSize \in Nat
    <3>1. units \in Seq(Unit) /\ ChunkSize \in Nat
      BY DEF IInv, TypeOK, ChunkSize
    <3>2. units[n] \in Unit /\ units[j] \in Unit /\ (units[j].bare => units[j + 1] \in Unit)
      BY <2>1, <3>1 DEF NamesAt
    <3>3. /\ units[n].len \in Nat /\ units[j].len \in Nat
          /\ units[j].bare => units[j + 1].len \in Nat
      BY <3>2, UnitFields
    <3>4. QED BY <3>1, <3>3, SepLenAssumption DEF RepeatedLen
  <2>5. Carries(units, current, curLen, j)
    BY <2>1, <2>2 DEF CarryInv
  <2>6. Shown(current, NamesOf(units, j).src)
    BY <2>1, <2>3, <2>4, <2>5 DEF Carries
  <2>7. QED BY <2>3, <2>6 DEF Shown, ShowsNames
<1>3. QED BY <1>1, <1>2, StaysStep, CarryStep, Invariant, PTL DEF Spec

===============================================================================
