--------------------------- MODULE ConversionsProofs ---------------------------
(***************************************************************************)
(* However many requests run LibreOffice at once, whatever they bring and  *)
(* however LibreOffice behaves: nobody removes the temporary directories   *)
(* of another, and nothing stays on disk but what cannot be removed.  The  *)
(* argument rests on the directories being named after the request, on     *)
(* each way out of an attempt removing them, and on a request that could   *)
(* not remove one never running LibreOffice again.  And a file is refused  *)
(* only when every suffix has been given up, when something raised or when *)
(* no repair helps: while a conversion is under way, each suffix has been  *)
(* given up or is left.                                                    *)
(***************************************************************************)
EXTENDS Conversions, SequenceTheorems, WellFoundedInduction, TLAPS

States == {"open", "attempt", "running", "no soffice", "read", "antiword", "done",
           "refused"}

\* Where a request can be, and which kinds reach the two engines of last resort.
PcOK ==
  /\ pc \in [Jobs -> States]
  /\ \A j \in Jobs : upload[j].kind \in {"sheet", "slides", "doc"}
  /\ \A j \in Jobs : pc[j] = "read" => Kind(j) = "sheet"

\* What could not be removed is not used again.
Fresh(j) ==
  /\ OutDir(j) \in stuck \/ Profile(j) \in stuck => pc[j] \in {"antiword", "done", "refused"}
  /\ DocFile(j) \in stuck => pc[j] = "refused"

DiskInv == PcOK /\ DiskIsOwn /\ \A j \in Jobs : Fresh(j)

\* The steps of a request leave the others where they are, and their files alone.
StepOf(j) ==
  /\ upload' = upload
  /\ \E to \in States : pc' = [pc EXCEPT ![j] = to]
  /\ \A k \in Jobs \ {j} :
       /\ OutDir(k) \in disk' <=> OutDir(k) \in disk
       /\ Profile(k) \in disk' <=> Profile(k) \in disk
       /\ DocFile(k) \in disk' <=> DocFile(k) \in disk
       /\ OutDir(k) \in stuck' <=> OutDir(k) \in stuck
       /\ Profile(k) \in stuck' <=> Profile(k) \in stuck
       /\ DocFile(k) \in stuck' <=> DocFile(k) \in stuck

\* What a step must do for its own request.
OwnOK(j) ==
  /\ pc[j] = "read" => Kind(j) = "sheet"
  /\ OutDir(j) \in disk <=> pc[j] = "running" \/ OutDir(j) \in stuck
  /\ Profile(j) \in disk <=> pc[j] = "running" \/ Profile(j) \in stuck
  /\ DocFile(j) \in disk <=>
       \/ Kind(j) = "doc" /\ pc[j] # "open" /\ ~ Ended(j)
       \/ DocFile(j) \in stuck
  /\ Fresh(j)

\* A step that concerns one request and is right for it is right for all.
LEMMA Local ==
  ASSUME DiskInv, NEW j \in Jobs, StepOf(j), OwnOK(j)'
  PROVE  DiskInv'
<1>1. \A k \in Jobs \ {j} : pc'[k] = pc[k]
  BY DEF StepOf, DiskInv, PcOK
<1>2. PcOK'
  BY <1>1 DEF StepOf, OwnOK, DiskInv, PcOK, Kind
<1>3. DiskIsOwn'
  BY <1>1 DEF StepOf, OwnOK, DiskInv, DiskIsOwn, Kind, Ended
<1>4. \A k \in Jobs : Fresh(k)'
  BY <1>1 DEF StepOf, OwnOK, DiskInv, Fresh
<1> QED
  BY <1>2, <1>3, <1>4 DEF DiskInv

\* The names on disk differ from request to request and from use to use.
LEMMA Names ==
  ASSUME NEW j \in Jobs, NEW k \in Jobs
  PROVE  /\ OutDir(j) = OutDir(k) => j = k
         /\ Profile(j) = Profile(k) => j = k
         /\ DocFile(j) = DocFile(k) => j = k
         /\ OutDir(j) # Profile(k)
         /\ OutDir(j) # DocFile(k)
         /\ Profile(j) # DocFile(k)
BY DEF OutDir, Profile, DocFile

\* At first nothing is on disk and every request is open.
LEMMA InitDiskInv == Init => DiskInv
<1> SUFFICES ASSUME Init PROVE DiskInv
  OBVIOUS
<1>1. PcOK
  BY UploadsAssumption DEF Init, PcOK, States, Kind
<1>2. DiskIsOwn /\ \A j \in Jobs : Fresh(j)
  BY DEF Init, DiskIsOwn, Fresh
<1> QED
  BY <1>1, <1>2 DEF DiskInv

\* The places a failed conversion can lead to.
LEMMA NextSuffixGoes ==
  ASSUME DiskInv, NEW j \in Jobs, NextSuffix(j)
  PROVE  /\ \E to \in {"attempt", "no soffice", "read", "antiword", "refused"} :
              pc' = [pc EXCEPT ![j] = to]
         /\ pc'[j] \in {"attempt", "no soffice", "read", "antiword", "refused"}
         /\ pc'[j] = "read" => Kind(j) = "sheet"
         /\ pc'[j] = "refused" => Kind(j) # "doc"
<1>1. \E to \in {"attempt", "no soffice", "read", "antiword", "refused"} :
        /\ pc' = [pc EXCEPT ![j] = to]
        /\ to = "read" => Kind(j) = "sheet"
        /\ to = "refused" => Kind(j) # "doc"
  BY DEF NextSuffix, Goes, Fallback
<1> QED
  BY <1>1 DEF DiskInv, PcOK

\* Every step of a request keeps the invariant.
LEMMA JobStepKeeps ==
  ASSUME DiskInv, NEW j \in Jobs, JobStep(j)
  PROVE  DiskInv'
<1> USE DEF States
<1>1. SUFFICES StepOf(j) /\ OwnOK(j)'
  BY Local
<1>own. OwnOK(j)
  BY DEF DiskInv, PcOK, DiskIsOwn, OwnOK, Fresh
<1>2. CASE Normalize(j) \/ ConvertOds(j)
  <2>1. \E to \in {"attempt", "no soffice"} : pc' = [pc EXCEPT ![j] = to]
    BY <1>2 DEF Normalize, ConvertOds, Convert, Goes
  <2> QED
    BY <1>2, <2>1, <1>own DEF Normalize, ConvertOds, StepOf, OwnOK, Fresh, Kind, DiskInv, PcOK, Ended
<1>3. CASE PrepareXlsx(j) \/ ReadOther(j)
  <2>1. \E to \in {"done", "refused"} : pc' = [pc EXCEPT ![j] = to]
    BY <1>3 DEF PrepareXlsx, ReadOther, Goes
  <2> QED
    BY <1>3, <2>1, <1>own DEF PrepareXlsx, ReadOther, StepOf, OwnOK, Fresh, Kind, DiskInv, PcOK, Ended
<1>4. CASE KeepSlides(j) \/ ConvertSlides(j)
  <2>1. \E to \in {"done", "attempt", "no soffice"} : pc' = [pc EXCEPT ![j] = to]
    BY <1>4 DEF KeepSlides, ConvertSlides, Convert, Goes
  <2> QED
    BY <1>4, <2>1, <1>own DEF KeepSlides, ConvertSlides, StepOf, OwnOK, Fresh, Kind, DiskInv, PcOK, Ended
<1>5. CASE ConvertDoc(j)
  <2>1. \E to \in {"attempt", "no soffice"} : pc' = [pc EXCEPT ![j] = to]
    BY <1>5 DEF ConvertDoc, Convert, Goes
  <2>2. StepOf(j)
    BY <1>5, <2>1, Names DEF ConvertDoc, StepOf
  <2> QED
    BY <1>5, <2>1, <2>2, <1>own, Names DEF ConvertDoc, OwnOK, Fresh, Kind, DiskInv, PcOK, Ended
<1>6. CASE RunAntiword(j)
  <2>1. \E to \in {"done", "refused"} : pc' = [pc EXCEPT ![j] = to]
    BY <1>6 DEF RunAntiword, Goes
  <2>2. StepOf(j)
    BY <1>6, <2>1, Names DEF RunAntiword, StepOf
  <2> QED
    BY <1>6, <2>1, <2>2, <1>own, Names DEF RunAntiword, OwnOK, Fresh, Kind, DiskInv, PcOK, Ended
<1>7. CASE StartAttempt(j)
  <2>1. pc' = [pc EXCEPT ![j] = "running"]
    BY <1>7 DEF StartAttempt, Goes
  <2>2. StepOf(j)
    BY <1>7, <2>1, Names DEF StartAttempt, StepOf
  <2> QED
    BY <1>7, <2>1, <2>2, <1>own, Names DEF StartAttempt, OwnOK, Fresh, Kind, DiskInv, PcOK, Ended
<1>8. CASE NoSoffice(j)
  <2>1. NextSuffix(j) /\ pc[j] = "no soffice" /\ upload' = upload /\ disk' = disk /\ stuck' = stuck
    BY <1>8 DEF NoSoffice
  <2>2. StepOf(j)
    BY <2>1, NextSuffixGoes DEF StepOf
  <2> QED
    BY <2>1, <2>2, NextSuffixGoes, <1>own DEF OwnOK, Fresh, Kind, Ended
<1>9. CASE Fail(j) \/ TimeOut(j) \/ \E f \in Products \cup {data[j]} : RejectSheet(j, f)
  <2>1. pc[j] = "running" /\ LeaveDirs(j) /\ upload' = upload /\ stuck' = stuck
    BY <1>9 DEF Fail, TimeOut, RejectSheet
  <2>2. /\ \E to \in {"attempt", "no soffice", "read", "antiword", "refused"} :
             pc' = [pc EXCEPT ![j] = to]
        /\ pc'[j] \in {"attempt", "no soffice", "read", "antiword", "refused"}
        /\ pc'[j] = "read" => Kind(j) = "sheet"
        /\ pc'[j] = "refused" => Kind(j) # "doc"
    <3>1. CASE NextSuffix(j)
      BY <3>1, NextSuffixGoes
    <3>2. CASE Goes(j, "attempt")
      BY <3>2 DEF Goes, DiskInv, PcOK
    <3> QED
      BY <1>9, <3>1, <3>2 DEF Fail, TimeOut, RejectSheet
  <2>3. StepOf(j)
    BY <2>1, <2>2, Names DEF StepOf, LeaveDirs
  <2>4. OwnOK(j)'
    BY <2>1, <2>2, <1>own, Names DEF OwnOK, Fresh, LeaveDirs, Kind, Ended
  <2> QED
    BY <2>3, <2>4
<1>10. CASE TakeSlides(j) \/ \E f \in Products \cup {data[j]} : TakeSheet(j, f)
  <2>1. /\ pc[j] = "running" /\ LeaveDirs(j) /\ upload' = upload /\ stuck' = stuck /\ Kind(j) # "doc"
        /\ \E to \in {"open", "done", "refused"} : pc' = [pc EXCEPT ![j] = to]
    BY <1>10 DEF TakeSlides, TakeSheet, Goes
  <2>2. StepOf(j)
    BY <2>1, Names DEF StepOf, LeaveDirs
  <2>3. OwnOK(j)'
    BY <2>1, <1>own, Names DEF OwnOK, Fresh, LeaveDirs, Kind, Ended, DiskInv, PcOK
  <2> QED
    BY <2>2, <2>3
<1>11. CASE TakeDoc(j)
  <2>1. /\ pc[j] = "running" /\ upload' = upload /\ stuck' = stuck /\ Kind(j) = "doc"
        /\ \/ /\ pc' = [pc EXCEPT ![j] = "done"]
              /\ disk' = disk \ {OutDir(j), Profile(j), DocFile(j)}
           \/ /\ pc' = [pc EXCEPT ![j] = "antiword"]
              /\ disk' = disk \ {OutDir(j), Profile(j)}
    BY <1>11 DEF TakeDoc, Goes, LeaveDirs
  <2>2. StepOf(j)
    BY <2>1, Names DEF StepOf
  <2>3. OwnOK(j)'
    BY <2>1, <1>own, Names DEF OwnOK, Fresh, Kind, Ended, DiskInv, PcOK
  <2> QED
    BY <2>2, <2>3
<1>12. CASE CannotSave(j)
  <2>1. /\ pc' = [pc EXCEPT ![j] = "refused"] /\ pc[j] = "open" /\ upload' = upload
        /\ \/ disk' = disk /\ stuck' = stuck
           \/ disk' = disk \cup {DocFile(j)} /\ stuck' = stuck \cup {DocFile(j)}
    BY <1>12 DEF CannotSave, Goes
  <2>2. StepOf(j)
    BY <2>1, Names DEF StepOf
  <2>3. OwnOK(j)'
    BY <2>1, <1>own, Names DEF OwnOK, Fresh, Kind, Ended, DiskInv, PcOK
  <2> QED
    BY <2>2, <2>3
<1>13. CASE FileStays(j)
  <2>1. /\ pc' = [pc EXCEPT ![j] = "refused"] /\ upload' = upload
        /\ pc[j] \in {"running", "antiword"} /\ Kind(j) = "doc"
        /\ disk' = IF pc[j] = "running" THEN disk \ {OutDir(j), Profile(j)} ELSE disk
        /\ stuck' = stuck \cup {DocFile(j)}
    BY <1>13 DEF FileStays, Goes
  <2>2. StepOf(j)
    BY <2>1, Names DEF StepOf
  <2>3. OwnOK(j)'
    BY <2>1, <1>own, Names DEF OwnOK, Fresh, Kind, Ended, DiskInv, PcOK
  <2> QED
    BY <2>2, <2>3
<1>14. CASE CannotStart(j)
  <2>1. /\ \E to \in {"antiword", "refused"} : pc' = [pc EXCEPT ![j] = to]
        /\ Kind(j) = "doc" => pc' = [pc EXCEPT ![j] = "antiword"]
        /\ pc[j] = "attempt" /\ upload' = upload /\ disk' = disk /\ stuck' = stuck
    BY <1>14 DEF CannotStart, Raises, Goes
  <2>2. StepOf(j)
    BY <2>1 DEF StepOf
  <2>3. OwnOK(j)'
    BY <2>1, <1>own DEF OwnOK, Fresh, Kind, Ended, DiskInv, PcOK
  <2> QED
    BY <2>2, <2>3
<1>15. CASE DirsStay(j)
  <2>1. /\ \E to \in {"antiword", "refused"} : pc' = [pc EXCEPT ![j] = to]
        /\ Kind(j) = "doc" => pc' = [pc EXCEPT ![j] = "antiword"]
        /\ pc[j] = "running" /\ upload' = upload
    BY <1>15 DEF DirsStay, Raises, Goes
  <2>2. PICK left \in SUBSET {OutDir(j), Profile(j)} :
          /\ disk' = disk \ ({OutDir(j), Profile(j)} \ left)
          /\ stuck' = stuck \cup left
    BY <1>15 DEF DirsStay
  <2>3. StepOf(j)
    BY <2>1, <2>2, Names DEF StepOf
  <2>4. OwnOK(j)'
    BY <2>1, <2>2, <1>own, Names DEF OwnOK, Fresh, Kind, Ended, DiskInv, PcOK
  <2> QED
    BY <2>3, <2>4
<1> QED
  BY <1>2, <1>3, <1>4, <1>5, <1>6, <1>7, <1>8, <1>9, <1>10, <1>11, <1>12, <1>13, <1>14, <1>15
  DEF JobStep

\* A step that changes nothing keeps it too.
LEMMA StutterKeepsDisk == DiskInv /\ UNCHANGED vars => DiskInv'
BY DEF vars, DiskInv, PcOK, DiskIsOwn, Fresh, Kind, Ended

(***************************************************************************)
(* DiskIsOwn: the directories and the profile of a running LibreOffice are *)
(* there until its attempt is over, whatever other requests remove, and    *)
(* nothing is left behind by any way out but what could not be removed,    *)
(* for any number of requests.                                             *)
(***************************************************************************)
THEOREM NothingStaysOnDisk == Spec => []DiskIsOwn
<1>1. Init => DiskInv
  BY InitDiskInv
<1>2. DiskInv /\ [Next]_vars => DiskInv'
  BY JobStepKeeps, StutterKeepsDisk DEF Next
<1>3. DiskInv => DiskIsOwn
  BY DEF DiskInv
<1> QED
  BY <1>1, <1>2, <1>3, PTL DEF Spec

-------------------------------------------------------------------------------
(***************************************************************************)
(* Why a file is refused.                                                  *)
(***************************************************************************)
\* What holds of 0 and goes from each number to the next holds up to N.
LEMMA UpTo ==
  ASSUME NEW N \in Nat, NEW P, 0 \in P,
         \A k \in 0 .. N - 1 : k \in P => k + 1 \in P
  PROVE  0 .. N \subseteq P
<1> DEFINE T == (0 .. N) \ P
<1> SUFFICES ASSUME T # {} PROVE FALSE
  OBVIOUS
<1>1. T \subseteq Nat
  OBVIOUS
<1>2. PICK m \in T : \A n \in T : ~ (<<n, m>> \in OpToRel(<, Nat))
  <2> HIDE DEF T
  <2> QED
    BY <1>1, WFMin, NatLessThanWellFounded, Zenon
<1>3. m \in 1 .. N
  OBVIOUS
<1>4. m - 1 \notin T
  <2>1. m - 1 \in Nat /\ m \in Nat /\ m - 1 < m
    BY <1>3
  <2>2. <<m - 1, m>> \in OpToRel(<, Nat)
    BY <2>1, Zenon DEF OpToRel
  <2> QED
    BY <1>2, <2>2
<1> QED
  BY <1>3, <1>4


\* What a conversion can be asked to try.
TriedSuffixes ==
  {".ods", ".ppt", ".doc"} \cup {u.type : u \in Uploads}
    \cup {NormalSuffixes[n] : n \in 1 .. Len(NormalSuffixes)}

\* One suffix alone.
LEMMA OneSuffix ==
  ASSUME NEW x \in TriedSuffixes
  PROVE  /\ <<>> \in Seq(TriedSuffixes)
         /\ <<x>> \in Seq(TriedSuffixes) \ {<<>>}
         /\ ToSet(<<x>>) = {x}
         /\ Head(<<x>>) = x
         /\ Tail(<<x>>) = <<>>
<1>1. ASSUME NEW S, NEW e \in S PROVE <<>> \in Seq(S) /\ <<e>> \in Seq(S) \ {<<>>}
  OBVIOUS
<1>2. <<>> \in Seq(TriedSuffixes) /\ <<x>> \in Seq(TriedSuffixes) \ {<<>>}
  BY <1>1, Zenon
<1>3. DOMAIN <<x>> = {1} /\ <<x>>[1] = x
  OBVIOUS
<1>4. ToSet(<<x>>) = {x}
  BY <1>3 DEF ToSet
<1>5. Head(<<x>>) = x
  OBVIOUS
<1>6. Tail(<<x>>) = <<>>
  OBVIOUS
<1> QED
  BY <1>2, <1>4, <1>5, <1>6

\* A conversion has at least one suffix to try.
LEMMA SuffixesTyped ==
  ASSUME NEW type \in TriedSuffixes
  PROVE  SuffixList(type) \in Seq(TriedSuffixes) \ {<<>>}
<1> DEFINE N == Len(NormalSuffixes)
           First == IF type = "" THEN <<>> ELSE <<type>>
           Add(x, n) == IF NormalSuffixes[n] \in ToSet(x) THEN x ELSE Append(x, NormalSuffixes[n])
           Step(m, f) == [n \in 0 .. m |-> IF n = 0 THEN First ELSE Add(f[n - 1], n)]
           seen == CHOOSE f : f = Step(N, f)
           Defined == {m \in 0 .. N : \E f : f = Step(m, f)}
           Typed == {n \in 0 .. N : seen[n] \in Seq(TriedSuffixes) /\ (n > 0 => seen[n] # <<>>)}
<1>1. /\ N \in Nat /\ N > 0 /\ \A n \in 1 .. N : NormalSuffixes[n] \in TriedSuffixes
      /\ First \in Seq(TriedSuffixes)
  <2>1. NormalSuffixes \in Seq(STRING) /\ NormalSuffixes # <<>>
    BY UploadsAssumption
  <2>2. N \in Nat /\ N > 0
    BY <2>1, EmptySeq
  <2>3. \A n \in 1 .. N : NormalSuffixes[n] \in TriedSuffixes
    BY DEF TriedSuffixes
  <2>4. First \in Seq(TriedSuffixes)
    <3>1. <<>> \in Seq(TriedSuffixes) /\ <<type>> \in Seq(TriedSuffixes)
      BY OneSuffix
    <3> QED
      BY <3>1
  <2> QED
    BY <2>2, <2>3, <2>4
<1>2. \A x \in Seq(TriedSuffixes), n \in 1 .. N : Add(x, n) \in Seq(TriedSuffixes) /\ Add(x, n) # <<>>
  <2> SUFFICES ASSUME NEW x \in Seq(TriedSuffixes), NEW n \in 1 .. N
               PROVE  Add(x, n) \in Seq(TriedSuffixes) /\ Add(x, n) # <<>>
    OBVIOUS
  <2>1. Append(x, NormalSuffixes[n]) \in Seq(TriedSuffixes) /\ Append(x, NormalSuffixes[n]) # <<>>
    <3> DEFINE y == NormalSuffixes[n]
    <3>1. y \in TriedSuffixes
      BY <1>1
    <3> HIDE DEF y
    <3>2. Append(x, y) \in Seq(TriedSuffixes) /\ Append(x, y) # <<>>
      BY <3>1, AppendProperties
    <3> QED
      BY <3>2 DEF y
  <2>2. ToSet(<<>>) = {}
    BY DEF ToSet
  <2> QED
    BY <2>1, <2>2
<1> SUFFICES seen[N] \in Seq(TriedSuffixes) \ {<<>>}
  BY DEF SuffixList
<1> HIDE DEF N, First, Add
<1>3. seen = Step(N, seen)
  <2>1. 0 \in Defined
    <3>1. [n \in 0 .. 0 |-> First] = Step(0, [n \in 0 .. 0 |-> First])
      OBVIOUS
    <3>2. \E f : f = Step(0, f)
      <4> DEFINE f0 == [n \in 0 .. 0 |-> First]
      <4>1. f0 = Step(0, f0)
        BY <3>1
      <4> HIDE DEF f0, Step
      <4> QED
        BY <4>1
    <3>3. 0 \in 0 .. N
      BY <1>1
    <3> HIDE DEF Step
    <3> QED
      BY <3>2, <3>3
  <2>2. ASSUME NEW m \in 0 .. N - 1, m \in Defined PROVE m + 1 \in Defined
    <3>1. PICK f : f = Step(m, f)
      BY <2>2
    <3> DEFINE g == [n \in 0 .. m + 1 |-> IF n = m + 1 THEN Add(f[m], m + 1) ELSE f[n]]
    <3>2. m \in Nat /\ m + 1 \in 0 .. N
      BY <1>1
    <3>3. ASSUME NEW n \in 0 .. m + 1
          PROVE  g[n] = IF n = 0 THEN First ELSE Add(g[n - 1], n)
      <4>1. n # 0 => n - 1 \in 0 .. m + 1 /\ n - 1 # m + 1 /\ g[n - 1] = f[n - 1]
        BY <3>2
      <4>2. CASE n = m + 1
        <5>1. n - 1 = m /\ n # 0 /\ g[n] = Add(f[m], n)
          BY <3>2, <4>2
        <5> QED
          BY <4>1, <5>1
      <4>3. CASE n # m + 1
        <5>1. n \in 0 .. m /\ g[n] = f[n]
          BY <3>2, <4>3
        <5> HIDE DEF g
        <5>2. f[n] = IF n = 0 THEN First ELSE Add(f[n - 1], n)
          BY <3>1, <5>1
        <5> QED
          BY <4>1, <5>1, <5>2
      <4> QED
        BY <4>2, <4>3
    <3>4. g = Step(m + 1, g)
      BY <3>3
    <3> QED
      BY <3>2, <3>4
  <2> HIDE DEF Defined
  <2>3. \A m \in 0 .. N - 1 : m \in Defined => m + 1 \in Defined
    BY <2>2
  <2>4. 0 .. N \subseteq Defined
    BY <1>1, <2>1, <2>3, UpTo
  <2>5. N \in Defined
    BY <1>1, <2>4
  <2>6. \E f : f = Step(N, f)
    BY <2>5 DEF Defined
  <2> HIDE DEF Step
  <2> QED
    BY <2>6, Zenon
<1> HIDE DEF seen
<1>4. 0 \in Typed
  BY <1>1, <1>3
<1>5. ASSUME NEW n \in 0 .. N - 1, n \in Typed PROVE n + 1 \in Typed
  <2>1. n + 1 \in 1 .. N /\ n + 1 \in 0 .. N /\ n + 1 # 0 /\ (n + 1) - 1 = n
    BY <1>1
  <2>2. seen[n + 1] = Add(seen[n], n + 1)
    BY <1>3, <2>1
  <2> QED
    BY <1>2, <1>5, <2>1, <2>2
<1> HIDE DEF Typed
<1>6. \A n \in 0 .. N - 1 : n \in Typed => n + 1 \in Typed
  BY <1>5
<1>7. 0 .. N \subseteq Typed
  BY <1>1, <1>4, <1>6, UpTo
<1>8. N \in 0 .. N
  BY <1>1
<1> QED
  BY <1>1, <1>7, <1>8 DEF Typed

\* The suffix tried now and those after it.
LEMMA HeadAndTail ==
  ASSUME NEW s \in Seq(TriedSuffixes), s # <<>>
  PROVE  /\ Head(s) \in TriedSuffixes /\ Tail(s) \in Seq(TriedSuffixes)
         /\ ToSet(s) = {Head(s)} \cup ToSet(Tail(s))
         /\ Tail(s) = <<>> => ToSet(s) = {Head(s)}
<1>1. /\ Head(s) \in TriedSuffixes /\ Tail(s) \in Seq(TriedSuffixes)
      /\ Len(Tail(s)) = Len(s) - 1 /\ Len(s) \in Nat \ {0}
      /\ \A i \in 1 .. Len(Tail(s)) : Tail(s)[i] = s[i + 1]
      /\ Head(s) = s[1]
  BY HeadTailProperties, EmptySeq
<1> DEFINE t == Tail(s)
<1> HIDE DEF t
<1>2. ToSet(s) = {s[i] : i \in 1 .. Len(s)} /\ ToSet(t) = {t[i] : i \in 1 .. Len(s) - 1}
  <2>1. DOMAIN s = 1 .. Len(s) /\ DOMAIN t = 1 .. Len(t)
    BY <1>1 DEF t
  <2>2. Len(t) = Len(s) - 1
    BY <1>1 DEF t
  <2> QED
    BY <2>1, <2>2 DEF ToSet
<1>3. ToSet(s) = {s[1]} \cup ToSet(t)
  <2>1. \A i \in 2 .. Len(s) : i - 1 \in 1 .. Len(s) - 1 /\ s[i] = t[i - 1]
    BY <1>1 DEF t
  <2>2. \A i \in 1 .. Len(s) - 1 : i + 1 \in 1 .. Len(s) /\ t[i] = s[i + 1]
    BY <1>1 DEF t
  <2>3. 1 \in 1 .. Len(s)
    BY <1>1
  <2>4. ToSet(s) \subseteq {s[1]} \cup ToSet(t)
    <3> SUFFICES ASSUME NEW i \in 1 .. Len(s), i # 1 PROVE s[i] \in ToSet(t)
      BY <1>2
    <3>1. i \in 2 .. Len(s)
      BY <1>1
    <3> QED
      BY <1>2, <2>1, <3>1
  <2>5. {s[1]} \cup ToSet(t) \subseteq ToSet(s)
    BY <1>2, <2>2, <2>3
  <2> QED
    BY <2>4, <2>5
<1>4. t = <<>> => ToSet(t) = {}
  BY DEF ToSet
<1> QED
  BY <1>1, <1>3, <1>4 DEF t

\* The types of what the argument is about.
ReasonTypes ==
  /\ upload \in [Jobs -> Uploads]
  /\ data \in [Jobs -> File]
  /\ given \in [Jobs -> File]
  /\ pc \in [Jobs -> States]
  /\ todo \in [Jobs -> Seq(TriedSuffixes)]
  /\ runs \in [Jobs -> 0 .. MaxAttempts - 1]
  /\ DOMAIN ends = Jobs

Working(j) == pc[j] \in {"attempt", "running", "no soffice"}

\* No suffix is left for it, or something raised.
OutOfTries(j) ==
  \/ \A x \in ToTry(j) : GivenUp(j, x)
  \/ \E e \in ends[j] : e.how = "raised"

Refusable(j) ==
  \/ OutOfTries(j)
  \/ /\ Kind(j) = "sheet" /\ HasFormat(given[j]) /\ given[j].format # "ods"
     /\ given[j].format = "xlsx" => Unrepairable(given[j]) \/ BrokenByRepair(given[j])

\* While a conversion is under way, every suffix has been given up or is left,
\* and only a spreadsheet has more than one.
ReasonOK(j) ==
  /\ Working(j) => /\ todo[j] # <<>>
                   /\ \A x \in ToTry(j) : GivenUp(j, x) \/ x \in ToSet(todo[j])
                   /\ Kind(j) # "sheet" => Tail(todo[j]) = <<>> /\ ToTry(j) = {Head(todo[j])}
                   /\ Kind(j) = "sheet" => given[j] = data[j]
  /\ pc[j] = "no soffice" => ~ installed
  /\ pc[j] = "read" => /\ Kind(j) = "sheet"
                       /\ given[j] = data[j]
                       /\ OutOfTries(j)
  /\ pc[j] = "antiword" => Kind(j) = "doc" /\ OutOfTries(j)
  /\ pc[j] = "refused" => Refusable(j)
  /\ pc[j] = "done" /\ Kind(j) = "sheet" /\ data[j].format = "xlsx" =>
       Loads(data[j]) /\ ~ data[j].merged

ReasonInv == ReasonTypes /\ \A j \in Jobs : ReasonOK(j)

\* A step changes nothing of another request.
Alone(j) ==
  \A k \in Jobs \ {j} :
    /\ data'[k] = data[k]
    /\ given'[k] = given[k]
    /\ pc'[k] = pc[k]
    /\ todo'[k] = todo[k]
    /\ ends'[k] = ends[k]

\* What is given up stays so.
LEMMA GivenUpStays ==
  ASSUME NEW j \in Jobs, ends[j] \subseteq ends'[j], installed' = installed
  PROVE  /\ \A x : GivenUp(j, x) => GivenUp(j, x)'
         /\ (\E e \in ends[j] : e.how = "raised") => \E e \in ends'[j] : e.how = "raised"
BY DEF GivenUp

\* One more end of the conversion with this suffix gives it up.
LEMMA NewEnd ==
  ASSUME NEW j \in Jobs, NEW e \in ends'[j], e.how = "no soffice" => ~ installed',
         e.how = "failed" => e.runs = MaxAttempts
  PROVE  GivenUp(j, e.suffix)'
BY DEF GivenUp

\* Nothing has ended.
LEMMA SameEnds ==
  ASSUME NEW j \in Jobs, ends'[j] = ends[j], installed' = installed, ToTry(j)' = ToTry(j)
  PROVE  /\ \A x : GivenUp(j, x)' <=> GivenUp(j, x)
         /\ OutOfTries(j)' <=> OutOfTries(j)
BY DEF GivenUp, OutOfTries

\* There is a first attempt.
LEMMA Attempts == MaxAttempts \in Nat \ {0} /\ 0 \in 0 .. MaxAttempts - 1
<1>1. MaxAttempts \in Nat \ {0}
  BY UploadsAssumption
<1> QED
  BY <1>1

LEMMA ReasonLocal ==
  ASSUME ReasonInv, NEW j \in Jobs, ReasonTypes', UNCHANGED <<installed, upload>>, Alone(j),
         ReasonOK(j)'
  PROVE  ReasonInv'
<1> SUFFICES ASSUME NEW k \in Jobs \ {j} PROVE ReasonOK(k)'
  BY DEF ReasonInv
<1>1. ReasonOK(k)
  BY DEF ReasonInv
<1> QED
  <2>1. ToTry(k)' = ToTry(k) /\ Kind(k)' = Kind(k) /\ ends'[k] = ends[k]
    BY DEF Alone, ToTry, Kind
  <2>2. /\ \A x : GivenUp(k, x)' <=> GivenUp(k, x)
        /\ OutOfTries(k)' <=> OutOfTries(k)
    BY <2>1, SameEnds
  <2> QED
    BY <1>1, <2>1, <2>2 DEF Alone, ReasonOK, Working, Refusable

\* What loads after a repair: all but the two kinds named.
LEMMA RepairedLoads ==
  ASSUME NEW f \in File
  PROVE  /\ Repair(f) \in File
         /\ f.format = "xlsx" => Loads(Repair(f)) \/ Unrepairable(f) \/ BrokenByRepair(f)
         /\ FillMerged(f) \in File
         /\ Loads(f) => Loads(FillMerged(f)) /\ ~ FillMerged(f).merged
<1>1. Repair(f) \in File /\ FillMerged(f) \in File
  BY DEF Repair, FillMerged, File, Places
<1>2. f.format = "xlsx" => Loads(Repair(f)) \/ Unrepairable(f) \/ BrokenByRepair(f)
  BY DEF Repair, Unrepairable, BrokenByRepair, Loads, File, Places
<1>3. Loads(f) => Loads(FillMerged(f)) /\ ~ FillMerged(f).merged
  BY DEF Loads, FillMerged, File
<1> QED
  BY <1>1, <1>2, <1>3

\* What a step without a usable result leaves: the next suffix, or the reason
\* why there is none.
LEMMA EndKeeps ==
  ASSUME ReasonInv, NEW j \in Jobs, Working(j), NextSuffix(j), NEW how, NEW n, End(j, how, n),
         how = "no soffice" => ~ installed, how = "failed" => n = MaxAttempts,
         UNCHANGED <<installed, upload, data, given>>
  PROVE  ReasonTypes' /\ Alone(j) /\ ReasonOK(j)'
<1>1. ReasonTypes /\ ReasonOK(j)
  BY DEF ReasonInv
<1>2. /\ todo[j] \in Seq(TriedSuffixes) /\ todo[j] # <<>>
      /\ \A x \in ToTry(j) : GivenUp(j, x) \/ x \in ToSet(todo[j])
      /\ Kind(j) # "sheet" => Tail(todo[j]) = <<>>
      /\ Kind(j) = "sheet" => given[j] = data[j]
  BY <1>1 DEF ReasonOK, ReasonTypes
<1>3. /\ Head(todo[j]) \in TriedSuffixes /\ Tail(todo[j]) \in Seq(TriedSuffixes)
      /\ ToSet(todo[j]) = {Head(todo[j])} \cup ToSet(Tail(todo[j]))
      /\ Tail(todo[j]) = <<>> => ToSet(todo[j]) = {Head(todo[j])}
  BY <1>2, HeadAndTail
<1>e. PICK x, e : /\ x = Head(todo[j]) /\ e = [suffix |-> x, how |-> how, runs |-> n]
                  /\ e.suffix = x /\ e.how = how /\ e.runs = n
  <2> DEFINE y == Head(todo[j])
             r == [suffix |-> y, how |-> how, runs |-> n]
  <2>1. r.suffix = y /\ r.how = how /\ r.runs = n
    OBVIOUS
  <2>2. /\ y = Head(todo[j]) /\ r = [suffix |-> y, how |-> how, runs |-> n]
        /\ r.suffix = y /\ r.how = how /\ r.runs = n
    BY <2>1
  <2> HIDE DEF y, r
  <2> QED
    BY <2>2
<1>4. /\ todo' = [todo EXCEPT ![j] = Tail(todo[j])]
      /\ runs' = [runs EXCEPT ![j] = 0]
      /\ ends' = [ends EXCEPT ![j] = ends[j] \cup {e}]
      /\ pc' = [pc EXCEPT ![j] = IF Tail(todo[j]) = <<>> THEN Fallback(j)
                                 ELSE IF installed THEN "attempt" ELSE "no soffice"]
  BY <1>e DEF NextSuffix, End, Goes
<1>5. /\ Fallback(j) \in States /\ "attempt" \in States /\ "no soffice" \in States
      /\ 0 \in 0 .. MaxAttempts - 1
  BY Attempts DEF Fallback, States
<1>6. ReasonTypes' /\ Alone(j)
  BY <1>1, <1>3, <1>4, <1>5 DEF ReasonTypes, Alone
<1>7. /\ todo'[j] = Tail(todo[j]) /\ ends'[j] = ends[j] \cup {e}
      /\ pc'[j] = IF Tail(todo[j]) = <<>> THEN Fallback(j)
                  ELSE IF installed THEN "attempt" ELSE "no soffice"
      /\ ToTry(j)' = ToTry(j) /\ Kind(j)' = Kind(j) /\ given'[j] = given[j] /\ data'[j] = data[j]
  BY <1>1, <1>4 DEF ReasonTypes, ToTry, Kind
<1>7a. GivenUp(j, x)' /\ \A y : GivenUp(j, y) => GivenUp(j, y)'
  <2>1. GivenUp(j, x)'
    BY <1>e, <1>7, NewEnd
  <2> QED
    BY <2>1, <1>7, GivenUpStays
<1>8. CASE Tail(todo[j]) = <<>>
  <2>1. \A y \in ToTry(j)' : GivenUp(j, y)'
    BY <1>e, <1>2, <1>3, <1>7, <1>7a, <1>8
  <2>2. /\ pc'[j] \in {"antiword", "read", "refused"}
        /\ pc'[j] = "antiword" => Kind(j) = "doc"
        /\ pc'[j] = "read" => Kind(j) = "sheet"
    BY <1>7, <1>8 DEF Fallback
  <2>3. OutOfTries(j)'
    BY <2>1 DEF OutOfTries
  <2>4. ~ Working(j)' /\ pc'[j] # "done"
    BY <2>2 DEF Working
  <2>5. Kind(j)' = "sheet" => given'[j] = data'[j]
    BY <1>2, <1>7
  <2> QED
    BY <1>6, <1>7, <2>2, <2>3, <2>4, <2>5 DEF ReasonOK, Refusable
<1>9. CASE Tail(todo[j]) # <<>>
  <2>1. Kind(j) = "sheet"
    BY <1>2, <1>9
  <2>2. pc'[j] \in {"attempt", "no soffice"} /\ (pc'[j] = "no soffice" => ~ installed')
    BY <1>7, <1>9
  <2>3. \A y \in ToTry(j)' : GivenUp(j, y)' \/ y \in ToSet(Tail(todo[j]))
    BY <1>e, <1>2, <1>3, <1>7, <1>7a
  <2>4. /\ todo'[j] # <<>>
        /\ \A y \in ToTry(j)' : GivenUp(j, y)' \/ y \in ToSet(todo'[j])
        /\ Kind(j)' = "sheet" /\ given'[j] = data'[j]
    BY <1>2, <1>7, <1>9, <2>1, <2>3
  <2> QED
    BY <1>6, <2>2, <2>4 DEF ReasonOK, Working
<1> QED
  BY <1>6, <1>8, <1>9

\* An exception that leaves the attempts is a reason.
LEMMA RaisesKeeps ==
  ASSUME ReasonInv, NEW j \in Jobs, Working(j), Raises(j),
         UNCHANGED <<installed, upload, data, given, todo, runs>>
  PROVE  ReasonTypes' /\ Alone(j) /\ ReasonOK(j)'
<1>1. ReasonTypes
  BY DEF ReasonInv
<1> DEFINE e == [suffix |-> Head(todo[j]), how |-> "raised", runs |-> runs[j]]
           to == IF Kind(j) = "doc" THEN "antiword" ELSE "refused"
<1>2. /\ pc' = [pc EXCEPT ![j] = to]
      /\ ends' = [ends EXCEPT ![j] = ends[j] \cup {e}]
  BY DEF Raises, End, Goes
<1>3. e.how = "raised" /\ to \in States
  BY DEF States
<1>4. ReasonTypes' /\ Alone(j)
  BY <1>1, <1>2, <1>3 DEF ReasonTypes, Alone
<1>5. /\ ends'[j] = ends[j] \cup {e} /\ pc'[j] = to /\ Kind(j)' = Kind(j)
  BY <1>1, <1>2 DEF ReasonTypes, Kind
<1>6. OutOfTries(j)'
  BY <1>3, <1>5 DEF OutOfTries
<1>7. pc'[j] \in {"antiword", "refused"} /\ (pc'[j] = "antiword" => Kind(j)' = "doc")
  BY <1>5
<1> HIDE DEF e, to
<1> QED
  BY <1>4, <1>6, <1>7 DEF ReasonOK, Working, Refusable

\* A conversion that is asked for.
LEMMA ConvertKeeps ==
  ASSUME ReasonInv, NEW j \in Jobs, NEW ss \in Seq(TriedSuffixes) \ {<<>>}, Convert(j, ss),
         UNCHANGED <<installed, upload, data, ends>>, given' \in [Jobs -> File],
         \A k \in Jobs \ {j} : given'[k] = given[k],
         ToTry(j)' \subseteq ToSet(ss),
         Kind(j) # "sheet" => Tail(ss) = <<>> /\ ToTry(j)' = {Head(ss)},
         Kind(j) = "sheet" => given'[j] = data[j]
  PROVE  ReasonTypes' /\ Alone(j) /\ ReasonOK(j)'
<1>1. ReasonTypes
  BY DEF ReasonInv
<1>2. /\ todo' = [todo EXCEPT ![j] = ss]
      /\ runs' = [runs EXCEPT ![j] = 0]
      /\ pc' = [pc EXCEPT ![j] = IF installed THEN "attempt" ELSE "no soffice"]
  BY DEF Convert, Goes
<1>3. "attempt" \in States /\ "no soffice" \in States /\ 0 \in 0 .. MaxAttempts - 1
  BY Attempts DEF States
<1>4. ReasonTypes' /\ Alone(j)
  BY <1>1, <1>2, <1>3 DEF ReasonTypes, Alone
<1>5. /\ todo'[j] = ss /\ pc'[j] \in {"attempt", "no soffice"}
      /\ pc'[j] = "no soffice" => ~ installed'
      /\ Kind(j)' = Kind(j) /\ data'[j] = data[j]
  BY <1>1, <1>2 DEF ReasonTypes, Kind
<1>6. ReasonOK(j)'
  BY <1>5 DEF ReasonOK, Working
<1> QED
  BY <1>4, <1>6

\* Every step of a request is right for its own request.
LEMMA ReasonStep ==
  ASSUME ReasonInv, NEW j \in Jobs, JobStep(j)
  PROVE  ReasonInv'
<1>0. installed' = installed
  BY DEF JobStep, Normalize, ConvertOds, PrepareXlsx, ReadOther, KeepSlides, ConvertSlides,
         ConvertDoc, RunAntiword, CannotSave, FileStays, StartAttempt, CannotStart, DirsStay,
         NoSoffice, Fail, TimeOut, TakeSheet, RejectSheet, TakeSlides, TakeDoc
<1>1. SUFFICES upload' = upload /\ ReasonTypes' /\ Alone(j) /\ ReasonOK(j)'
  BY <1>0, ReasonLocal
<1>2. /\ ReasonTypes /\ ReasonOK(j) /\ data[j] \in File /\ data \in [Jobs -> File]
      /\ upload[j] \in Uploads /\ upload[j].type \in TriedSuffixes
      /\ Kind(j) \in {"sheet", "slides", "doc"}
  <2>1. ReasonTypes /\ ReasonOK(j) /\ data[j] \in File /\ data \in [Jobs -> File] /\ upload[j] \in Uploads
    BY DEF ReasonInv, ReasonTypes
  <2>2. upload[j].kind \in {"sheet", "slides", "doc"}
    BY <2>1, UploadsAssumption
  <2>3. upload[j].type \in TriedSuffixes
    BY <2>1 DEF TriedSuffixes
  <2> QED
    BY <2>1, <2>2, <2>3 DEF Kind
<1> USE DEF States
<1>3. CASE Normalize(j)
  <2>1. /\ Kind(j) = "sheet" /\ ~ HasFormat(data[j])
        /\ Convert(j, SuffixList(upload[j].type))
        /\ given' = [given EXCEPT ![j] = data[j]]
        /\ UNCHANGED <<installed, upload, data, ends>>
    BY <1>3 DEF Normalize
  <2>2. ToTry(j)' = ToSet(SuffixList(upload[j].type))
    BY <1>2, <2>1 DEF ToTry, Kind, ReasonTypes, HasFormat
  <2>3. SuffixList(upload[j].type) \in Seq(TriedSuffixes) \ {<<>>}
    BY <1>2, SuffixesTyped
  <2> QED
    BY <1>2, <2>1, <2>2, <2>3, ConvertKeeps DEF ReasonTypes
<1>4. CASE ConvertOds(j)
  <2>1. /\ Kind(j) = "sheet" /\ data[j].format = "ods"
        /\ Convert(j, <<".ods">>)
        /\ given' = [given EXCEPT ![j] = data[j]]
        /\ UNCHANGED <<installed, upload, data, ends>>
    BY <1>4 DEF ConvertOds
  <2>2. ToTry(j)' = {".ods"}
    BY <1>2, <2>1 DEF ToTry, Kind, ReasonTypes
  <2> DEFINE x == ".ods"
  <2>3. x \in TriedSuffixes
    BY DEF TriedSuffixes
  <2>4. <<x>> \in Seq(TriedSuffixes) \ {<<>>} /\ ToSet(<<x>>) = {x}
    <3> HIDE DEF x
    <3> QED
      BY <2>3, OneSuffix
  <2> QED
    BY <1>2, <2>1, <2>2, <2>4, ConvertKeeps DEF ReasonTypes
<1>5. CASE ConvertSlides(j) \/ ConvertDoc(j)
  <2>1. PICK x \in {".ppt", ".doc"} :
          /\ Convert(j, <<x>>)
          /\ Kind(j) # "sheet" /\ ToTry(j) = {x}
          /\ UNCHANGED <<installed, upload, data, ends, given>>
    BY <1>5 DEF ConvertSlides, ConvertDoc, ToTry
  <2>2. ToTry(j)' = {x}
    BY <2>1 DEF ToTry, Kind
  <2>3. x \in TriedSuffixes
    BY DEF TriedSuffixes
  <2>4. <<x>> \in Seq(TriedSuffixes) \ {<<>>} /\ ToSet(<<x>>) = {x} /\ Head(<<x>>) = x /\ Tail(<<x>>) = <<>>
    BY <2>3, OneSuffix
  <2> QED
    BY <1>2, <2>1, <2>2, <2>4, ConvertKeeps DEF ReasonTypes
<1>6. CASE PrepareXlsx(j)
  <2> DEFINE f == Repair(data[j])
  <2>1. /\ Kind(j) = "sheet" /\ data[j].format \in {"xlsx", "zip"}
        /\ given' = [given EXCEPT ![j] = data[j]]
        /\ UNCHANGED <<installed, upload, todo, runs, ends>>
        /\ \/ /\ Loads(f)
              /\ data' = [data EXCEPT ![j] = FillMerged(f)]
              /\ pc' = [pc EXCEPT ![j] = "done"]
           \/ /\ ~ Loads(f)
              /\ data' = [data EXCEPT ![j] = f]
              /\ pc' = [pc EXCEPT ![j] = "refused"]
    BY <1>6 DEF PrepareXlsx, Goes
  <2>2. /\ f \in File /\ FillMerged(f) \in File
        /\ data[j].format = "xlsx" =>
             Loads(f) \/ Unrepairable(data[j]) \/ BrokenByRepair(data[j])
        /\ Loads(f) => Loads(FillMerged(f)) /\ ~ FillMerged(f).merged
    <3>1. /\ f \in File
          /\ data[j].format = "xlsx" =>
               Loads(f) \/ Unrepairable(data[j]) \/ BrokenByRepair(data[j])
      BY <1>2, RepairedLoads
    <3> HIDE DEF f
    <3>2. /\ FillMerged(f) \in File
          /\ Loads(f) => Loads(FillMerged(f)) /\ ~ FillMerged(f).merged
      BY <3>1, RepairedLoads
    <3> QED
      BY <3>1, <3>2
  <2> HIDE DEF f
  <2>3. ReasonTypes' /\ Alone(j)
    <3>1. PICK g \in File : data' = [data EXCEPT ![j] = g]
      BY <2>1, <2>2
    <3>2. \E to \in {"done", "refused"} : pc' = [pc EXCEPT ![j] = to]
      BY <2>1
    <3> QED
      BY <1>2, <2>1, <3>1, <3>2 DEF ReasonTypes, Alone
  <2>4. given'[j] = data[j] /\ Kind(j)' = "sheet" /\ ~ Working(j)' /\ pc'[j] \in {"done", "refused"}
    BY <1>2, <2>1 DEF ReasonTypes, Kind, Working
  <2>5. CASE Loads(f)
    <3>1. data'[j] = FillMerged(f) /\ pc'[j] = "done"
      BY <1>2, <2>1, <2>5 DEF ReasonTypes
    <3> QED
      BY <2>1, <2>2, <2>3, <2>4, <2>5, <3>1 DEF ReasonOK
  <2>6. CASE ~ Loads(f)
    <3>1. pc'[j] = "refused"
      BY <1>2, <2>1, <2>6 DEF ReasonTypes
    <3>2. Refusable(j)'
      BY <2>1, <2>2, <2>4, <2>6 DEF Refusable, HasFormat
    <3> QED
      BY <2>1, <2>3, <2>4, <3>1, <3>2 DEF ReasonOK
  <2> QED
    BY <2>5, <2>6
<1>7. CASE ReadOther(j)
  <2>1. /\ given' = [given EXCEPT ![j] = data[j]]
        /\ UNCHANGED <<installed, upload, data, todo, runs, ends>>
        /\ \/ pc' = [pc EXCEPT ![j] = "done"] /\ data[j].format \in {"xls", "ods"}
           \/ pc' = [pc EXCEPT ![j] = "refused"]
        /\ \/ pc[j] = "read"
           \/ Kind(j) = "sheet" /\ data[j].format \in {"xls", "xlsb", "truncated"}
    BY <1>7 DEF ReadOther, Goes
  <2>2. ReasonTypes' /\ Alone(j)
    BY <1>2, <2>1 DEF ReasonTypes, Alone
  <2>3. /\ given'[j] = data[j] /\ Kind(j)' = Kind(j) /\ ~ Working(j)'
        /\ pc'[j] \in {"done", "refused"}
        /\ pc'[j] = "done" => data'[j].format # "xlsx"
    BY <1>2, <2>1 DEF ReasonTypes, Kind, Working
  <2>4. Refusable(j)'
    <3>1. CASE pc[j] = "read"
      <4>1. given[j] = data[j] /\ OutOfTries(j)
        BY <1>2, <3>1 DEF ReasonOK
      <4>2. ToTry(j)' = ToTry(j)
        BY <2>1, <2>3, <4>1 DEF ToTry
      <4> QED
        BY <2>1, <4>1, <4>2, SameEnds DEF Refusable
    <3>2. CASE Kind(j) = "sheet" /\ data[j].format \in {"xls", "xlsb", "truncated"}
      BY <2>3, <3>2 DEF Refusable, HasFormat
    <3> QED
      BY <2>1, <3>1, <3>2
  <2> QED
    BY <2>1, <2>2, <2>3, <2>4 DEF ReasonOK
<1>8. CASE KeepSlides(j) \/ RunAntiword(j)
  <2>1. /\ UNCHANGED <<installed, upload, data, given, todo, runs, ends>> /\ Kind(j) # "sheet"
        /\ \/ pc' = [pc EXCEPT ![j] = "done"]
           \/ pc' = [pc EXCEPT ![j] = "refused"] /\ pc[j] = "antiword"
    BY <1>2, <1>8 DEF KeepSlides, RunAntiword, Goes, ReasonOK
  <2>2. ReasonTypes' /\ Alone(j)
    BY <1>2, <2>1 DEF ReasonTypes, Alone
  <2>3. /\ Kind(j)' # "sheet" /\ ~ Working(j)' /\ pc'[j] \in {"done", "refused"}
        /\ ToTry(j)' = ToTry(j)
        /\ pc'[j] = "refused" => pc[j] = "antiword"
    BY <1>2, <2>1 DEF ReasonTypes, Kind, Working, ToTry
  <2>4. pc'[j] = "refused" => OutOfTries(j)'
    BY <1>2, <2>1, <2>3, SameEnds DEF ReasonOK
  <2> QED
    BY <2>1, <2>2, <2>3, <2>4 DEF ReasonOK, Refusable
<1>9. CASE StartAttempt(j) \/ (Fail(j) /\ runs[j] + 1 < MaxAttempts)
  <2>1. /\ UNCHANGED <<installed, upload, data, given, todo, ends>> /\ Working(j)
        /\ \E to \in {"attempt", "running"} : pc' = [pc EXCEPT ![j] = to]
        /\ runs' = runs \/ (Fail(j) /\ runs[j] + 1 < MaxAttempts)
    <3>1. CASE StartAttempt(j)
      BY <3>1 DEF StartAttempt, Goes, Working
    <3>2. CASE Fail(j) /\ runs[j] + 1 < MaxAttempts
      BY <3>2, Zenon DEF Fail, Goes, Working
    <3> QED
      BY <1>9, <3>1, <3>2
  <2>2. runs' \in [Jobs -> 0 .. MaxAttempts - 1]
    <3>1. runs \in [Jobs -> 0 .. MaxAttempts - 1]
      BY <1>2 DEF ReasonTypes
    <3>2. CASE Fail(j) /\ runs[j] + 1 < MaxAttempts
      <4>1. runs' = [runs EXCEPT ![j] = runs[j] + 1]
        BY <3>2 DEF Fail
      <4>2. runs[j] + 1 \in 0 .. MaxAttempts - 1
        BY <3>1, <3>2, Attempts
      <4> QED
        BY <3>1, <4>1, <4>2
    <3> QED
      BY <2>1, <3>1, <3>2
  <2>3. ReasonTypes' /\ Alone(j)
    BY <1>2, <2>1, <2>2 DEF ReasonTypes, Alone
  <2>4. pc'[j] \in {"attempt", "running"} /\ ToTry(j)' = ToTry(j) /\ Kind(j)' = Kind(j)
    BY <1>2, <2>1 DEF ReasonTypes, ToTry, Kind
  <2>5. \A x : GivenUp(j, x)' <=> GivenUp(j, x)
    BY <2>1 DEF GivenUp
  <2> QED
    BY <1>2, <2>1, <2>3, <2>4, <2>5 DEF ReasonOK, Working
<1>10. CASE NoSoffice(j) \/ TimeOut(j) \/ \E f \in Products \cup {data[j]} : RejectSheet(j, f)
  <2>1. PICK how \in {"no soffice", "timed out", "rejected"}, n \in {0, runs[j] + 1} :
          /\ End(j, how, n)
          /\ how = "no soffice" => pc[j] = "no soffice"
    BY <1>10 DEF NoSoffice, TimeOut, RejectSheet
  <2>2. /\ Working(j) /\ NextSuffix(j) /\ UNCHANGED <<installed, upload, data, given>>
    BY <1>10 DEF NoSoffice, TimeOut, RejectSheet, Working
  <2>3. how = "no soffice" => ~ installed
    BY <1>2, <2>1 DEF ReasonOK
  <2> QED
    BY <2>1, <2>2, <2>3, EndKeeps
<1>11. CASE Fail(j) /\ ~ (runs[j] + 1 < MaxAttempts)
  <2>1. /\ Working(j) /\ NextSuffix(j) /\ UNCHANGED <<installed, upload, data, given>>
        /\ End(j, "failed", runs[j] + 1)
    BY <1>11 DEF Fail, Working
  <2>2. runs[j] + 1 = MaxAttempts
    <3>1. runs[j] \in 0 .. MaxAttempts - 1
      BY <1>2 DEF ReasonTypes
    <3> QED
      BY <1>11, <3>1, Attempts
  <2> DEFINE n == runs[j] + 1
             how == "failed"
  <2>3. End(j, how, n) /\ n = MaxAttempts /\ how # "no soffice"
    BY <2>1, <2>2
  <2> HIDE DEF n, how
  <2> QED
    BY <2>1, <2>3, EndKeeps
<1>14. CASE CannotStart(j) \/ DirsStay(j)
  <2>1. /\ Working(j) /\ Raises(j) /\ UNCHANGED <<installed, upload, data, given, todo, runs>>
    BY <1>14 DEF CannotStart, DirsStay, Working
  <2> QED
    BY <2>1, RaisesKeeps
<1>15. CASE CannotSave(j) \/ FileStays(j)
  <2>1. PICK e : e.how = "raised" /\ ends' = [ends EXCEPT ![j] = ends[j] \cup {e}]
    BY <1>15 DEF CannotSave, FileStays
  <2>2. /\ UNCHANGED <<installed, upload, data, given, todo, runs>>
        /\ pc' = [pc EXCEPT ![j] = "refused"]
    BY <1>15 DEF CannotSave, FileStays, Goes
  <2>3. ReasonTypes' /\ Alone(j)
    BY <1>2, <2>1, <2>2 DEF ReasonTypes, Alone
  <2>4. pc'[j] = "refused" /\ e \in ends'[j]
    BY <1>2, <2>1, <2>2 DEF ReasonTypes
  <2>5. OutOfTries(j)'
    BY <2>1, <2>4 DEF OutOfTries
  <2> QED
    BY <2>2, <2>3, <2>4, <2>5 DEF ReasonOK, Working, Refusable
<1>12. ASSUME NEW f \in Products \cup {data[j]}, TakeSheet(j, f)
       PROVE  upload' = upload /\ ReasonTypes' /\ Alone(j) /\ ReasonOK(j)'
  <2>1. /\ data' = [data EXCEPT ![j] = f] /\ todo' = [todo EXCEPT ![j] = <<>>]
        /\ pc' = [pc EXCEPT ![j] = "open"] /\ UNCHANGED <<installed, upload, given, runs, ends>>
    BY <1>12 DEF TakeSheet, Goes
  <2>2. f \in File
    BY <1>2, ProductsAssumption
  <2>3. <<>> \in Seq(TriedSuffixes)
    OBVIOUS
  <2>4. ReasonTypes' /\ Alone(j)
    BY <1>2, <2>1, <2>2, <2>3 DEF ReasonTypes, Alone
  <2>5. pc'[j] = "open"
    BY <1>2, <2>1 DEF ReasonTypes
  <2> QED
    BY <2>1, <2>4, <2>5 DEF ReasonOK, Working
<1>13. CASE TakeSlides(j) \/ TakeDoc(j)
  <2>1. /\ UNCHANGED <<installed, upload, data, given, todo, runs>> /\ Working(j) /\ Kind(j) # "sheet"
        /\ \/ pc' = [pc EXCEPT ![j] = "done"] /\ ends' = ends
           \/ /\ pc' = [pc EXCEPT ![j] = IF Kind(j) = "doc" THEN "antiword" ELSE "refused"]
              /\ End(j, "rejected", runs[j] + 1)
    BY <1>13 DEF TakeSlides, TakeDoc, Goes, Working
  <2>2. ToTry(j) = {Head(todo[j])}
    BY <1>2, <2>1 DEF ReasonOK
  <2>3. Kind(j)' = Kind(j) /\ ToTry(j)' = ToTry(j)
    BY <2>1 DEF Kind, ToTry
  <2>4. CASE pc' = [pc EXCEPT ![j] = "done"] /\ ends' = ends
    <3>1. ReasonTypes' /\ Alone(j)
      BY <1>2, <2>1, <2>4 DEF ReasonTypes, Alone
    <3>2. pc'[j] = "done"
      BY <1>2, <2>4 DEF ReasonTypes
    <3> QED
      BY <2>1, <2>3, <3>1, <3>2 DEF ReasonOK, Working
  <2>5. CASE /\ pc' = [pc EXCEPT ![j] = IF Kind(j) = "doc" THEN "antiword" ELSE "refused"]
             /\ End(j, "rejected", runs[j] + 1)
    <3>e. PICK x, e : /\ x = Head(todo[j])
                      /\ e = [suffix |-> x, how |-> "rejected", runs |-> runs[j] + 1]
                      /\ e.suffix = x /\ e.how = "rejected"
      <4> DEFINE y == Head(todo[j])
                 r == [suffix |-> y, how |-> "rejected", runs |-> runs[j] + 1]
      <4>1. r.suffix = y /\ r.how = "rejected"
        OBVIOUS
      <4>2. /\ y = Head(todo[j]) /\ r = [suffix |-> y, how |-> "rejected", runs |-> runs[j] + 1]
            /\ r.suffix = y /\ r.how = "rejected"
        BY <4>1
      <4> HIDE DEF y, r
      <4> QED
        BY <4>2
    <3> DEFINE to == IF Kind(j) = "doc" THEN "antiword" ELSE "refused"
    <3>1. /\ ends' = [ends EXCEPT ![j] = ends[j] \cup {e}] /\ pc' = [pc EXCEPT ![j] = to]
          /\ to \in {"antiword", "refused"}
          /\ to = "antiword" => Kind(j) = "doc"
      BY <2>5, <3>e DEF End
    <3> HIDE DEF to
    <3>2. ReasonTypes' /\ Alone(j)
      BY <1>2, <2>1, <3>1 DEF ReasonTypes, Alone
    <3>3. pc'[j] = to /\ e \in ends'[j]
      BY <1>2, <3>1 DEF ReasonTypes
    <3>4. GivenUp(j, x)'
      BY <3>e, <3>3, NewEnd
    <3>5. OutOfTries(j)'
      BY <2>1, <2>2, <2>3, <3>e, <3>4 DEF OutOfTries
    <3> QED
      BY <2>1, <2>3, <3>1, <3>2, <3>3, <3>5 DEF ReasonOK, Working, Refusable
  <2> QED
    BY <2>1, <2>4, <2>5
<1> QED
  BY <1>3, <1>4, <1>5, <1>6, <1>7, <1>8, <1>9, <1>10, <1>11, <1>12, <1>13, <1>14, <1>15 DEF JobStep

\* A step that changes nothing keeps the reasons.
LEMMA StutterKeepsReason == ReasonInv /\ UNCHANGED vars => ReasonInv'
<1> SUFFICES ASSUME ReasonInv, UNCHANGED vars PROVE ReasonInv'
  OBVIOUS
<1>1. ReasonTypes' /\ UNCHANGED <<installed, upload>>
  BY DEF vars, ReasonInv, ReasonTypes
<1>2. ASSUME NEW k \in Jobs PROVE ReasonOK(k)'
  <2>1. ReasonOK(k)
    BY DEF ReasonInv
  <2> QED
    BY <2>1, SameEnds DEF vars, ReasonOK, Working, Refusable, ToTry, Kind
<1> QED
  BY <1>1, <1>2 DEF ReasonInv

(***************************************************************************)
(* A file is refused for a reason: each suffix of the conversion it needs  *)
(* has been given up, LibreOffice being missing, late, useless, or run and *)
(* failed MaxAttempts times; or something raised; or its format is known,  *)
(* needs no conversion, and is not xlsx, or the workbook is one that is    *)
(* not repaired, or one that the repair itself breaks.                     *)
(***************************************************************************)
THEOREM RefusalsHaveReasons == Spec => []RefusedForAReason
<1>1. Init => ReasonInv
  <2> SUFFICES ASSUME Init PROVE ReasonInv
    OBVIOUS
  <2>1. <<>> \in Seq(TriedSuffixes) /\ 0 \in 0 .. MaxAttempts - 1 /\ "open" \in States
    BY Attempts DEF States
  <2>2. ReasonTypes
    BY <2>1, UploadsAssumption DEF Init, ReasonTypes
  <2>3. \A j \in Jobs : pc[j] = "open"
    BY DEF Init
  <2> QED
    BY <2>2, <2>3 DEF ReasonInv, ReasonOK, Working
<1>2. ReasonInv /\ [Next]_vars => ReasonInv'
  <2>1. Next => \E j \in Jobs : JobStep(j)
    BY DEF Next
  <2> QED
    BY <2>1, ReasonStep, StutterKeepsReason
<1>3. ReasonInv => RefusedForAReason
  BY DEF ReasonInv, ReasonOK, Refusable, OutOfTries, RefusedForAReason
<1> QED
  BY <1>1, <1>2, <1>3, PTL DEF Spec
===============================================================================
