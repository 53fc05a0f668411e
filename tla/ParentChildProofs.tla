--------------------------- MODULE ParentChildProofs ---------------------------
(***************************************************************************)
(* For every document, every pair of configurations, and whatever the      *)
(* tiers make of the texts they are given: one repaired configuration is   *)
(* used for all parents, every child is linked to the parent it was cut    *)
(* from, and no text is lost between the two levels.                       *)
(***************************************************************************)
EXTENDS ParentChild, FiniteSetTheorems, TLAPS

\* The chunks of a tier, and the children.
Piece == [start : Nat, end : Nat, extra : Nat]

Index == {k \in Int : k >= -1}

ChildRecord == [seq : Nat, start : Nat, end : Nat, index : Index, from : Nat, sub : Piece]

TypesOK ==
  /\ doc \in Document
  /\ childCfg \in Config
  /\ reach \in Nat
  /\ out \in Seq(Piece)
  /\ parents \in Seq(Piece)
  /\ current \in 0 .. Len(parents)
  /\ newParents \in Seq(Piece)
  /\ children \in Seq(ChildRecord)

-------------------------------------------------------------------------------
(***************************************************************************)
(* The configuration.                                                      *)
(***************************************************************************)
InLimits(c) ==
  /\ c.size > 0 /\ c.budget > 0 => c.size <= c.budget
  /\ 0 <= c.overlap /\ 2 * c.overlap <= c.size

\* A second repair changes nothing, even where the first one made the overlap
\* zero, which stands for the default.
LEMMA RepairSettles ==
  ASSUME NEW c \in Config
  PROVE  LET d == EnsureDefaults(c)
         IN  d \in Config /\ EnsureDefaults(d) = d /\ InLimits(d)
<1> DEFINE size == IF c.size <= 0 THEN DefaultSize ELSE c.size
           overlap == IF c.overlap <= 0 THEN DefaultOverlap ELSE c.overlap
           fits == IF c.budget > 0 /\ c.budget < size THEN c.budget ELSE size
           lap == IF overlap > fits \div 2 THEN fits \div 2 ELSE overlap
           d == EnsureDefaults(c)
<1>1. c.size \in Int /\ c.overlap \in Int /\ c.budget \in Nat /\ c.strategy \in Strategies
  BY DEF Config
<1>2. size \in Nat /\ size > 0 /\ overlap \in Nat /\ overlap > 0
  BY <1>1, InputsAssumption
<1>3. fits \in Nat /\ fits > 0 /\ (c.budget > 0 => fits <= c.budget)
  BY <1>1, <1>2
<1>4. lap \in Nat /\ lap <= fits \div 2 /\ (lap = 0 => fits \div 2 = 0) /\ 2 * lap <= fits
  BY <1>2, <1>3
<1>5. d = [c EXCEPT !.size = fits, !.overlap = lap]
  BY DEF EnsureDefaults
<1> HIDE DEF size, overlap, fits, lap
<1>6. c = [size |-> c.size, overlap |-> c.overlap, budget |-> c.budget, strategy |-> c.strategy]
  BY DEF Config
<1>7. d = [size |-> fits, overlap |-> lap, budget |-> c.budget, strategy |-> c.strategy]
  BY <1>5, <1>6
<1> HIDE DEF d
<1>8. d.size = fits /\ d.overlap = lap /\ d.budget = c.budget
  BY <1>7
<1>9. d \in Config
  BY <1>1, <1>3, <1>4, <1>7 DEF Config
<1>10. InLimits(d)
  BY <1>3, <1>4, <1>8 DEF InLimits
<1>11. EnsureDefaults(d) = d
  <2>1. (IF d.size <= 0 THEN DefaultSize ELSE d.size) = fits
    BY <1>3, <1>8
  <2>2. (IF d.budget > 0 /\ d.budget < fits THEN d.budget ELSE fits) = fits
    BY <1>1, <1>3, <1>8
  <2> DEFINE again == IF d.overlap <= 0 THEN DefaultOverlap ELSE d.overlap
  <2>3. (IF again > fits \div 2 THEN fits \div 2 ELSE again) = lap
    <3>1. CASE lap = 0
      BY <1>3, <1>4, <1>8, <3>1, InputsAssumption
    <3>2. CASE lap # 0
      BY <1>3, <1>4, <1>8, <3>2
    <3> QED
      BY <3>1, <3>2
  <2>4. EnsureDefaults(d) = [d EXCEPT !.size = fits, !.overlap = lap]
    BY <2>1, <2>2, <2>3 DEF EnsureDefaults
  <2> QED
    BY <1>7, <2>4
<1> QED
  BY <1>9, <1>10, <1>11 DEF d

ConfigOK ==
  IF pc = "start" THEN repaired = {}
  ELSE /\ repaired = {childCfg}
       /\ EnsureDefaults(childCfg) = childCfg
       /\ InLimits(childCfg)

-------------------------------------------------------------------------------
(***************************************************************************)
(* The chunks of the text in hand, and what is known of the two levels.    *)
(***************************************************************************)
\* Every character up to r that is not blank is in one of the chunks.
CoversTo(o, r) ==
  \A q \in 0 .. r - 1 : Blank(q) \/ \E k \in DOMAIN o : o[k].start <= q /\ q < o[k].end

TierOK ==
  pc \in {"run", "answered"} =>
    /\ \A k \in DOMAIN out : out[k].end <= TextLen
    /\ CoversTo(out, reach)
    /\ pc = "answered" => reach = TextLen

ParentsOK ==
  current > 0 \/ pc = "done" =>
    \A p \in 0 .. doc.len - 1 :
      p \in doc.blank \/ \E j \in DOMAIN parents : parents[j].start <= p /\ p < parents[j].end

Linked(child) ==
  LET c == parents[child.from]
  IN  /\ child.from \in DOMAIN parents
      /\ IF child.index = -1
         THEN child.sub.start = 0 /\ child.sub.end = ContentLen(c)
         ELSE child.index < Len(newParents) /\ newParents[child.index + 1] = c
      /\ child.start = child.sub.start + c.start
      /\ child.end = child.sub.end + c.start
      /\ child.sub.end <= ContentLen(c)

LinksOK ==
  /\ current = 0 => children = <<>> /\ newParents = <<>>
  /\ \A i \in DOMAIN children : children[i].seq = i - 1 /\ Linked(children[i])

ChildrenOK ==
  \A j \in DOMAIN parents :
    j < current \/ pc = "done" =>
      \A p \in Nat :
        parents[j].start <= p /\ p < parents[j].end =>
          p \in doc.blank
          \/ \E i \in DOMAIN children : children[i].from = j /\ Shows(children[i], p)

SplitInv ==
  /\ TypesOK
  /\ ConfigOK
  /\ TierOK
  /\ ParentsOK
  /\ LinksOK
  /\ ChildrenOK

\* Nothing has been cut.
LEMMA InitSplitInv == Init => SplitInv
<1> SUFFICES ASSUME Init PROVE SplitInv
  OBVIOUS
<1>1. TypesOK
  BY InputsAssumption DEF Init, TypesOK
<1>2. ConfigOK /\ TierOK /\ ParentsOK
  BY DEF Init, ConfigOK, TierOK, ParentsOK
<1>3. LinksOK /\ ChildrenOK
  BY DEF Init, LinksOK, ChildrenOK
<1> QED
  BY <1>1, <1>2, <1>3 DEF SplitInv

\* The text in hand stays the same, and so does what is known of both levels.
LEMMA SameText ==
  ASSUME UNCHANGED <<doc, parents, current>>
  PROVE  TextLen' = TextLen /\ \A q : Blank(q)' = Blank(q)
BY DEF TextLen, Blank, OfParent, Parent, ContentLen, Place

LEMMA SameLevels ==
  ASSUME SplitInv, UNCHANGED <<doc, parents, current, newParents, children>>,
         pc # "done", pc' # "done"
  PROVE  ParentsOK' /\ LinksOK' /\ ChildrenOK'
BY DEF SplitInv, ParentsOK, LinksOK, Linked, ContentLen, ChildrenOK, Shows

\* The configurations are repaired for the first time.
LEMMA StartKeepsSplit ==
  ASSUME SplitInv, Start
  PROVE  SplitInv'
<1>1. /\ UNCHANGED <<doc, reach, out, parents, current, newParents, children>>
      /\ pc = "start" /\ pc' = "split"
      /\ childCfg' = EnsureDefaults(childCfg) /\ repaired' = {childCfg'}
  BY DEF Start, splitVars, resultVars
<1>2. /\ childCfg' \in Config /\ EnsureDefaults(childCfg') = childCfg' /\ InLimits(childCfg')
  BY <1>1, RepairSettles DEF SplitInv, TypesOK
<1>3. TypesOK'
  BY <1>1, <1>2 DEF SplitInv, TypesOK
<1>4. ConfigOK' /\ TierOK'
  <2>1. EnsureDefaults(childCfg)' = EnsureDefaults(childCfg')
    BY DEF EnsureDefaults
  <2> QED
    BY <1>1, <1>2, <2>1 DEF ConfigOK, TierOK, InLimits
<1> QED
  BY <1>1, <1>3, <1>4, SameLevels DEF SplitInv

\* A tier is chosen; its configuration is repaired once more.
LEMMA ResolveKeepsSplit ==
  ASSUME SplitInv, Resolve
  PROVE  SplitInv'
<1>1. /\ UNCHANGED <<doc, parents, current, newParents, children>>
      /\ pc = "split" /\ pc' = "run" /\ reach' = 0 /\ out' = <<>>
      /\ \/ childCfg' = EnsureDefaults(childCfg) /\ repaired' = repaired \cup {childCfg'}
         \/ childCfg' = childCfg /\ repaired' = repaired
  BY DEF Resolve, resultVars
<1>2. /\ repaired = {childCfg} /\ EnsureDefaults(childCfg) = childCfg /\ InLimits(childCfg)
  BY <1>1 DEF SplitInv, ConfigOK
<1>3. childCfg' = childCfg /\ repaired' = repaired
  BY <1>1, <1>2
<1>4. TypesOK'
  BY <1>1, <1>3 DEF SplitInv, TypesOK
<1>5. ConfigOK'
  <2>1. EnsureDefaults(childCfg)' = EnsureDefaults(childCfg)
    BY <1>3 DEF EnsureDefaults
  <2> QED
    BY <1>1, <1>2, <1>3, <2>1 DEF ConfigOK, InLimits
<1>6. TierOK'
  BY <1>1 DEF TierOK, CoversTo
<1> QED
  BY <1>1, <1>4, <1>5, <1>6, SameLevels DEF SplitInv

\* The configuration is not touched.
LEMMA SameConfig ==
  ASSUME ConfigOK, UNCHANGED <<childCfg, repaired>>, pc # "start", pc' # "start"
  PROVE  ConfigOK'
BY DEF ConfigOK, EnsureDefaults, InLimits

\* A chunk more, or a blank slice that is left out.
LEMMA RunKeepsSplit ==
  ASSUME SplitInv, RunTier
  PROVE  SplitInv'
<1>1. PICK s \in OverlapFrom(reach), e \in Cuts \cup {TextLen} :
        /\ reach < e /\ e <= TextLen
        /\ \E x \in RepeatedHeader(s) : NextChunk(s, e, x)
  BY DEF RunTier
<1>2. PICK x \in {0} \cup HeaderLens : NextChunk(s, e, x)
  BY <1>1 DEF RepeatedHeader
<1>3. /\ UNCHANGED <<doc, childCfg, repaired, parents, current, newParents, children>>
      /\ pc = "run" /\ pc' \in {"run", "answered"} /\ reach' = e
      /\ pc' = "answered" => e = TextLen
      /\ out' = IF Kept(s, e) THEN Append(out, MakeChunk(s, e, x)) ELSE out
  BY <1>1, <1>2 DEF RunTier, NextChunk, resultVars
<1>4. out \in Seq(Piece) /\ reach \in Nat
  BY DEF SplitInv, TypesOK
<1>5. TextLen \in Nat
  <2>1. CASE OfParent
    <3>1. Parent \in Piece
      BY <2>1 DEF SplitInv, TypesOK, OfParent, Parent
    <3>2. reach < TextLen /\ TextLen = Parent.extra + (Parent.end - Parent.start)
      <4>1. TextLen \in Int
        BY <2>1, <3>1 DEF TextLen, ContentLen, Piece
      <4>2. reach < e /\ e <= TextLen /\ (e \in Nat \/ e = TextLen)
        BY <1>1, CutsAssumption
      <4>3. reach < TextLen
        BY <1>4, <4>1, <4>2
      <4> QED
        BY <2>1, <4>3 DEF TextLen, ContentLen
    <3>3. TextLen \in Int
      BY <3>1, <3>2 DEF Piece
    <3> QED
      BY <1>4, <3>2, <3>3
  <2>2. CASE ~ OfParent
    BY <2>2 DEF TextLen, SplitInv, TypesOK, Document
  <2> QED
    BY <2>1, <2>2
<1>6. e \in Nat /\ reach < e /\ e <= TextLen
  BY <1>1, <1>5, CutsAssumption
<1>7. s \in Nat /\ s <= reach
  BY <1>1, <1>4, CutsAssumption DEF OverlapFrom
<1> DEFINE c == MakeChunk(s, e, x)
<1>8. c \in Piece /\ c.start = s /\ c.end = e
  <2>1. x \in Nat
    BY <1>2, InputsAssumption
  <2> QED
    BY <1>6, <1>7, <2>1 DEF MakeChunk, Piece
<1>9. TextLen' = TextLen /\ \A q : Blank(q)' = Blank(q)
  BY <1>3, SameText
<1> HIDE DEF c
<1>10. /\ out' \in Seq(Piece)
       /\ DOMAIN out \subseteq DOMAIN out'
       /\ \A k \in DOMAIN out : out'[k] = out[k]
       /\ \A k \in DOMAIN out' : out'[k].end <= TextLen
       /\ Kept(s, e) => \E k \in DOMAIN out' : out'[k] = c
  <2>1. \A k \in DOMAIN out : out[k].end <= TextLen
    BY <1>3 DEF SplitInv, TierOK
  <2>2. CASE Kept(s, e)
    <3>1. out' = Append(out, c)
      BY <1>3, <2>2 DEF c
    <3>2. /\ Len(out) \in Nat /\ DOMAIN out = 1 .. Len(out)
          /\ out' \in Seq(Piece) /\ DOMAIN out' = 1 .. Len(out) + 1
          /\ out'[Len(out) + 1] = c
          /\ \A k \in 1 .. Len(out) : out'[k] = out[k]
      BY <1>4, <1>8, <3>1
    <3>3. \A k \in 1 .. Len(out) + 1 : k \in 1 .. Len(out) \/ k = Len(out) + 1
      BY <3>2
    <3> QED
      BY <1>6, <1>8, <2>1, <3>2, <3>3
  <2>3. CASE ~ Kept(s, e)
    BY <1>3, <1>4, <2>1, <2>3
  <2> QED
    BY <2>2, <2>3
<1>11. \A q \in 0 .. e - 1 :
         Blank(q) \/ \E k \in DOMAIN out' : out'[k].start <= q /\ q < out'[k].end
  <2> SUFFICES ASSUME NEW q \in 0 .. e - 1, ~ Blank(q)
               PROVE  \E k \in DOMAIN out' : out'[k].start <= q /\ q < out'[k].end
    OBVIOUS
  <2>1. CASE q < reach
    <3>1. q \in 0 .. reach - 1
      BY <1>4, <1>6, <2>1
    <3>2. PICK k \in DOMAIN out : out[k].start <= q /\ q < out[k].end
      BY <1>3, <3>1 DEF SplitInv, TierOK, CoversTo
    <3> QED
      BY <1>10, <3>2
  <2>2. CASE reach <= q
    <3>1. q \in s .. e - 1 /\ s <= q /\ q < e
      BY <1>4, <1>6, <1>7, <2>2
    <3>2. Kept(s, e)
      BY <3>1 DEF Kept, HasText
    <3> QED
      BY <1>8, <1>10, <3>1, <3>2
  <2> QED
    BY <1>4, <1>6, <2>1, <2>2
<1>12. TypesOK'
  BY <1>3, <1>6, <1>10 DEF SplitInv, TypesOK
<1>13. TierOK'
  BY <1>3, <1>9, <1>10, <1>11 DEF TierOK, CoversTo
<1>14. ConfigOK'
  BY <1>3, SameConfig DEF SplitInv
<1> QED
  BY <1>3, <1>12, <1>13, <1>14, SameLevels DEF SplitInv

\* The chunks of the document are the parents.
LEMMA TakeKeepsSplit ==
  ASSUME SplitInv, TakeParents
  PROVE  SplitInv'
<1>1. /\ UNCHANGED <<doc, childCfg, repaired, reach, out, newParents, children>>
      /\ pc = "answered" /\ ~ OfParent /\ parents' = out
      /\ out = <<>> => current' = 0 /\ pc' = "done"
      /\ out # <<>> => current' = 1 /\ pc' = "split"
  BY DEF TakeParents, splitVars
<1>2. out \in Seq(Piece) /\ current = 0 /\ children = <<>> /\ newParents = <<>>
  BY <1>1 DEF SplitInv, TypesOK, OfParent, LinksOK
<1>3. TypesOK'
  <2>1. current' \in 0 .. Len(out)
    BY <1>1, <1>2
  <2> QED
    BY <1>1, <1>2, <2>1 DEF SplitInv, TypesOK
<1>4. ConfigOK' /\ TierOK'
  <2>1. pc' \in {"done", "split"}
    BY <1>1
  <2> QED
    BY <1>1, <2>1, SameConfig DEF SplitInv, TierOK
<1>5. ParentsOK'
  <2>1. reach = TextLen /\ TextLen = doc.len /\ \A q : Blank(q) <=> q \in doc.blank
    BY <1>1 DEF SplitInv, TierOK, TextLen, Blank
  <2>2. \A p \in 0 .. doc.len - 1 :
          p \in doc.blank \/ \E j \in DOMAIN out : out[j].start <= p /\ p < out[j].end
    BY <1>1, <2>1 DEF SplitInv, TierOK, CoversTo
  <2> QED
    BY <1>1, <2>2 DEF ParentsOK
<1>6. LinksOK'
  BY <1>1, <1>2 DEF LinksOK
<1>7. ChildrenOK'
  <2>1. \A j \in DOMAIN out : ~ (j < current') /\ pc' # "done"
    BY <1>1, <1>2
  <2> QED
    BY <1>1, <2>1 DEF ChildrenOK
<1> QED
  BY <1>3, <1>4, <1>5, <1>6, <1>7 DEF SplitInv

\* The children of a parent are added, with or without a link to it.
LEMMA LinkKeepsSplit ==
  ASSUME SplitInv, LinkChildren
  PROVE  SplitInv'
<1> DEFINE index == IF Divided THEN Len(newParents) ELSE -1
           new == Children(index)
<1>1. /\ UNCHANGED <<doc, childCfg, repaired, reach, out, parents>>
      /\ pc = "answered" /\ OfParent
      /\ children' = children \o new
      /\ newParents' = IF Divided THEN Append(newParents, Parent) ELSE newParents
      /\ \/ current < Len(parents) /\ current' = current + 1 /\ pc' = "split"
         \/ ~ (current < Len(parents)) /\ current' = current /\ pc' = "done"
  BY DEF LinkChildren, NextParent, splitVars
<1>2. /\ out \in Seq(Piece) /\ parents \in Seq(Piece) /\ newParents \in Seq(Piece)
      /\ children \in Seq(ChildRecord) /\ doc.len \in Nat
      /\ current \in 1 .. Len(parents) /\ Parent = parents[current]
  BY <1>1 DEF SplitInv, TypesOK, OfParent, Parent, Document
<1>fields. Parent.start \in Nat /\ Parent.end \in Nat /\ Parent.extra \in Nat
  <2>1. Parent \in Piece
    BY <1>2
  <2> QED
    BY <2>1 DEF Piece
<1>3. /\ TextLen = ContentLen(Parent) /\ reach = TextLen
      /\ \A k \in DOMAIN out : out[k].end <= TextLen
      /\ CoversTo(out, TextLen)
  BY <1>1 DEF SplitInv, TierOK, TextLen
<1> PICK n \in Nat : n = Len(children)
  BY <1>2
<1>4. index \in Index
  BY <1>2 DEF Index
<1>5. /\ new \in Seq(ChildRecord) /\ Len(new) = Len(out) /\ DOMAIN new = DOMAIN out
      /\ \A k \in DOMAIN out : new[k] = Child(n + k - 1, out[k], index)
  <2>1. DOMAIN out = 1 .. Len(out) /\ Len(out) \in Nat /\ n \in Nat
    BY <1>2
  <2>2. new = [k \in 1 .. Len(out) |-> Child(n + k - 1, out[k], index)]
    BY <2>1 DEF Children
  <2> HIDE DEF new, index
  <2>3. ASSUME NEW k \in 1 .. Len(out)
        PROVE  Child(n + k - 1, out[k], index) \in ChildRecord
    <3>1. out[k] \in Piece
      BY <1>2, <2>3
    <3>2. n + k - 1 \in Nat /\ current \in Nat
      BY <1>2, <2>1, <2>3
    <3>3. out[k].start + Parent.start \in Nat /\ out[k].end + Parent.start \in Nat
      <4>1. out[k].start \in Nat /\ out[k].end \in Nat
        BY <3>1 DEF Piece
      <4> QED
        BY <1>fields, <4>1, SMTT(30)
    <3> QED
      BY <1>4, <3>1, <3>2, <3>3 DEF Child, ChildRecord
  <2>4. new \in [1 .. Len(out) -> ChildRecord]
    BY <2>2, <2>3
  <2>5. new \in Seq(ChildRecord) /\ Len(new) = Len(out)
    BY <2>1, <2>4
  <2>6. DOMAIN new = 1 .. Len(out) /\ \A k \in 1 .. Len(out) : new[k] = Child(n + k - 1, out[k], index)
    BY <2>2
  <2> QED
    BY <2>1, <2>5, <2>6
<1> HIDE DEF new, index
<1>6. /\ n \in Nat /\ DOMAIN children = 1 .. n /\ DOMAIN out = 1 .. Len(out) /\ Len(out) \in Nat
      /\ children' \in Seq(ChildRecord)
      /\ DOMAIN children' = 1 .. n + Len(out)
      /\ \A i \in 1 .. n : children'[i] = children[i]
      /\ \A k \in 1 .. Len(out) : children'[n + k] = new[k]
  <2>1. children \in Seq(ChildRecord) /\ new \in Seq(ChildRecord) /\ out \in Seq(Piece)
    BY <1>2, <1>5
  <2>2. /\ n \in Nat /\ DOMAIN children = 1 .. n /\ DOMAIN out = 1 .. Len(out)
        /\ Len(out) \in Nat /\ Len(new) = Len(out)
    BY <1>5, <2>1
  <2>3. /\ children \o new \in Seq(ChildRecord)
        /\ Len(children \o new) = n + Len(out)
        /\ \A i \in 1 .. n : (children \o new)[i] = children[i]
        /\ \A k \in 1 .. Len(out) : (children \o new)[n + k] = new[k]
    BY <2>1, <2>2
  <2>4. DOMAIN (children \o new) = 1 .. n + Len(out)
    BY <2>3
  <2>5. children' = children \o new
    BY <1>1
  <2> QED
    BY <2>2, <2>3, <2>4, <2>5
<1>7. /\ newParents' \in Seq(Piece)
      /\ Len(newParents) \in Nat /\ Len(newParents) <= Len(newParents')
      /\ \A i \in 1 .. Len(newParents) : newParents'[i] = newParents[i]
      /\ Divided => /\ Len(newParents) < Len(newParents')
                    /\ newParents'[Len(newParents) + 1] = Parent
  BY <1>1, <1>2
<1>8. TypesOK'
  <2>1. current' \in 0 .. Len(parents)
    BY <1>1, <1>2
  <2> QED
    BY <1>1, <1>6, <1>7, <2>1 DEF SplitInv, TypesOK
<1>9. ConfigOK' /\ TierOK'
  <2>1. pc' \in {"done", "split"}
    BY <1>1
  <2> QED
    BY <1>1, <2>1, SameConfig DEF SplitInv, TierOK
<1>10. ParentsOK'
  BY <1>1, <1>2 DEF SplitInv, ParentsOK
<1>11. LinksOK'
  <2>1. current' # 0
    BY <1>1, <1>2
  <2>2. ASSUME NEW i \in 1 .. n
        PROVE  children'[i].seq = i - 1 /\ Linked(children[i])'
    <3>1. children[i].seq = i - 1 /\ Linked(children[i]) /\ children[i] \in ChildRecord
      <4>1. i \in DOMAIN children
        BY <1>6
      <4> QED
        BY <1>2, <4>1 DEF SplitInv, LinksOK
    <3>2. children[i].index = -1 \/ children[i].index \in Nat
      BY <3>1 DEF ChildRecord, Index
    <3>3. children[i].index \in Nat /\ children[i].index < Len(newParents) =>
            children[i].index + 1 \in 1 .. Len(newParents)
      BY <1>7
    <3>4. children'[i] = children[i]
      BY <1>6
    <3>5. children[i].index \in Nat => ~ (children[i].index = -1)
      OBVIOUS
    <3>6. children[i].index \in Nat =>
            /\ children[i].index < Len(newParents')
            /\ newParents'[children[i].index + 1] = parents[children[i].from]
      BY <1>7, <3>1, <3>3, <3>5 DEF Linked
    <3> QED
      BY <1>1, <3>1, <3>2, <3>4, <3>5, <3>6 DEF Linked, ContentLen
  <2>3. ASSUME NEW k \in 1 .. Len(out)
        PROVE  children'[n + k].seq = (n + k) - 1 /\ Linked(children[n + k])'
    <3> PICK child : child = Child(n + k - 1, out[k], index)
      OBVIOUS
    <3>1. children'[n + k] = child
      BY <1>5, <1>6
    <3>2. /\ child.seq = n + k - 1 /\ child.from = current /\ child.index = index
          /\ child.sub = out[k]
          /\ child.start = out[k].start + Parent.start
          /\ child.end = out[k].end + Parent.start
      BY DEF Child
    <3>3. IF index = -1
          THEN out[k].start = 0 /\ out[k].end = ContentLen(Parent)
          ELSE index < Len(newParents') /\ newParents'[index + 1] = Parent
      <4>1. CASE Divided
        BY <1>7, <4>1 DEF index
      <4>2. CASE ~ Divided
        <5>1. out # <<>> /\ KeptWhole
          BY <1>6, <4>2 DEF Divided
        <5>2. k = 1
          BY <1>6, <5>1 DEF KeptWhole
        <5> QED
          BY <1>3, <4>2, <5>1, <5>2 DEF KeptWhole, index
      <4> QED
        BY <4>1, <4>2
    <3>4. out[k].end <= ContentLen(Parent)
      BY <1>3, <1>6
    <3>5. current \in DOMAIN parents
      BY <1>2
    <3>6. /\ child.from \in DOMAIN parents' /\ parents'[child.from] = Parent
          /\ ContentLen(parents[child.from])' = ContentLen(Parent)
      BY <1>1, <1>2, <3>2, <3>5 DEF ContentLen
    <3>7. children'[n + k].seq = (n + k) - 1
      BY <3>1, <3>2
    <3>8. Linked(child)'
      BY <3>2, <3>3, <3>4, <3>6 DEF Linked, ContentLen
    <3> QED
      BY <3>1, <3>7, <3>8
  <2>4. \A i \in 1 .. n + Len(out) : i \in 1 .. n \/ \E k \in 1 .. Len(out) : i = n + k
    <3> SUFFICES ASSUME NEW i \in 1 .. n + Len(out), i \notin 1 .. n
                 PROVE  \E k \in 1 .. Len(out) : i = n + k
      OBVIOUS
    <3>1. i - n \in 1 .. Len(out) /\ i = n + (i - n)
      BY <1>6
    <3> QED
      BY <3>1
  <2>5. ASSUME NEW i \in DOMAIN children'
        PROVE  children'[i].seq = i - 1 /\ Linked(children[i])'
    <3>1. CASE i \in 1 .. n
      BY <2>2, <3>1
    <3>2. CASE \E k \in 1 .. Len(out) : i = n + k
      BY <2>3, <3>2
    <3> QED
      BY <1>6, <2>4, <3>1, <3>2
  <2> QED
    BY <2>1, <2>5 DEF LinksOK
<1>12. ChildrenOK'
  <2> SUFFICES ASSUME NEW j \in DOMAIN parents, j <= current, NEW p \in Nat,
                      parents[j].start <= p, p < parents[j].end, p \notin doc.blank
               PROVE  \E i \in DOMAIN children' :
                        children'[i].from = j /\ Shows(children[i], p)'
    <3>1. \A m \in DOMAIN parents : m < current' \/ pc' = "done" => m <= current
      BY <1>1, <1>2
    <3> QED
      BY <1>1, <3>1 DEF ChildrenOK
  <2>1. CASE j < current
    <3>1. PICK i \in DOMAIN children : children[i].from = j /\ Shows(children[i], p)
      BY <2>1 DEF SplitInv, ChildrenOK
    <3>2. i \in DOMAIN children' /\ children'[i] = children[i]
      BY <1>6, <3>1
    <3>3. Shows(children[i], p)'
      BY <1>1, <3>1, <3>2 DEF Shows
    <3> QED
      BY <3>1, <3>2, <3>3
  <2>2. CASE j = current
    <3> DEFINE q == p - Parent.start + Parent.extra
    <3>1. q \in Nat /\ Parent.extra <= q /\ q < TextLen /\ Place(Parent, q) = p
      <4>1. Parent.start <= p /\ p < Parent.end
        BY <1>2, <2>2
      <4> QED
        BY <1>fields, <1>3, <4>1 DEF ContentLen, Place
    <3>2. ~ Blank(q)
      BY <1>1, <3>1 DEF Blank
    <3>3. TextLen \in Int
      BY <1>fields, <1>3 DEF ContentLen
    <3>4. q \in 0 .. TextLen - 1
      BY <3>1, <3>3
    <3>5. PICK k \in DOMAIN out : out[k].start <= q /\ q < out[k].end
      BY <1>3, <3>2, <3>4 DEF CoversTo
    <3>6. /\ n + k \in DOMAIN children'
          /\ children'[n + k] = Child(n + k - 1, out[k], index)
      BY <1>5, <1>6, <3>5
    <3>7. children'[n + k].from = current /\ children'[n + k].sub = out[k]
      BY <3>6 DEF Child
    <3>8. Shows(children[n + k], p)'
      BY <1>1, <1>2, <2>2, <3>5, <3>7 DEF Shows
    <3> QED
      BY <2>2, <3>6, <3>7, <3>8
  <2> QED
    BY <1>2, <2>1, <2>2
<1> QED
  BY <1>8, <1>9, <1>10, <1>11, <1>12 DEF SplitInv

\* Every step keeps it.
LEMMA StepKeepsSplit == SplitInv /\ [Next]_vars => SplitInv'
<1> SUFFICES ASSUME SplitInv, [Next]_vars PROVE SplitInv'
  OBVIOUS
<1>1. CASE TierRaises
  <2>1. /\ UNCHANGED <<doc, childCfg, repaired, reach, out, parents, current, newParents, children>>
        /\ pc = "run" /\ pc' = "raised"
    BY <1>1 DEF TierRaises, splitVars, resultVars
  <2>2. TypesOK'
    BY <2>1 DEF SplitInv, TypesOK
  <2>3. ConfigOK' /\ TierOK'
    BY <2>1, SameConfig DEF SplitInv, TierOK
  <2> QED
    BY <2>1, <2>2, <2>3, SameLevels DEF SplitInv
<1>2. CASE UNCHANGED vars
  <2>1. /\ UNCHANGED <<doc, childCfg, repaired, pc, reach, out, parents, current, newParents, children>>
    BY <1>2 DEF vars
  <2>2. TypesOK' /\ ConfigOK'
    BY <2>1 DEF SplitInv, TypesOK, ConfigOK, EnsureDefaults, InLimits
  <2>3. TierOK'
    BY <2>1, SameText DEF SplitInv, TierOK, CoversTo
  <2>4. ParentsOK' /\ LinksOK' /\ ChildrenOK'
    BY <2>1 DEF SplitInv, ParentsOK, LinksOK, Linked, ContentLen, ChildrenOK, Shows
  <2> QED
    BY <2>2, <2>3, <2>4 DEF SplitInv
<1> QED
  BY <1>1, <1>2, StartKeepsSplit, ResolveKeepsSplit, RunKeepsSplit, TakeKeepsSplit,
     LinkKeepsSplit DEF Next

\* The invariant of both levels: what the tier has cut of the text in hand,
\* the parents are linked and covered by the children made so far.
THEOREM SplitInvariant == Spec => []SplitInv
BY InitSplitInv, StepKeepsSplit, PTL DEF Spec

-------------------------------------------------------------------------------
\* However often split() repairs the shared configuration in place, all parents
\* are cut by one, with its size within the budget and its overlap in limits.
THEOREM OneConfig == Spec => []OneConfigForAll
<1>1. SplitInv => OneConfigForAll
  <2> SUFFICES ASSUME SplitInv PROVE OneConfigForAll
    OBVIOUS
  <2>1. repaired = {} \/ (repaired = {childCfg} /\ InLimits(childCfg))
    BY DEF SplitInv, ConfigOK
  <2>2. Cardinality(repaired) = 0 \/ Cardinality(repaired) = 1
    BY <2>1, FS_EmptySet, FS_Singleton, Zenon
  <2> QED
    BY <2>1, <2>2 DEF OneConfigForAll, InLimits
<1> QED
  BY <1>1, SplitInvariant, PTL

\* Whatever slices the tiers leave out as blank, and whichever parents are not
\* returned: every character that is not blank is shown by a child.
THEOREM ChildrenKeepText == Spec => []NoTextLost
<1>1. SplitInv => NoTextLost
  <2> SUFFICES ASSUME SplitInv, pc = "done", NEW p \in 0 .. doc.len - 1, p \notin doc.blank
               PROVE  \E i \in DOMAIN children : Shows(children[i], p)
    BY DEF NoTextLost
  <2>1. PICK j \in DOMAIN parents : parents[j].start <= p /\ p < parents[j].end
    BY DEF SplitInv, ParentsOK
  <2>2. p \in Nat
    OBVIOUS
  <2> QED
    BY <2>1, <2>2 DEF SplitInv, ChildrenOK
<1> QED
  BY <1>1, SplitInvariant, PTL

\* Every child is linked to the parent it was cut from or shows all of it, is
\* numbered over all parents, and stands at its own text where no header is
\* repeated in front of its parent.
THEOREM LinksAreRight == Spec => []ChildrenLinked
<1>1. SplitInv => ChildrenLinked
  <2> SUFFICES ASSUME SplitInv, NEW i \in DOMAIN children
               PROVE  LET child == children[i]
                          c     == parents[child.from]
                      IN  /\ child.seq = i - 1
                          /\ IF child.index = -1
                             THEN child.sub.start = 0 /\ child.sub.end = ContentLen(c)
                             ELSE child.index < Len(newParents) /\ newParents[child.index + 1] = c
                          /\ c.extra = 0 => StandsAtItsText(child)
    BY DEF ChildrenLinked
  <2> DEFINE child == children[i]
             c == parents[child.from]
  <2>1. child.seq = i - 1 /\ Linked(child)
    BY DEF SplitInv, LinksOK
  <2>2. child \in ChildRecord /\ parents \in Seq(Piece)
    BY DEF SplitInv, TypesOK
  <2>3. child.sub \in Piece /\ c \in Piece
    BY <2>1, <2>2 DEF ChildRecord, Linked
  <2>4. /\ child.start = child.sub.start + c.start
        /\ child.end = child.sub.end + c.start
        /\ child.sub.end <= ContentLen(c)
    BY <2>1 DEF Linked
  <2>5. ASSUME c.extra = 0, NEW p \in 0 .. doc.len - 1
        PROVE  Shows(child, p) <=> child.start <= p /\ p < child.end
    <3>1. p \in Int /\ doc.len \in Nat
      BY DEF SplitInv, TypesOK, Document
    <3> HIDE DEF child, c
    <3>2. Shows(child, p) <=>
            /\ c.start <= p /\ p < c.end
            /\ child.sub.start <= p - c.start + c.extra
            /\ p - c.start + c.extra < child.sub.end
      BY DEF Shows, c
    <3> QED
      BY <2>3, <2>4, <2>5, <3>1, <3>2 DEF Piece, ContentLen
  <2>6. c.extra = 0 => StandsAtItsText(child)
    BY <2>5 DEF StandsAtItsText
  <2> QED
    BY <2>1, <2>6 DEF Linked
<1> QED
  BY <1>1, SplitInvariant, PTL
===============================================================================
