------------------------------- MODULE ParentChild -----------------------------
(***************************************************************************)
(* chunker/strategy.py: split() repairs its configuration, resolves it to  *)
(* a tier and lets the tier cut the text; split_parent_child() cuts a      *)
(* document into parents that way, and the content of every parent into    *)
(* children.                                                               *)
(*                                                                         *)
(* A text is a number of characters, some of them blank.  A tier answers   *)
(* any chunks that SplitText allows; the heuristic tier leaves out blank   *)
(* ones and may raise (HeuristicSplitter).  The content of a chunk, of     *)
(* either level, may begin with a repeated table header, which is text of  *)
(* another place.                                                          *)
(***************************************************************************)
EXTENDS SplitText, Integers, SequencesExt

CONSTANTS
  Documents,       \* the documents
  ParentConfigs,   \* the configurations for the parents ...
  ChildConfigs,    \* ... and for the children, as they are stored
  DefaultSize,     \* default_chunk_size
  DefaultOverlap,  \* default_chunk_overlap
  HeaderLens       \* lengths of the table headers a chunk may repeat

Strategies == {"auto", "heading", "heuristic", "recursive", "legacy", ""}

Config == [size : Int, overlap : Int, budget : Nat, strategy : Strategies]

Document == [len : Nat \ {0}, blank : SUBSET Nat]

ASSUME InputsAssumption ==
  /\ Documents \subseteq Document
  /\ ParentConfigs \cup ChildConfigs \subseteq Config
  /\ DefaultSize \in Nat \ {0}
  /\ DefaultOverlap \in Nat \ {0}
  /\ HeaderLens \subseteq Nat

VARIABLES
  doc,         \* the document
  parentCfg,   \* the two configurations, repaired in place
  childCfg,
  pc,          \* where split_parent_child() and the split() it calls are
  tier,        \* the tier split() has chosen
  reach,       \* how far that tier has got in the text
  out,         \* its chunks
  parents,     \* the parents, once they are known
  current,     \* the number of the parent being split, 0 before
  newParents,  \* the parents that are returned, by number
  children,    \* the children
  repaired     \* what ensure_defaults() has made of childCfg so far

vars == <<doc, parentCfg, childCfg, pc, tier, reach, out, parents, current,
          newParents, children, repaired>>

splitVars == <<tier, reach, out>>
resultVars == <<parents, current, newParents, children>>

\* Fault: the overlap is capped before the token limit shrinks the size.
CapBeforeBudget(c) ==
  LET size    == IF c.size <= 0 THEN DefaultSize ELSE c.size
      overlap == IF c.overlap <= 0 THEN DefaultOverlap ELSE c.overlap
      fits    == IF c.budget > 0 /\ c.budget < size THEN c.budget ELSE size
  IN  [c EXCEPT !.size = fits,
                !.overlap = IF overlap > size \div 2 THEN size \div 2 ELSE overlap]

(***************************************************************************)
(* ensure_defaults(): budget is chars_for_token_limit(token_limit, lang),  *)
(* or 0 without a limit.                                                   *)
(***************************************************************************)
EnsureDefaults(c) ==
  LET size    == IF c.size <= 0 THEN DefaultSize ELSE c.size
      overlap == IF c.overlap <= 0 THEN DefaultOverlap ELSE c.overlap
      fits    == IF c.budget > 0 /\ c.budget < size THEN c.budget ELSE size
  IN  [c EXCEPT !.size = fits,
                !.overlap = IF overlap > fits \div 2 THEN fits \div 2 ELSE overlap]

-------------------------------------------------------------------------------
(***************************************************************************)
(* The text being cut: the document, or the content of a parent.           *)
(***************************************************************************)
OfParent == current > 0

Parent == parents[current]

ContentLen(c) == c.extra + (c.end - c.start)

TextLen == IF OfParent THEN ContentLen(Parent) ELSE doc.len

\* Where character q of the content of chunk c stands in the document.
Place(c, q) == c.start + q - c.extra

Blank(q) ==
  IF OfParent THEN q >= Parent.extra /\ Place(Parent, q) \in doc.blank
  ELSE q \in doc.blank

HasText(s, e) == \E q \in s .. e - 1 : ~ Blank(q)

Cfg == IF OfParent THEN childCfg ELSE parentCfg

\* select_strategy(), for whatever the profile of the text says.
SelectStrategy(headings, markers) ==
  (IF headings THEN <<"heading">> ELSE <<>>)
    \o (IF markers THEN <<"heuristic">> ELSE <<>>) \o <<"legacy">>

\* resolve_chain_with_profile()
Chains(strategy) ==
  CASE strategy = "heading"   -> {<<"heading", "legacy">>}
    [] strategy = "heuristic" -> {<<"heuristic", "legacy">>}
    [] strategy = "auto"      -> {SelectStrategy(h, m) : h, m \in BOOLEAN}
    [] OTHER                  -> {<<"legacy">>}

Init ==
  /\ doc \in Documents
  /\ parentCfg \in ParentConfigs
  /\ childCfg \in ChildConfigs
  /\ pc = "start"
  /\ tier = "none"
  /\ reach = 0
  /\ out = <<>>
  /\ parents = <<>>
  /\ current = 0
  /\ newParents = <<>>
  /\ children = <<>>
  /\ repaired = {}

Start ==
  /\ pc = "start"
  /\ parentCfg' = EnsureDefaults(parentCfg)
  /\ childCfg' = EnsureDefaults(childCfg)
  /\ repaired' = {childCfg'}
  /\ pc' = "split"
  /\ UNCHANGED <<doc, splitVars, resultVars>>

(***************************************************************************)
(* split(): the configuration is repaired once more, the chain resolved.   *)
(* validate_chunks() accepts everything, so the first tier is the one.     *)
(***************************************************************************)
Resolve ==
  /\ pc = "split"
  /\ IF OfParent
     THEN /\ childCfg' = EnsureDefaults(childCfg)
          /\ repaired' = repaired \cup {childCfg'}
          /\ UNCHANGED parentCfg
     ELSE /\ parentCfg' = EnsureDefaults(parentCfg)
          /\ UNCHANGED <<childCfg, repaired>>
  /\ \E chain \in Chains(Cfg.strategy) : tier' = chain[1]
  /\ reach' = 0
  /\ out' = <<>>
  /\ pc' = "run"
  /\ UNCHANGED <<doc, resultVars>>

\* Nobody catches what the heuristic tier raises.
TierRaises ==
  /\ pc = "run"
  /\ tier = "heuristic"
  /\ reach = 0
  /\ pc' = "raised"
  /\ UNCHANGED <<doc, parentCfg, childCfg, splitVars, resultVars, repaired>>

MakeChunk(s, e, x) == [start |-> s, end |-> e, extra |-> x]

\* A blank slice is not appended by the heuristic tier (append_chunk).
Kept(s, e) == tier = "heuristic" => HasText(s, e)

\* Only the chunks of split_text() repeat a header, and never the first one.
RepeatedHeader(s) == IF s = 0 THEN {0} ELSE {0} \cup HeaderLens

NextChunk(s, e, x) ==
  /\ out' = IF Kept(s, e) THEN Append(out, MakeChunk(s, e, x)) ELSE out
  /\ reach' = e
  /\ pc' = IF e = TextLen THEN "answered" ELSE "run"
  /\ UNCHANGED <<doc, parentCfg, childCfg, tier, resultVars, repaired>>

\* The next chunk steps back from r, where the one before it ended or the slice
\* that was skipped, but never behind the start of a chunk.
OverlapFrom(r) ==
  {s \in Cuts \cup {r} : s <= r /\ (out # <<>> => out[Len(out)].start <= s)}

RunTier ==
  /\ pc = "run"
  /\ \E s \in OverlapFrom(reach), e \in Cuts \cup {TextLen} :
       /\ reach < e /\ e <= TextLen
       /\ \E x \in RepeatedHeader(s) : NextChunk(s, e, x)

-------------------------------------------------------------------------------
\* split() has answered the parents: go on to the content of the first.
TakeParents ==
  /\ pc = "answered"
  /\ ~ OfParent
  /\ parents' = out
  /\ current' = IF out = <<>> THEN 0 ELSE 1
  /\ pc' = IF out = <<>> THEN "done" ELSE "split"
  /\ UNCHANGED <<doc, parentCfg, childCfg, splitVars, newParents, children, repaired>>

\* The only chunk of a parent is its whole content.
KeptWhole == Len(out) = 1 /\ out[1].start = 0 /\ out[1].end = TextLen

\* A parent without chunks, or with itself as its only one, is not returned.
Divided == out # <<>> /\ ~ KeptWhole

\* parent_index; the fields the code gives a child, and where it comes from.
Child(n, sub, index) ==
  [seq |-> n, start |-> sub.start + Parent.start, end |-> sub.end + Parent.start,
   index |-> index, from |-> current, sub |-> sub]

Children(index) ==
  [k \in DOMAIN out |-> Child(Len(children) + k - 1, out[k], index)]

NextParent ==
  /\ current' = IF current < Len(parents) THEN current + 1 ELSE current
  /\ pc' = IF current < Len(parents) THEN "split" ELSE "done"

\* Fault: the index is that of the loop, not that of the parents returned.
LinkByLoopIndex ==
  /\ pc = "answered"
  /\ OfParent
  /\ children' = children \o Children(IF Divided THEN current - 1 ELSE -1)
  /\ newParents' = IF Divided THEN Append(newParents, Parent) ELSE newParents
  /\ NextParent
  /\ UNCHANGED <<doc, parentCfg, childCfg, splitVars, parents, repaired>>

\* Fault: a parent that is its own child is dropped with it.
LinkDividedOnly ==
  /\ pc = "answered"
  /\ OfParent
  /\ children' = IF Divided THEN children \o Children(Len(newParents)) ELSE children
  /\ newParents' = IF Divided THEN Append(newParents, Parent) ELSE newParents
  /\ NextParent
  /\ UNCHANGED <<doc, parentCfg, childCfg, splitVars, parents, repaired>>

\* split() has answered the children of a parent.
LinkChildren ==
  /\ pc = "answered"
  /\ OfParent
  /\ children' = children \o Children(IF Divided THEN Len(newParents) ELSE -1)
  /\ newParents' = IF Divided THEN Append(newParents, Parent) ELSE newParents
  /\ NextParent
  /\ UNCHANGED <<doc, parentCfg, childCfg, splitVars, parents, repaired>>

Next ==
  \/ Start
  \/ Resolve
  \/ TierRaises
  \/ RunTier
  \/ TakeParents
  \/ LinkChildren

Spec == Init /\ [][Next]_vars

-------------------------------------------------------------------------------
(***************************************************************************)
(* The configuration is mutated in place and repaired again by every call  *)
(* of split(); yet one repair settles it, so that all parents are cut by   *)
(* the same one, with an overlap of at most half of a size within budget.  *)
(***************************************************************************)
OneConfigForAll ==
  /\ Cardinality(repaired) <= 1
  /\ \A c \in repaired :
       /\ c.size > 0 /\ c.budget > 0 => c.size <= c.budget
       /\ 0 <= c.overlap /\ 2 * c.overlap <= c.size

\* The part of the document that a child shows, a repeated header left out.
Shows(child, p) ==
  LET c == parents[child.from]
      q == p - c.start + c.extra
  IN  c.start <= p /\ p < c.end /\ child.sub.start <= q /\ q < child.sub.end

\* The positions of a child are those of the text it shows.
StandsAtItsText(child) ==
  \A p \in 0 .. doc.len - 1 : Shows(child, p) <=> child.start <= p /\ p < child.end

(***************************************************************************)
(* Every character that is not blank is in a child, although both levels   *)
(* may leave out blank slices and a parent that is not divided, or that    *)
(* has no children, is not returned.                                       *)
(***************************************************************************)
NoTextLost ==
  pc = "done" =>
    \A p \in 0 .. doc.len - 1 :
      p \in doc.blank \/ \E i \in DOMAIN children : Shows(children[i], p)

(***************************************************************************)
(* A child is linked to the parent it was cut from, the numbering of       *)
(* parents having holes; one without a link shows its parent completely;   *)
(* children are numbered without holes over all parents; and without a     *)
(* repeated header in front of its parent, the positions of a child are    *)
(* those of its text ("shift to document-level offsets", splitter.py:599). *)
(***************************************************************************)
ChildrenLinked ==
  \A i \in DOMAIN children :
    LET child == children[i]
        c     == parents[child.from]
    IN  /\ child.seq = i - 1
        /\ IF child.index = -1
           THEN child.sub.start = 0 /\ child.sub.end = ContentLen(c)
           ELSE child.index < Len(newParents) /\ newParents[child.index + 1] = c
        /\ c.extra = 0 => StandsAtItsText(child)

(***************************************************************************)
(* "Use additive shift (not Content-length based) so that chunks with      *)
(* prepended context headers keep correct positional tracking"             *)
(* (splitter.py:603): every child stands at its text.                      *)
(***************************************************************************)
ChildOffsetsRight == \A i \in DOMAIN children : StandsAtItsText(children[i])
===============================================================================
