------------------------------- MODULE SplitText -------------------------------
(***************************************************************************)
(* What split_text() of chunker/splitter.py may answer for a part of a     *)
(* document, as the other splitters see it: chunk after chunk, each of     *)
(* them starting where the one before it stopped or repeating its tail,    *)
(* and reaching further than it.  MergeUnits is the detailed model; it     *)
(* keeps ChunkCover and EveryChunkIsNew.                                   *)
(***************************************************************************)
EXTENDS Naturals, Sequences

CONSTANT Cuts  \* bound on the positions at which split_text() may cut

ASSUME CutsAssumption == Cuts \subseteq Nat

\* How far the part from lo on has been cut; out ends with its chunks, if any.
Reached(out, lo) ==
  IF out = <<>> \/ out[Len(out)].end < lo THEN lo ELSE out[Len(out)].end

\* Where the next chunk of the part lo .. hi may start, and where it may end.
InnerStarts(out, lo) ==
  LET r == Reached(out, lo)
  IN  IF r = lo THEN {lo}
      ELSE {s \in Cuts \cup {r} : lo <= s /\ out[Len(out)].start <= s /\ s <= r}

InnerEnds(out, lo, hi) ==
  {e \in Cuts \cup {hi} : Reached(out, lo) < e /\ e <= hi}
===============================================================================
