------------------------- MODULE MCHeuristicSplitter ---------------------------
(* Small instances of HeuristicSplitter. *)
EXTENDS HeuristicSplitter

L(k, f, p, n) == [kind |-> k, feed |-> f, prot |-> p, len |-> n]

\* A chapter line, prose short and long, prose with a link, a form feed on a
\* line of its own and one in the middle of a line, an empty line, a fence.
MCLines ==
  {L("mark", {}, FALSE, 3), L("plain", {}, FALSE, 2), L("plain", {}, FALSE, 8),
   L("plain", {}, TRUE, 4), L("blank", {0}, FALSE, 2), L("plain", {2}, FALSE, 5),
   L("blank", {}, FALSE, 1), L("fence", {}, FALSE, 4)}

\* A small overlap and the largest one.
MCConfigs == {[size |-> 6, overlap |-> 2], [size |-> 7, overlap |-> 3]}

MCCuts == {n \in 0 .. 60 : n % 6 = 4}
===============================================================================
