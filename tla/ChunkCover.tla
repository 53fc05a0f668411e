------------------------------ MODULE ChunkCover ------------------------------
(***************************************************************************)
(* What every splitter of the chunker package promises about the positions *)
(* of its output, whatever its splitting rule: chunks are only ever        *)
(* appended, they follow the document, no character of the part already    *)
(* cut is left out, and when the splitter returns the whole document is    *)
(* covered.  The detailed modules implement this one.                      *)
(***************************************************************************)
EXTENDS Naturals, Sequences

VARIABLES
  length,  \* how much of the document has been handed to the splitter
  spans,   \* the <<start, end>> of the chunks produced so far
  done     \* the splitter has returned

vars == <<length, spans, done>>

Covered(ss) == IF ss = <<>> THEN 0 ELSE ss[Len(ss)][2]

\* Two neighbours in document order, with no character between them.
Follows(a, b) == a[1] <= b[1] /\ b[1] <= a[2] /\ a[2] <= b[2]

Chain(ss) ==
  /\ ss # <<>> => ss[1][1] = 0
  /\ \A i \in 1 .. Len(ss) - 1 : Follows(ss[i], ss[i + 1])

\* The chunks already produced are never touched again.
Grows(old, new) ==
  /\ Len(old) <= Len(new)
  /\ \A i \in 1 .. Len(old) : new[i] = old[i]

Init ==
  /\ length = 0
  /\ spans = <<>>
  /\ done = FALSE

Work ==
  /\ ~ done
  /\ length' >= length
  /\ Grows(spans, spans')
  /\ Chain(spans')
  /\ Covered(spans') <= length'
  /\ done' = FALSE

Return ==
  /\ ~ done
  /\ length' = length
  /\ Grows(spans, spans')
  /\ Chain(spans')
  /\ Covered(spans') = length
  /\ done' = TRUE

Next == Work \/ Return

Spec == Init /\ [][Next]_vars
===============================================================================
