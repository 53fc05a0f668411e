---------------------------- MODULE MCParseService ----------------------------
(***************************************************************************)
(* Small instances of ParseService: two requests that contend, with a      *)
(* light one behind them that finds no thread of the pool free; and three  *)
(* PDFs that contend for two rendering slots.                              *)
(***************************************************************************)
EXTENDS ParseService, TLC

CONSTANTS r1, r2, r3

ThreeTasks == {r1, r2, r3}
MCNames == {"pdf_render", "markitdown", "opendataloader"}

\* One slot each, and no limit at all.
OneSlot == [n \in MCNames |-> IF n = "opendataloader" THEN 0 ELSE 1]
\* Two slots for rendering.
TwoSlots == [n \in MCNames |-> 2]

Work(a, b, c) == r1 :> a @@ r2 :> b @@ r3 :> c

\* One rendering request beside a light one, rendering against MarkItDown, and
\* a pair for the MarkItDown slot; every kind is there.
MixedWork ==
  {Work("pdf", "scanned", "unsupported"), Work("opendataloader", "docx", "unsupported"),
   Work("doc", "markitdown", "other")}

PdfWork == {Work("pdf", "pdf", "pdf")}

Symmetry == Permutations(ThreeTasks)
===============================================================================
