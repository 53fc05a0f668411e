---------------------------- MODULE MCMergeUnits ------------------------------
(* Small instances of MergeUnits. *)
EXTENDS MergeUnits

Text(n) == [kind |-> "text", len |-> n, cols |-> 0, brk |-> FALSE, bare |-> FALSE]
Blank == [kind |-> "blank", len |-> 1, cols |-> 0, brk |-> TRUE, bare |-> FALSE]
Fence(n, c) == [Text(n) EXCEPT !.cols = c]
Pipe(n) == [Text(n) EXCEPT !.kind = "pipe"]
Row(n, c, b) == [kind |-> "row", len |-> n, cols |-> c, brk |-> b, bare |-> FALSE]
Hdr(n, c, b, e) == [kind |-> "head", len |-> n, cols |-> c, brk |-> b, bare |-> e]

\* Prose, short and oversized; a code block that shows a table; a piece of a
\* long row; rows, one before an empty line, one wider, one that fills a chunk
\* and one too long for any; headers, one before an empty line and one without
\* column names.
MCShapes ==
  {Text(1), Text(9), Fence(2, 2), Blank, Pipe(2),
   Row(1, 2, FALSE), Row(2, 2, TRUE), Row(1, 3, FALSE), Row(5, 2, FALSE), Row(9, 2, FALSE),
   Hdr(2, 2, FALSE, FALSE), Hdr(3, 2, TRUE, FALSE), Hdr(2, 2, FALSE, TRUE)}

\* Prose and tables of one width: a header is a unit of its own and never
\* swallows the empty line that ends a table, only the last row does.
TableShapes == {Text(1), Row(2, 2, FALSE), Row(2, 2, TRUE), Hdr(2, 2, FALSE, FALSE)}

\* Ordinary chunk sizes, no overlap, a size above the absolute maximum, and
\* a size and an overlap that have to be repaired.
MCConfigs ==
  {[size |-> 5, overlap |-> 2], [size |-> 6, overlap |-> 1], [size |-> 9, overlap |-> 5], [size |-> 0, overlap |-> -1]}
===============================================================================
