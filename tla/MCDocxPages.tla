----------------------------- MODULE MCDocxPages -------------------------------
(* Small instances of DocxPages. *)
EXTENDS DocxPages

Para(text, pic, brk) == [text |-> text, pic |-> pic, brk |-> brk]

\* Text at the end of a page, text with a picture, and a picture alone.
MCParagraphs ==
  {Para(TRUE, FALSE, TRUE), Para(TRUE, TRUE, FALSE), Para(FALSE, TRUE, FALSE)}
===============================================================================
