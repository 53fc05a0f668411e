-------------------------- MODULE MCHeadingSplitter ----------------------------
(* Small instances of HeadingSplitter. *)
EXTENDS HeadingSplitter

Heading(l, t) ==
  [kind |-> "heading", level |-> l, title |-> t, len |-> l + 2 + TitleLen]

Other(k, n) == [kind |-> k, level |-> 0, title |-> "", len |-> n]

\* Headings of three levels, one with another title, a fence and prose.
MCLines ==
  {Heading(1, "a"), Heading(1, "b"), Heading(2, "a"),
   Heading(3, "a"), Other("fence", 4), Other("plain", 5)}

MCCuts == {n \in 0 .. 60 : n % 6 = 5}
===============================================================================
