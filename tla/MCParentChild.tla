---------------------------- MODULE MCParentChild ------------------------------
(* Small instances of ParentChild. *)
EXTENDS ParentChild

\* Without blanks, and with a blank stretch in the middle and at the end.
MCDocuments ==
  {[len |-> 6, blank |-> {}], [len |-> 6, blank |-> {2, 3}], [len |-> 4, blank |-> {2, 3}]}

\* The defaults, and a token limit that makes the chunks smaller than the overlap.
MCParents == {[size |-> 0, overlap |-> 0, budget |-> 0, strategy |-> "auto"],
              [size |-> 9, overlap |-> 4, budget |-> 3, strategy |-> "heading"]}

MCChildren == {[size |-> 9, overlap |-> 4, budget |-> 3, strategy |-> "auto"],
               [size |-> 5, overlap |-> 0, budget |-> 0, strategy |-> "legacy"]}

MCCuts == {0, 2, 4, 6, 8}

\* split_text() on both levels, with a configuration that needs no repair: this
\* is split_text_parent_child() too.
LegacyConfig == {[size |-> 5, overlap |-> 2, budget |-> 0, strategy |-> "legacy"]}
===============================================================================
