---------------------------- MODULE HeaderTracker -----------------------------
(***************************************************************************)
(* chunker/header_tracker.py: the state that remembers the header of the   *)
(* Markdown table whose rows are being split, so that a chunk that starts  *)
(* in the middle of the table can repeat it.                               *)
(*                                                                         *)
(* Only one hook is registered (default_header_hooks), so the dictionary   *)
(* active_headers holds at most one header, and ended_headers is empty     *)
(* again whenever update() returns: step 4 of update() clears it.          *)
(*                                                                         *)
(* A unit of text is a record; its wording is reduced to what the regular  *)
(* expressions of the tracker tell apart:                                  *)
(*   kind  "head"  a header row and a separator row, nothing else          *)
(*         "row"   one table row                                           *)
(*         "pipe"  it starts with a pipe but is no row: a piece of a row   *)
(*                 that was too long                                       *)
(*         "text"  anything that is neither blank nor starts with a pipe   *)
(*         "blank" white space and separators only                         *)
(*   cols  the number of columns of the first table row in it, 0 if there  *)
(*         is none; a fenced code block is text that can hold one          *)
(*   brk   the unit ends with an empty line                                *)
(*   bare  a header row with nothing between its pipes                     *)
(*   src   the offset of the text the unit shows                           *)
(***************************************************************************)
EXTENDS Integers

CONSTANTS
  NoHeader,  \* the dictionary active_headers is empty
  SepLen     \* length of a separator line "| --- | --- |"

ASSUME SepLenAssumption == SepLen \in Nat

Header == [src : Nat, len : Nat, cols : Nat]

ASSUME NoHeaderAssumption == NoHeader \notin Header

Tracker == [active : Header \cup {NoHeader}, pendingExtend : BOOLEAN,
            pendingBreak : BOOLEAN, endedNow : BOOLEAN]

NewTracker == [active |-> NoHeader, pendingExtend |-> FALSE,
               pendingBreak |-> FALSE, endedNow |-> FALSE]

\* first_table_row_column_count(split) > 0
HasRow(u) == u.cols > 0

\* Fault: only an empty line ends a table.
EndsAtBlankOnly(u) == u.kind = "blank"

\* The end pattern of the table hook: a blank unit, or one whose first
\* visible character is not a pipe.
EndsTable(u) == u.kind \in {"text", "blank"}

\* The header text that a unit of text starts.
HeaderOf(u) == [src |-> u.src, len |-> u.len, cols |-> u.cols]

\* A header without column names becomes its first data row followed by the
\* separator line.
ExtendedHeader(u) == [src |-> u.src, len |-> u.len + SepLen, cols |-> u.cols]

WidthDiffers(h, u) == h.cols > 0 /\ u.cols > 0 /\ h.cols # u.cols

(***************************************************************************)
(* HeaderTracker.update(split), in the order of its steps.                 *)
(***************************************************************************)
Update(t, u) ==
  LET tracked  == t.active # NoHeader
      broke    == t.pendingBreak /\ tracked            \* the pending break
      ended    == tracked /\ (broke \/ EndsTable(u))   \* 1
      open     == tracked /\ ~ ended
      waiting  == open /\ t.pendingExtend
      breaks   == open /\ ~ waiting /\ u.brk           \* 1b
      mismatch == open /\ ~ waiting /\ ~ u.brk /\ WidthDiffers(t.active, u)
      kept     == open /\ ~ mismatch
      extends  == waiting /\ HasRow(u)                 \* 2
      starts   == ~ tracked /\ u.kind = "head"         \* 3: not active, not ended
  IN  [active        |-> CASE extends -> ExtendedHeader(u)
                           [] kept /\ ~ extends -> t.active
                           [] starts -> HeaderOf(u)
                           [] OTHER -> NoHeader,
       pendingExtend |-> starts /\ u.bare,
       pendingBreak  |-> breaks,
       endedNow      |-> (broke /\ HasRow(u)) \/ mismatch]
===============================================================================
