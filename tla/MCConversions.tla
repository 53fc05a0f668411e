---------------------------- MODULE MCConversions ------------------------------
(* Small instances of Conversions. *)
EXTENDS Conversions

Of(format) == [format |-> format, ref |-> "none", part |-> "none", used |-> FALSE,
               odd |-> FALSE, merged |-> FALSE]

Book(ref, part, used, odd, merged) ==
  [format |-> "xlsx", ref |-> ref, part |-> part, used |-> used, odd |-> odd,
   merged |-> merged]

\* Sound, renamed, consistently under another name, dangling, dangling but
\* used, dangling behind an entry the repair does not find.
MCBooks == {Book("standard", "standard", TRUE, FALSE, TRUE),
            Book("standard", "other", TRUE, FALSE, FALSE),
            Book("other", "other", TRUE, FALSE, FALSE),
            Book("standard", "none", FALSE, FALSE, TRUE),
            Book("standard", "none", TRUE, FALSE, FALSE),
            Book("standard", "none", FALSE, TRUE, FALSE)}

Sheet(type, f) == [kind |-> "sheet", type |-> type, file |-> f]

MCUploads ==
  {Sheet(".xlsx", f) : f \in MCBooks \cup {Of("zip"), Of("xls"), Of("xlsb"),
                                           Of("truncated"), Of("ods"), Of("unknown")}}
    \cup {Sheet("", Of("empty"))}
    \cup {[kind |-> "slides", type |-> t, file |-> Of(f)] :
            t \in {".ppt", ".pptx"}, f \in {"ole", "pptx"}}
    \cup {[kind |-> "doc", type |-> ".doc", file |-> Of("ole")]}

MCProducts == {Book("standard", "standard", TRUE, FALSE, TRUE),
               Book("standard", "none", FALSE, FALSE, FALSE), Of("zip"), Of("truncated"),
               Of("unknown"), Of("empty")}

MCSuffixes == <<".xlsx", ".csv">>
===============================================================================
