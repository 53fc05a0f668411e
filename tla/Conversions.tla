------------------------------ MODULE Conversions ------------------------------
(***************************************************************************)
(* What happens to an old or an odd Office file before it can be read:     *)
(* parser/excel_parser.py opens a workbook, repairs it or has it converted *)
(* (excel_convert.py, xlsx_repair.py, xlsx_merge.py); ppt_convert.py       *)
(* converts a presentation; doc_parser.py converts a document and falls    *)
(* back to antiword.  All three run LibreOffice up to three times, every   *)
(* time in temporary directories of its own, and several requests do so at *)
(* the same time.                                                          *)
(*                                                                         *)
(* A file is what these modules can tell of it: its format, and of a       *)
(* workbook where its manifest says the shared strings are (ref), where    *)
(* they are (part), whether cells use them, whether the manifest entry is  *)
(* one the repair can find, and whether it has merged cells.               *)
(***************************************************************************)
EXTENDS Naturals, SequencesExt

CONSTANTS
  Jobs,            \* the requests
  Uploads,         \* what they bring
  Products,        \* what LibreOffice may make of a spreadsheet
  NormalSuffixes,  \* the suffixes an unknown spreadsheet is tried with
  MaxAttempts      \* max_attempts

Places == {"none", "standard", "other"}

Formats == {"xlsx", "zip", "ods", "xls", "xlsb", "unknown", "empty", "truncated",
            "pptx", "ole"}

File == [format : Formats, ref : Places, part : Places, used : BOOLEAN,
         odd : BOOLEAN, merged : BOOLEAN]

ASSUME UploadsAssumption ==
  /\ Uploads \subseteq [kind : {"sheet", "slides", "doc"}, type : STRING, file : File]
  /\ NormalSuffixes \in Seq(STRING) \ {<<>>}
  /\ MaxAttempts \in Nat \ {0}

\* LibreOffice was asked for an xlsx file: what it makes is never an ods file,
\* which would be converted again without end.
ASSUME ProductsAssumption ==
  /\ Products \subseteq File
  /\ \A f \in Products : f.format # "ods"

VARIABLES
  installed,   \* soffice can be found
  upload,      \* what each request has brought
  data,        \* the bytes it works on
  given,       \* what they were when they were last looked at
  pc,          \* where it is
  todo,        \* the suffixes still to be tried, the first one now
  runs,        \* how often LibreOffice has run with this suffix
  normalized,  \* converted_via_soffice
  disk,        \* the temporary files and directories that exist
  stuck,       \* those that could not be removed or not be filled, and how
  ends         \* each suffix ended: two histories only the properties read

vars == <<installed, upload, data, given, pc, todo, runs, normalized, disk, stuck, ends>>

-------------------------------------------------------------------------------
(***************************************************************************)
(* excel_convert.py: the format pandas sees.  A file that begins like a    *)
(* zip archive but is none makes the detection raise.                      *)
(***************************************************************************)
HasFormat(f) == f.format \notin {"unknown", "empty"}

\* openpyxl can read a workbook whose manifest points to what is there.
Loads(f) == f.format = "xlsx" /\ f.ref \in {"none", f.part}

\* Fault: shared strings under another name are not looked for.
RepairStandardOnly(f) ==
  IF f.format # "xlsx" \/ f.part # "none" \/ f.ref = "none" \/ f.used \/ f.odd THEN f
  ELSE [f EXCEPT !.ref = "none"]

(***************************************************************************)
(* repair_xlsx_bytes(): shared strings under another name are renamed, the *)
(* manifest stays as it is; when there are none and no cell uses them, the *)
(* entries of the manifest are removed, if they look as expected.          *)
(***************************************************************************)
Repair(f) ==
  IF f.format # "xlsx" THEN f
  ELSE IF f.part # "none" THEN [f EXCEPT !.part = "standard"]
  ELSE IF f.ref = "none" \/ f.used \/ f.odd THEN f
  ELSE [f EXCEPT !.ref = "none"]

\* fill_merged_cells_xlsx(), for a workbook that loads.
FillMerged(f) == [f EXCEPT !.merged = FALSE]

-------------------------------------------------------------------------------
\* The temporary directories of an attempt.
OutDir(j) == <<"out", j>>

\* Fault: every LibreOffice runs in the one default profile.
SharedProfile(j) == <<"profile", "default">>

Profile(j) == <<"profile", j>>

\* The TempFileContext of a doc file.
DocFile(j) == <<"file", j>>

Init ==
  /\ installed \in BOOLEAN
  /\ upload \in [Jobs -> Uploads]
  /\ data = [j \in Jobs |-> upload[j].file]
  /\ given = data
  /\ pc = [j \in Jobs |-> "open"]
  /\ todo = [j \in Jobs |-> <<>>]
  /\ runs = [j \in Jobs |-> 0]
  /\ normalized = {}
  /\ disk = {}
  /\ stuck = {}
  /\ ends = [j \in Jobs |-> {}]

Kind(j) == upload[j].kind

Goes(j, to) == pc' = [pc EXCEPT ![j] = to]

\* A conversion is asked for, with these suffixes one after the other.
Convert(j, suffixes) ==
  /\ Goes(j, IF installed THEN "attempt" ELSE "no soffice")
  /\ todo' = [todo EXCEPT ![j] = suffixes]
  /\ runs' = [runs EXCEPT ![j] = 0]

-------------------------------------------------------------------------------
(***************************************************************************)
(* _open_excel_file()                                                      *)
(***************************************************************************)
\* normalize_excel_bytes(): the suffix of the upload first, then those of the
\* list that have not been seen.
SuffixList(type) ==
  LET seen[n \in 0 .. Len(NormalSuffixes)] ==
        IF n = 0 THEN IF type = "" THEN <<>> ELSE <<type>>
        ELSE IF NormalSuffixes[n] \in ToSet(seen[n - 1]) THEN seen[n - 1]
        ELSE Append(seen[n - 1], NormalSuffixes[n])
  IN  seen[Len(NormalSuffixes)]

(***************************************************************************)
(* normalize_excel_bytes() returns a file with a format, or nothing: the   *)
(* branch that refuses a converted file without a format has no action,    *)
(* and EveryConversionEnds would fail if it were ever reached.             *)
(***************************************************************************)
Normalize(j) ==
  /\ pc[j] = "open" /\ Kind(j) = "sheet"
  /\ ~ HasFormat(data[j])
  /\ j \notin normalized
  /\ Convert(j, SuffixList(upload[j].type))
  /\ given' = [given EXCEPT ![j] = data[j]]
  /\ normalized' = normalized \cup {j}
  /\ UNCHANGED <<installed, upload, data, disk, stuck, ends>>

ConvertOds(j) ==
  /\ pc[j] = "open" /\ Kind(j) = "sheet"
  /\ data[j].format = "ods"
  /\ Convert(j, <<".ods">>)
  /\ given' = [given EXCEPT ![j] = data[j]]
  /\ UNCHANGED <<installed, upload, data, normalized, disk, stuck, ends>>

(***************************************************************************)
(* _prepare_xlsx_bytes() is called outside of the try: a workbook that     *)
(* cannot be loaded ends the request there.  The branches that would       *)
(* repair or convert it once more after pandas has failed are never        *)
(* reached with an engine given by name.                                   *)
(***************************************************************************)
PrepareXlsx(j) ==
  /\ pc[j] = "open" /\ Kind(j) = "sheet"
  /\ data[j].format \in {"xlsx", "zip"}
  /\ given' = [given EXCEPT ![j] = data[j]]
  /\ LET repaired == Repair(data[j])
     IN  IF Loads(repaired)
         THEN /\ data' = [data EXCEPT ![j] = FillMerged(repaired)]
              /\ Goes(j, "done")
         ELSE /\ data' = [data EXCEPT ![j] = repaired]
              /\ Goes(j, "refused")
  /\ UNCHANGED <<installed, upload, todo, runs, normalized, disk, stuck, ends>>

\* xlrd and odf may read the file or not; openpyxl does not read xlsb.
ReadOther(j) ==
  /\ \/ pc[j] = "open" /\ Kind(j) = "sheet" /\ data[j].format \in {"xls", "xlsb", "truncated"}
     \/ pc[j] = "read"
  /\ \/ data[j].format \in {"xls", "ods"} /\ Goes(j, "done")
     \/ Goes(j, "refused")
  /\ given' = [given EXCEPT ![j] = data[j]]
  /\ UNCHANGED <<installed, upload, data, todo, runs, normalized, disk, stuck, ends>>

-------------------------------------------------------------------------------
(***************************************************************************)
(* normalize_ppt_bytes() and DocParser.parse_into_text()                   *)
(***************************************************************************)
NeedsConversion(j) ==
  upload[j].type # ".pptx" /\ data[j].format # "pptx"
    /\ (upload[j].type = ".ppt" \/ data[j].format = "ole")

KeepSlides(j) ==
  /\ pc[j] = "open" /\ Kind(j) = "slides"
  /\ ~ NeedsConversion(j)
  /\ Goes(j, "done")
  /\ UNCHANGED <<installed, upload, data, given, todo, runs, normalized, disk, stuck, ends>>

ConvertSlides(j) ==
  /\ pc[j] = "open" /\ Kind(j) = "slides"
  /\ NeedsConversion(j)
  /\ Convert(j, <<".ppt">>)
  /\ UNCHANGED <<installed, upload, data, given, normalized, disk, stuck, ends>>

ConvertDoc(j) ==
  /\ pc[j] = "open" /\ Kind(j) = "doc"
  /\ Convert(j, <<".doc">>)
  /\ disk' = disk \cup {DocFile(j)}
  /\ UNCHANGED <<installed, upload, data, given, normalized, stuck, ends>>

\* The file cannot be made, or, made, not be filled: then nothing removes it.
CannotSave(j) ==
  /\ pc[j] = "open" /\ Kind(j) = "doc"
  /\ \/ UNCHANGED <<disk, stuck>>
     \/ disk' = disk \cup {DocFile(j)} /\ stuck' = stuck \cup {DocFile(j)}
  /\ Goes(j, "refused")
  /\ ends' = [ends EXCEPT ![j] = @ \cup {[suffix |-> ".doc", how |-> "raised", runs |-> 0]}]
  /\ UNCHANGED <<installed, upload, data, given, todo, runs, normalized>>

\* The document of either engine is lost when the file cannot be removed.
FileStays(j) ==
  /\ pc[j] \in {"running", "antiword"} /\ Kind(j) = "doc"
  /\ disk' = IF pc[j] = "running" THEN disk \ {OutDir(j), Profile(j)} ELSE disk
  /\ stuck' = stuck \cup {DocFile(j)}
  /\ Goes(j, "refused")
  /\ ends' = [ends EXCEPT ![j] = @ \cup {[suffix |-> ".doc", how |-> "raised", runs |-> runs[j]]}]
  /\ UNCHANGED <<installed, upload, data, given, todo, runs, normalized>>

\* _parse_with_antiword(): the text, or, whatever fails, an empty document.
RunAntiword(j) ==
  /\ pc[j] = "antiword"
  /\ Goes(j, "done") \/ Goes(j, "refused")
  /\ disk' = disk \ {DocFile(j)}
  /\ UNCHANGED <<installed, upload, data, given, todo, runs, normalized, stuck, ends>>

-------------------------------------------------------------------------------
(***************************************************************************)
(* The attempts: convert_excel_to_xlsx_bytes(), convert_ppt_to_pptx_bytes() *)
(* and _try_convert_doc_to_docx() are the same loop.                       *)
(***************************************************************************)
StartAttempt(j) ==
  /\ pc[j] = "attempt"
  /\ disk' = disk \cup {OutDir(j), Profile(j)}
  /\ Goes(j, "running")
  /\ UNCHANGED <<installed, upload, data, given, todo, runs, normalized, stuck, ends>>

\* The end of the with statement, on every way out of an attempt.
LeaveDirs(j) == disk' = disk \ {OutDir(j), Profile(j)}

\* Without a result for the last suffix.
Fallback(j) ==
  CASE Kind(j) = "doc" -> "antiword"
    [] Kind(j) = "sheet" /\ data[j].format = "ods" -> "read"
    [] OTHER -> "refused"

\* The conversion with this suffix has no usable result: the next one, if any.
NextSuffix(j) ==
  /\ todo' = [todo EXCEPT ![j] = Tail(@)]
  /\ runs' = [runs EXCEPT ![j] = 0]
  /\ Goes(j, IF Tail(todo[j]) = <<>> THEN Fallback(j)
             ELSE IF installed THEN "attempt" ELSE "no soffice")

\* The conversion with the suffix of now has ended without a file, after n runs:
\* no soffice, failed, timed out, rejected or raised.
End(j, how, n) ==
  ends' = [ends EXCEPT ![j] = @ \cup {[suffix |-> Head(todo[j]), how |-> how, runs |-> n]}]

NoSoffice(j) ==
  /\ pc[j] = "no soffice"
  /\ NextSuffix(j)
  /\ End(j, "no soffice", 0)
  /\ UNCHANGED <<installed, upload, data, given, normalized, disk, stuck>>

\* Fault: the attempts are not counted.
FailForever(j) ==
  /\ pc[j] = "running"
  /\ LeaveDirs(j)
  /\ Goes(j, "attempt")
  /\ UNCHANGED <<installed, upload, data, given, todo, runs, normalized, stuck, ends>>

\* Fault: a LibreOffice that fails is not run again.
GiveUpEarly(j) ==
  /\ pc[j] = "running"
  /\ LeaveDirs(j)
  /\ NextSuffix(j)
  /\ End(j, "failed", runs[j] + 1)
  /\ UNCHANGED <<installed, upload, data, given, normalized, stuck>>

\* LibreOffice reports an error, or has made nothing.
Fail(j) ==
  /\ pc[j] = "running"
  /\ LeaveDirs(j)
  /\ IF runs[j] + 1 < MaxAttempts
     THEN /\ runs' = [runs EXCEPT ![j] = @ + 1]
          /\ Goes(j, "attempt")
          /\ UNCHANGED <<todo, ends>>
     ELSE NextSuffix(j) /\ End(j, "failed", runs[j] + 1)
  /\ UNCHANGED <<installed, upload, data, given, normalized, stuck>>

(***************************************************************************)
(* LibreOffice cannot be started or takes too long; SandboxExecutor raises *)
(* then, the others return None.  Either way there is no further attempt   *)
(* with this suffix.  The kill does not wait, and what soffice has started *)
(* may outlive it: it works in the directories of this attempt, and they   *)
(* may not be removed for it (DirsStay).                                   *)
(***************************************************************************)
TimeOut(j) ==
  /\ pc[j] = "running"
  /\ LeaveDirs(j)
  /\ NextSuffix(j)
  /\ End(j, "timed out", runs[j] + 1)
  /\ UNCHANGED <<installed, upload, data, given, normalized, stuck>>

\* An exception leaves the loop over attempts and the one over suffixes.
Raises(j) ==
  /\ Goes(j, IF Kind(j) = "doc" THEN "antiword" ELSE "refused")
  /\ End(j, "raised", runs[j])

\* A directory cannot be made, or the source not be written into it.
CannotStart(j) ==
  /\ pc[j] = "attempt"
  /\ Raises(j)
  /\ UNCHANGED <<installed, upload, data, given, todo, runs, normalized, disk, stuck>>

\* However the attempt has gone, its result is lost when one of its directories
\* cannot be removed.
DirsStay(j) ==
  /\ pc[j] = "running"
  /\ \E left \in SUBSET {OutDir(j), Profile(j)} \ {{}} :
       /\ disk' = disk \ ({OutDir(j), Profile(j)} \ left)
       /\ stuck' = stuck \cup left
  /\ Raises(j)
  /\ UNCHANGED <<installed, upload, data, given, todo, runs, normalized>>

\* What listdir() may find: with suffix .xlsx the source is taken for a result.
Found(j) == Products \cup (IF Head(todo[j]) = ".xlsx" THEN {data[j]} ELSE {})

\* A spreadsheet has come out, and goes through _open_excel_file() again.  One
\* that is no whole archive raises as its format is looked for, here or there.
TakeSheet(j, f) ==
  /\ pc[j] = "running" /\ Kind(j) = "sheet"
  /\ f \in Found(j)
  /\ HasFormat(f) \/ (data[j].format = "ods" /\ f.format # "empty")
  /\ LeaveDirs(j)
  /\ data' = [data EXCEPT ![j] = f]
  /\ todo' = [todo EXCEPT ![j] = <<>>]
  /\ Goes(j, "open")
  /\ UNCHANGED <<installed, upload, given, runs, normalized, stuck, ends>>

\* What has come out is of no use: the next suffix, or the engine for ods.
RejectSheet(j, f) ==
  /\ pc[j] = "running" /\ Kind(j) = "sheet"
  /\ f \in Found(j)
  /\ ~ HasFormat(f) /\ (data[j].format = "ods" => f.format = "empty")
  /\ LeaveDirs(j)
  /\ NextSuffix(j)
  /\ End(j, "rejected", runs[j] + 1)
  /\ UNCHANGED <<installed, upload, data, given, normalized, stuck>>

\* A presentation has come out, or an empty file.
TakeSlides(j) ==
  /\ pc[j] = "running" /\ Kind(j) = "slides"
  /\ LeaveDirs(j)
  /\ \/ Goes(j, "done") /\ UNCHANGED ends
     \/ Goes(j, "refused") /\ End(j, "rejected", runs[j] + 1)
  /\ UNCHANGED <<installed, upload, data, given, todo, runs, normalized, stuck>>

\* A document has come out; the docx chain answers it, or raises.
TakeDoc(j) ==
  /\ pc[j] = "running" /\ Kind(j) = "doc"
  /\ \/ /\ disk' = disk \ {OutDir(j), Profile(j), DocFile(j)}
        /\ Goes(j, "done")
        /\ UNCHANGED ends
     \/ /\ LeaveDirs(j)
        /\ Goes(j, "antiword")
        /\ End(j, "rejected", runs[j] + 1)
  /\ UNCHANGED <<installed, upload, data, given, todo, runs, normalized, stuck>>

JobStep(j) ==
  \/ Normalize(j)
  \/ ConvertOds(j)
  \/ PrepareXlsx(j)
  \/ ReadOther(j)
  \/ KeepSlides(j)
  \/ ConvertSlides(j)
  \/ ConvertDoc(j)
  \/ RunAntiword(j)
  \/ CannotSave(j)
  \/ FileStays(j)
  \/ StartAttempt(j)
  \/ CannotStart(j)
  \/ DirsStay(j)
  \/ NoSoffice(j)
  \/ Fail(j)
  \/ TimeOut(j)
  \/ \E f \in Products \cup {data[j]} : TakeSheet(j, f) \/ RejectSheet(j, f)
  \/ TakeSlides(j)
  \/ TakeDoc(j)

Next == \E j \in Jobs : JobStep(j)

Spec == Init /\ [][Next]_vars

\* Every request runs in a thread of its own, every command under a timeout.
FairSpec == Spec /\ \A j \in Jobs : WF_vars(JobStep(j))

-------------------------------------------------------------------------------
Ended(j) == pc[j] \in {"done", "refused"}

(***************************************************************************)
(* The directories of a running LibreOffice exist until its attempt is     *)
(* over, whatever other requests remove; outside of an attempt, and after  *)
(* the request, nothing is left, on whichever way out of it, but what could *)
(* not be removed or was never filled.                                     *)
(***************************************************************************)
DiskIsOwn ==
  \A j \in Jobs :
    /\ OutDir(j) \in disk <=> pc[j] = "running" \/ OutDir(j) \in stuck
    /\ Profile(j) \in disk <=> pc[j] = "running" \/ Profile(j) \in stuck
    /\ DocFile(j) \in disk <=>
         \/ Kind(j) = "doc" /\ pc[j] # "open" /\ ~ Ended(j)
         \/ DocFile(j) \in stuck

\* What a conversion of this request has to try.
ToTry(j) ==
  CASE Kind(j) = "doc"                                -> {".doc"}
    [] Kind(j) = "slides"                             -> {".ppt"}
    [] Kind(j) = "sheet" /\ given[j].format = "ods"   -> {".ods"}
    [] Kind(j) = "sheet" /\ given[j].format # "ods"   -> ToSet(SuffixList(upload[j].type))

\* LibreOffice is missing, or has been run as often as it may be, or has not
\* answered in time, or has made what cannot be used.
GivenUp(j, x) ==
  \E e \in ends[j] :
    /\ e.suffix = x
    /\ e.how = "no soffice" => ~ installed
    /\ e.how = "failed" => e.runs = MaxAttempts

\* The manifest gives shared strings that no repair finds or removes.
Unrepairable(f) ==
  \/ f.part = "none" /\ f.ref # "none" /\ (f.used \/ f.odd)
  \/ f.part = "standard" /\ f.ref = "other"

\* The manifest gives them where they are, and the repair renames them.
BrokenByRepair(f) == f.part = "other" /\ f.ref = "other"

(***************************************************************************)
(* A file is refused for a reason: each suffix of the conversion it needs  *)
(* has been given up, a failing LibreOffice only after all its attempts;   *)
(* or something raised; or it is no ods file and its format is known, and  *)
(* it is no xlsx file, or one that is not repaired, or one that was in     *)
(* order until the repair.  A workbook that is answered loads and has no   *)
(* merged cells left.                                                      *)
(***************************************************************************)
RefusedForAReason ==
  \A j \in Jobs :
    /\ pc[j] = "refused" =>
         \/ \A x \in ToTry(j) : GivenUp(j, x)
         \/ \E e \in ends[j] : e.how = "raised"
         \/ /\ Kind(j) = "sheet" /\ HasFormat(given[j]) /\ given[j].format # "ods"
            /\ given[j].format = "xlsx" =>
                 Unrepairable(given[j]) \/ BrokenByRepair(given[j])
    /\ pc[j] = "done" /\ Kind(j) = "sheet" /\ data[j].format = "xlsx" =>
         Loads(data[j]) /\ ~ data[j].merged

\* Every request comes to an end, however LibreOffice and the file behave.
EveryConversionEnds == \A j \in Jobs : <>Ended(j)
===============================================================================
