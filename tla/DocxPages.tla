------------------------------- MODULE DocxPages -------------------------------
(***************************************************************************)
(* docreader/parser/docx_parser.py: one Word document is cut into pages,   *)
(* a pool of processes reads the pages from a shared temporary copy and    *)
(* leaves the pictures in temporary files, the parent collects the pages   *)
(* as they complete, puts the references of the pictures into the text,    *)
(* orders the pages and removes the files.  When this yields no text or    *)
(* raises, the document is read again by a simple method.                  *)
(*                                                                         *)
(* A paragraph has text or not, a picture or not, and may end its page.    *)
(* What a page yields is a sequence of items: <<p, 0>> is the text of the  *)
(* p-th paragraph, <<p, 1>> its picture.  Document order is the            *)
(* lexicographic order of the items.                                       *)
(***************************************************************************)
EXTENDS Naturals, FiniteSets, SequencesExt

CONSTANTS
  Paragraphs,     \* the paragraphs a document can be made of
  MaxParagraphs,  \* bound on the number of paragraphs
  MaxWorkers,     \* processes of the pool
  MaxPages,       \* DocxParser.max_pages
  LargeDocument,  \* above this many paragraphs pages are estimated ...
  ParasPerPage,   \* ... to hold this many paragraphs each
  TmpIsDefault    \* temporary directories are made under /tmp

Paragraph == [text : BOOLEAN, pic : BOOLEAN, brk : BOOLEAN]

ASSUME ParagraphsAssumption == Paragraphs \subseteq Paragraph

ASSUME BoundsAssumption ==
  /\ MaxParagraphs \in Nat
  /\ MaxWorkers \in Nat \ {0}
  /\ MaxPages \in Nat \ {0}
  /\ LargeDocument \in Nat
  /\ ParasPerPage \in Nat \ {0}
  /\ TmpIsDefault \in BOOLEAN

VARIABLES
  doc,        \* the paragraphs of the document
  pc,         \* where the parent process is
  proc,       \* page -> what the pool is doing with it
  future,     \* page -> what the parent can know of it
  broken,     \* a process of the pool has died
  content,    \* page -> the content_sequence its process has made
  shared,     \* the shared copy of the document exists
  images,     \* the temporary picture files that exist
  collected,  \* the pages whose future has been looked at
  results,    \* the pages that came back, in the order they were collected
  lines,      \* all_lines: the pages in order, with their references
  answer,     \* the items of the document returned
  faults      \* what went wrong so far; only the properties read it

vars == <<doc, pc, proc, future, broken, content, shared, images, collected,
          results, lines, answer, faults>>

poolVars == <<proc, future, broken, content>>

Pages == 0 .. MaxParagraphs

Items == (1 .. MaxParagraphs) \X {0, 1}

Before(a, b) == a[1] < b[1] \/ (a[1] = b[1] /\ a[2] < b[2])

\* The members of S, smallest first.
Sorted(S, Less(_, _)) ==
  [k \in 1 .. Cardinality(S) |->
     CHOOSE x \in S : Cardinality({y \in S : Less(y, x)}) = k - 1]

InOrder(s) == \A i, j \in 1 .. Len(s) : i < j => Before(s[i], s[j])

\* What s has at the given places, in its order.
At(s, places) ==
  LET spots == Sorted(places, <) IN [k \in DOMAIN spots |-> s[spots[k]]]

-------------------------------------------------------------------------------
(***************************************************************************)
(* _identify_page_paragraph_mapping() and _apply_page_limit().             *)
(***************************************************************************)
Breaks(p) == {q \in 1 .. p - 1 : doc[q].brk}

\* The page of a paragraph: breaks are counted, or estimated in a large document.
PageOf(p) ==
  IF Len(doc) > LargeDocument THEN (p - 1) \div ParasPerPage
  ELSE Cardinality(Breaks(p))

\* The mapping without its empty pages; a document without paragraphs is one page.
MappedPages ==
  IF doc = <<>> THEN {0} ELSE {PageOf(p) : p \in DOMAIN doc}

PagesToProcess == {n \in MappedPages : n < MaxPages}

ParasOn(n) == {p \in DOMAIN doc : PageOf(p) = n}

(***************************************************************************)
(* What a page holds: the text of a paragraph comes before its picture.    *)
(***************************************************************************)
TextItems(ps) == {<<p, 0>> : p \in {q \in ps : doc[q].text}}

PicItems(ps) == {<<p, 1>> : p \in {q \in ps : doc[q].pic}}

ContentOf(n) ==
  Sorted(TextItems(ParasOn(n)) \cup PicItems(ParasOn(n)), Before)

IsPic(item) == item[2] = 1

\* Fault: a slot without a saved picture keeps a place holder.
FilledWithHolders(s, saved) ==
  LET rank(i) == Cardinality({j \in 1 .. i : IsPic(s[j])})
  IN  [i \in DOMAIN s |->
         IF ~ IsPic(s[i]) THEN s[i]
         ELSE IF rank(i) <= Len(saved) THEN saved[rank(i)] ELSE <<0, 1>>]

(***************************************************************************)
(* The second pass of process_page_multiprocess(): the k-th picture slot   *)
(* takes the k-th picture that was saved, a slot without one is dropped.   *)
(***************************************************************************)
Filled(s, saved) ==
  LET rank(i) == Cardinality({j \in 1 .. i : IsPic(s[j])})
      kept == {i \in DOMAIN s : IsPic(s[i]) => rank(i) <= Len(saved)}
  IN  At([i \in kept |-> IF IsPic(s[i]) THEN saved[rank(i)] ELSE s[i]], kept)

-------------------------------------------------------------------------------
(***************************************************************************)
(* The parent, up to the last task.                                        *)
(***************************************************************************)
Submitted == {n \in Pages : future[n] # "none"}

ToSubmit == PagesToProcess \ Submitted

Smallest(S) == CHOOSE n \in S : \A m \in S : n <= m

Init ==
  /\ doc \in BoundedSeq(Paragraphs, MaxParagraphs)
  /\ pc = "load"
  /\ proc = [n \in Pages |-> "idle"]
  /\ future = [n \in Pages |-> "none"]
  /\ broken = FALSE
  /\ content = [n \in Pages |-> <<>>]
  /\ shared = FALSE
  /\ images = {}
  /\ collected = {}
  /\ results = <<>>
  /\ lines = <<>>
  /\ answer = <<>>
  /\ faults = {}

\* _load_document(): a document that cannot be opened has no lines, hence no text.
Load ==
  /\ pc = "load"
  /\ pc' \in {"share", "simple"}
  /\ UNCHANGED <<doc, poolVars, shared, images, collected, results, lines,
                 answer, faults>>

\* _prepare_document_sharing(): writing may fail with the file half written.
ShareDocument ==
  /\ pc = "share"
  /\ shared' = TRUE
  /\ \/ /\ pc' = "submit"
        /\ UNCHANGED faults
     \/ /\ pc' = "simple"
        /\ faults' = faults \cup {"share"}
  /\ UNCHANGED <<doc, poolVars, images, collected, results, lines, answer>>

SubmitPage ==
  /\ pc = "submit"
  /\ ToSubmit # {}
  /\ ~ broken
  /\ LET n == Smallest(ToSubmit)
     IN  /\ proc' = [proc EXCEPT ![n] = "queued"]
         /\ future' = [future EXCEPT ![n] = "pending"]
  /\ UNCHANGED <<doc, pc, broken, content, shared, images, collected, results,
                 lines, answer, faults>>

\* submit() raises on a broken pool, and when no process can be started.
SubmitRaises ==
  /\ pc = "submit"
  /\ ToSubmit # {}
  /\ pc' = "give up"
  /\ faults' = faults \cup {"submit"}
  /\ UNCHANGED <<doc, poolVars, shared, images, collected, results, lines,
                 answer>>

AllSubmitted ==
  /\ pc = "submit"
  /\ ToSubmit = {}
  /\ pc' = "collect"
  /\ UNCHANGED <<doc, poolVars, shared, images, collected, results, lines,
                 answer, faults>>

-------------------------------------------------------------------------------
(***************************************************************************)
(* The processes of the pool: process_page_multiprocess().                 *)
(***************************************************************************)
Busy == {"loading", "reading", "sending"}

Running == {n \in Pages : proc[n] \in Busy}

Queued == {n \in Pages : proc[n] = "queued"}

\* The future of a page is decided, unless the pool has decided it already.
Settle(n, outcome) ==
  future' = [future EXCEPT ![n] = IF @ = "pending" THEN outcome ELSE @]

TakePage(n) ==
  /\ Queued # {}
  /\ n = Smallest(Queued)
  /\ Cardinality(Running) < MaxWorkers
  /\ proc' = [proc EXCEPT ![n] = "loading"]
  /\ UNCHANGED <<future, broken, content, images>>

\* _load_document_in_process(): no shared file, no document, an empty page.
LoadPage(n) ==
  /\ proc[n] = "loading"
  /\ \/ /\ shared
        /\ proc' = [proc EXCEPT ![n] = "reading"]
        /\ UNCHANGED future
     \/ /\ proc' = [proc EXCEPT ![n] = "gone"]
        /\ Settle(n, "empty")
  /\ UNCHANGED <<broken, content, images>>

\* Extraction finds nothing to read, or raises before a picture is written.
ReadNothing(n) ==
  /\ proc[n] = "reading"
  /\ proc' = [proc EXCEPT ![n] = "gone"]
  /\ Settle(n, "empty")
  /\ UNCHANGED <<broken, content, images>>

\* Pictures are written one by one; one that cannot be written is left out.
ReadPage(n) ==
  /\ proc[n] = "reading"
  /\ ParasOn(n) # {}
  /\ \E ok \in SUBSET PicItems(ParasOn(n)) :
       /\ content' = [content EXCEPT ![n] =
                        Filled(ContentOf(n), Sorted(ok, Before))]
       /\ images' = images \cup ok
  /\ proc' = [proc EXCEPT ![n] = "sending"]
  /\ UNCHANGED <<future, broken>>

\* The lines are sent to the parent, or cannot be sent.
SendPage(n) ==
  /\ proc[n] = "sending"
  /\ proc' = [proc EXCEPT ![n] = "gone"]
  /\ \E outcome \in {"lines", "lost"} : Settle(n, outcome)
  /\ UNCHANGED <<broken, content, images>>

\* A process dies: the pool is broken and every open future fails with it.
Die(n) ==
  /\ proc[n] \in Busy
  /\ ~ broken
  /\ broken' = TRUE
  /\ proc' = [m \in Pages |->
                IF m = n \/ proc[m] = "queued" THEN "gone" ELSE proc[m]]
  /\ future' = [m \in Pages |->
                  IF future[m] = "pending" THEN "lost" ELSE future[m]]
  /\ UNCHANGED <<content, images>>

\* The pool then terminates the processes that are still running.
Terminate(n) ==
  /\ broken
  /\ proc[n] \in Busy
  /\ proc' = [proc EXCEPT ![n] = "gone"]
  /\ UNCHANGED <<future, broken, content, images>>

WorkerMoves(n) ==
  \/ TakePage(n)
  \/ LoadPage(n)
  \/ ReadNothing(n)
  \/ ReadPage(n)
  \/ SendPage(n)
  \/ Terminate(n)

PoolStep(n) ==
  /\ WorkerMoves(n)
  /\ UNCHANGED <<doc, pc, shared, collected, results, lines, answer, faults>>

Death(n) ==
  /\ Die(n)
  /\ UNCHANGED <<doc, pc, shared, collected, results, lines, answer, faults>>

-------------------------------------------------------------------------------
(***************************************************************************)
(* The parent, from the first result on.                                   *)
(***************************************************************************)
Completed == {n \in Submitted : future[n] # "pending"}

\* as_completed(): any completed page, in any order; a failed one is dropped.
Collect(n) ==
  /\ pc = "collect"
  /\ n \in Completed \ collected
  /\ collected' = collected \cup {n}
  /\ results' = IF future[n] = "lines" THEN Append(results, n) ELSE results
  /\ UNCHANGED <<doc, pc, poolVars, shared, images, lines, answer, faults>>

\* The pictures that were saved for some pages.
SavedOn(ns) == {item \in UNION {ToSet(content[n]) : n \in ns} : IsPic(item)}

Returned == ToSet(results)

HasPictures == SavedOn(Returned) # {}

(***************************************************************************)
(* The page number a line is sorted by.  When there are pictures, a line   *)
(* without content is given the number of the line before it, or, as the   *)
(* first one, that of the last line with pictures.                         *)
(***************************************************************************)
LastPictureLine ==
  CHOOSE i \in DOMAIN results :
    /\ SavedOn({results[i]}) # {}
    /\ \A j \in DOMAIN results : j > i => SavedOn({results[j]}) = {}

PageNumber(i) ==
  LET full == {j \in 1 .. i : content[results[j]] # <<>>}
  IN  IF ~ HasPictures THEN results[i]
      ELSE IF full = {} THEN results[LastPictureLine]
      ELSE results[CHOOSE j \in full : \A k \in full : k <= j]

\* sorted() is stable.
SortedBefore(i, j) ==
  \/ PageNumber(i) < PageNumber(j)
  \/ PageNumber(i) = PageNumber(j) /\ i < j

\* Fault: the pages stay in the order in which they were collected.
CollectedOrder == [i \in DOMAIN results |-> i]

LineOrder == Sorted(DOMAIN results, SortedBefore)

\* A picture is shown when its reference was made, a text always.
Shown(n, urls) ==
  At(content[n], {i \in DOMAIN content[n] :
                    IsPic(content[n][i]) => content[n][i] \in urls})

\* Fault: the end is reached when every page has succeeded (completed_count).
ProcessWhenAllSucceed ==
  /\ pc = "collect"
  /\ Len(results) = Cardinality(Submitted)
  /\ \E urls \in SUBSET (SavedOn(Returned) \cap images) :
       lines' = [k \in 1 .. Len(results) |->
                   Shown(results[LineOrder[k]], urls)]
  /\ pc' = "clean"
  /\ UNCHANGED <<doc, poolVars, shared, images, collected, results, answer,
                 faults>>

\* _process_multiprocess_results(): reading a file back may fail.
ProcessResults ==
  /\ pc = "collect"
  /\ collected = Submitted
  /\ \E urls \in SUBSET (SavedOn(Returned) \cap images) :
       lines' = [k \in 1 .. Len(results) |->
                   Shown(results[LineOrder[k]], urls)]
  /\ pc' = "clean"
  /\ UNCHANGED <<doc, poolVars, shared, images, collected, results, answer,
                 faults>>

\* Fault: only the pictures that found their way into the text are removed.
CleanShownImages ==
  /\ pc = "clean"
  /\ images' = images \ ToSet(FlattenSeq(lines))
  /\ pc' = "leave"
  /\ UNCHANGED <<doc, poolVars, shared, collected, results, lines, answer,
                 faults>>

\* temp_img_paths: only what lies in /tmp/docx_img_... is remembered.
Remembered == IF TmpIsDefault THEN SavedOn(Returned) ELSE {}

\* The pictures of the pages that came back are removed, each on its own.
CleanImages ==
  /\ pc = "clean"
  /\ \E stuck \in SUBSET Remembered :
       /\ images' = images \ (Remembered \ stuck)
       /\ faults' = IF stuck = {} THEN faults ELSE faults \cup {"remove"}
  /\ pc' = "leave"
  /\ UNCHANGED <<doc, poolVars, shared, collected, results, lines, answer>>

\* Fault: the pool is left without waiting for its processes.
LeaveAtOnce ==
  /\ pc \in {"leave", "give up"}
  /\ pc' = IF pc = "leave" THEN "unshare" ELSE "simple"
  /\ UNCHANGED <<doc, poolVars, shared, images, collected, results, lines,
                 answer, faults>>

\* The end of the with statement waits until the pool has nothing left to do.
LeavePool ==
  /\ pc \in {"leave", "give up"}
  /\ Running = {} /\ Queued = {}
  /\ pc' = IF pc = "leave" THEN "unshare" ELSE "simple"
  /\ UNCHANGED <<doc, poolVars, shared, images, collected, results, lines,
                 answer, faults>>

\* _cleanup_temp_file(): an error is logged and the file stays.
Unshare ==
  /\ pc = "unshare"
  /\ \/ /\ shared' = FALSE
        /\ UNCHANGED faults
     \/ /\ UNCHANGED shared
        /\ faults' = faults \cup {"remove"}
  /\ pc' = "tables"
  /\ UNCHANGED <<doc, poolVars, images, collected, results, lines, answer>>

\* _process_tables(): the tables are only counted, but reading them may raise.
ProcessTables ==
  /\ pc = "tables"
  /\ pc' \in {"combine", "simple"}
  /\ UNCHANGED <<doc, poolVars, shared, images, collected, results, lines,
                 answer, faults>>

\* The lines are joined; without text the simple method takes over.
Combine ==
  /\ pc = "combine"
  /\ answer' = FlattenSeq(lines)
  /\ pc' = IF answer' = <<>> THEN "simple" ELSE "done"
  /\ UNCHANGED <<doc, poolVars, shared, images, collected, results, lines,
                 faults>>

\* _parse_using_simple_method(): the text of every paragraph, or nothing.
ParseSimply ==
  /\ pc = "simple"
  /\ answer' \in {Sorted(TextItems(DOMAIN doc), Before), <<>>}
  /\ pc' = "simply done"
  /\ UNCHANGED <<doc, poolVars, shared, images, collected, results, lines,
                 faults>>

ParentMoves ==
  \/ Load
  \/ ShareDocument
  \/ SubmitPage
  \/ SubmitRaises
  \/ AllSubmitted
  \/ \E n \in Pages : Collect(n)
  \/ ProcessResults
  \/ CleanImages
  \/ LeavePool
  \/ Unshare
  \/ ProcessTables
  \/ Combine
  \/ ParseSimply

Progress == ParentMoves \/ \E n \in Pages : PoolStep(n)

Next == Progress \/ \E n \in Pages : Death(n)

Spec == Init /\ [][Next]_vars

(***************************************************************************)
(* Parent and pool go on as long as one of them can; a death is never      *)
(* required.                                                               *)
(***************************************************************************)
FairSpec == Spec /\ WF_vars(Progress)

-------------------------------------------------------------------------------
ProcStates == {"idle", "queued", "gone"} \cup Busy

\* The variables have their types.
TypeOK ==
  /\ doc \in Seq(Paragraphs) /\ Len(doc) <= MaxParagraphs
  /\ pc \in {"load", "share", "submit", "collect", "clean", "leave",
             "give up", "unshare", "tables", "combine", "simple", "done",
             "simply done"}
  /\ proc \in [Pages -> ProcStates]
  /\ future \in [Pages -> {"none", "pending", "lines", "empty", "lost"}]
  /\ broken \in BOOLEAN
  /\ content \in [Pages -> Seq(Items)]
  /\ shared \in BOOLEAN
  /\ images \subseteq Items
  /\ collected \subseteq Pages
  /\ results \in Seq(Pages)
  /\ lines \in Seq(Seq(Items))
  /\ answer \in Seq(Items)
  /\ faults \subseteq {"share", "submit", "remove"}

(***************************************************************************)
(* Whatever happens to the pool and wherever the parent has got to, a      *)
(* process that is about to open the shared copy finds it: the parent only *)
(* removes it after the with statement of the pool has ended.              *)
(***************************************************************************)
SharedWhileNeeded == \A n \in Pages : proc[n] \in {"queued", "loading"} => shared

Ended == pc \in {"done", "simply done"}

(***************************************************************************)
(* What a call leaves on disk.  When every removal worked, the shared copy *)
(* is left only by a call whose copy or submission raised, and a picture,  *)
(* where temporary files go to /tmp, only by such a call or by a page that *)
(* did not come back.                                                      *)
(***************************************************************************)
NothingLeftBehind ==
  Ended /\ "remove" \notin faults =>
    /\ shared => faults # {}
    /\ \A n \in Pages :
         TmpIsDefault /\ images \cap SavedOn({n}) # {}
         => "submit" \in faults \/ future[n] = "lost"

(***************************************************************************)
(* The document made of pages has the text of every page that came back,   *)
(* once, in the order of the document, although the pages were collected   *)
(* in any order and some were lost; the pictures stand in their places     *)
(* when all of them could be saved.                                        *)
(***************************************************************************)
IsText(item) == ~ IsPic(item)

AllSaved == \A n \in Returned : SavedOn({n}) = PicItems(ParasOn(n))

PagesInOrder ==
  pc = "done" =>
    /\ \A i, j \in DOMAIN answer :
         i < j /\ IsText(answer[i]) /\ IsText(answer[j])
         => Before(answer[i], answer[j])
    /\ {item \in ToSet(answer) : IsText(item)} =
         UNION {TextItems(ParasOn(n)) : n \in Returned}
    /\ AllSaved => InOrder(answer)

(***************************************************************************)
(* Every parse ends, whatever fails: futures of a broken pool complete, a  *)
(* failed page counts as collected.                                        *)
(***************************************************************************)
EveryParseEnds == <>Ended
===============================================================================
