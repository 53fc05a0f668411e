# Verification of FileParserTool

FileParserTool turns uploaded documents into Markdown (the gRPC service in
`src/docreader/`) and cuts Markdown into chunks for retrieval
(`src/chunker/`). This directory holds TLA+ models of the parts of it whose
correctness depends on order, state carried from step to step, or several
threads; TLC checks them on small instances, and TLAPS proves the main results
for every instance.

## The system

| Part | State | Operations | Hard behaviour | What makes it correct |
|---|---|---|---|---|
| `chunker/splitter.py` merge loop | chunk in hand, its length, chunks, header tracker | read a unit, flush, overlap, repeat a header, cut an oversized unit | books kept by hand, order of the steps, two size limits | the chunks cover the document, fit, advance, and carry the header of their table |
| `chunker/header_tracker.py` | active header, pending flags | `update` once per unit | state that outlives what it describes | a header belongs to the rows it stands in front of |
| `docreader/parser/concurrency.py` | registry of semaphores and its lock | enter and leave a heavy section | several threads, first use, exceptions | at most `max_workers` inside, no permit lost |
| `docreader/main.py`, `parser.py`, `registry.py` | thread pool, requests, images still to send | `Read`, `ReadStream` | waiting for threads and slots, failures between frames | every request ends, every stream is complete |
| PDF, MarkItDown, OpenDataLoader, DOC and DOCX parsers | none between calls, temporary files | parse with fallbacks | any stage may raise or find nothing | the last resort is tried, slots are given back first |
| `chunker/heading_splitter.py`, `heading_hierarchy.py` | heading stack, chunks | sections, breadcrumbs, coalescing | numbering and adjacency after merging | the chunks cover the document, breadcrumbs are true where they stand |
| `chunker/heuristic_splitter.py` | boundaries, chunks | pick boundaries, overlap | stepping back to an aligned boundary | no text is lost, chunks come in order and within their size |
| `chunker/strategy.py`, `profiler.py`, `validator.py` | two configurations, mutated in place | tiers, parent-child | repeated repair of one object, offsets and links of children | one configuration for all parents, no text lost, the right links |
| `docreader/parser/docx_parser.py` | process pool, temporary files | one task per page | results out of order, failed pages | order of pages, nothing left behind |
| `docreader/parser/excel_parser.py` and repairs, `ppt_convert.py`, `doc_parser.py` | temporary directories and profiles | open, repair, convert, retry | a loop that must end, failures in any step, several LibreOffice at once | every try is made, directories are there while needed and gone after, it ends |
| `docreader/splitter/` | none that a caller keeps | `split_text`, `restore_text` | none reached | not modelled: no caller, see below |
| text and web parsers, SSRF guard, decoding, authentication, configuration, Go client | none | one pass over the input | none between steps | not modelled, see below |

They interact by calls only: a gRPC thread runs one request from parser to
answer, the parsers share the process-wide semaphores, and the merge loop calls
its tracker once for every unit. A docx parser talks to its processes through
futures, a shared temporary copy of the document and picture files on disk. The
chunker is called with the Markdown that the service produced: `strategy.py`
picks a splitter, and the heading and heuristic splitters hand what is too long
for them to `split_text()`, which is the merge loop.

## Modules

The chunker:

* `HeaderTracker` - `HeaderTracker.update()` as an operator on a record. The
  dictionary of active headers holds at most one entry because one hook is
  registered; `ended_headers` is empty between calls because step 4 clears it.
* `MergeUnits` - `merge_units()` with `compute_overlap()`,
  `header_already_present()` and the repair of the configuration. One action
  for each way the loop body can go: `FlushAtTableBoundary`, `Extend`,
  `FlushAndOverlap`, `StartCutting` and `CutPiece` (the inner loop), `Finish`.
  The unit read is any of `UnitShapes`; the text of a unit is its kind, length,
  number of columns and position. Two texts are equal when they have the same
  position: documents in which a row repeats the header word for word are left out.
* `ChunkCover` - what a splitter promises: chunks in the order of the document,
  without a gap, never taken back, covering all of it in the end. `MergeUnits`
  and `HeadingSplitter` implement it (`CoversDocument`). The heuristic splitter
  does not, because it leaves out blank slices; its promise is `NoTextLost`.
* `SplitText` - what the other splitters see of the merge loop: any chunks that
  come one after the other, overlap backwards and reach further each time. These
  are facts proved of `MergeUnits` (`CoversDocument` and, up to the absolute
  maximum, `EveryChunkIsNew`), so the modules that use it allow what the code does.
* `HeadingSplitter` - the profile of the headings, the choice of the dominant
  level, the loop over the sections (`NextSection`), the hierarchy and its
  breadcrumbs (`Observe`, `CrumbAt`), sections that are split further
  (`InnerChunk`), the fallback, and `coalesce_tiny_chunks()` one chunk at a time.
  A line is a heading, a fence or anything else. The numbers that coalescing
  writes are left out: they go to an attribute that nobody reads.
* `HeuristicSplitter` - the boundaries as sets of positions, with a form feed
  anywhere in a line, the packing loop with one action for each branch, the aligned overlap, blocks that go to
  `split_text()`, sequence numbers, and the exception on protected text.
* `ParentChild` - `ensure_defaults()`, `resolve_chain_with_profile()`, `split()`
  and `split_parent_child()`. A tier answers anything `SplitText` allows; the
  heuristic tier also skips blank slices and may raise. On both levels a
  chunk may repeat a header of its own. The chain has one tier that matters, because `validate_chunks()` accepts everything.

The service and its parsers:

* `WorkerLimit` - `_get_limiter()` and `parser_worker_limit()`. Lookup and
  insertion are separate steps; the lock is what joins them.
* `SlotPool` - the promise of the limiter; `WorkerLimit` implements it
  (`SectionsAreLimited`).
* `ParseService` - composes `WorkerLimit` with the requests: `Arrive` and
  `Start` for the queue and the threads of the pool, one action for each stage
  of each parser, and the two ways to answer. Stages may work, find nothing or
  raise; their text processing is left out. `failed` is a history variable that
  only the properties read. The lines that choose `Read` or `ReadStream` come at
  the answer, because parsing does not depend on them.
* `DocxPages` - the parent process and the pool of one Word document. Parent:
  load, share, submit, collect in any order, order and print, remove, leave the
  pool. Processes: take a page, load, read, send, die or be terminated. A page is
  a sequence of texts and pictures; each picture may fail to be saved, and each
  removal may fail. `TmpIsDefault` says whether temporary files go to `/tmp`: only
  pictures there are remembered for removal (`docx_parser.py:828`). `faults` is a
  history variable.
* `Conversions` - requests that need LibreOffice or a repaired workbook:
  detection, open and repair, suffixes and attempts, antiword, and the
  directories of each attempt. Making or filling them may raise, which ends all
  suffixes, and each removal may fail. `given` (the bytes last looked at), `stuck`
  (what could not be removed or never filled) and `ends` (how each suffix ended,
  after how many runs) are history variables that only properties read.

`MCMergeUnits`, `MCHeadingSplitter`, `MCHeuristicSplitter`, `MCParentChild`,
`MCParseService`, `MCDocxPages` and `MCConversions` are the instances for TLC;
`MergeUnitsProofs`, `HeadingSplitterProofs`, `HeuristicSplitterProofs`,
`ParentChildProofs`, `WorkerLimitProofs`, `ParseServiceProofs`,
`DocxPagesProofs` and `ConversionsProofs` hold the theorems.

Operators whose comment begins with "Fault" are wrong versions of the operator
after them. They are never used by a specification; replacing the right one by
the wrong one shows that the property they are paired with can fail.

Numbers written into the code (the 50 and 200 characters that bound small chunks,
the page limit, the absolute maximum) are constants of the modules, so
that a small instance reaches both sides of every comparison with them.

## Runs

| Run | Question | Instance |
|---|---|---|
| `merge` | Are the books of the merge loop right, does it cover the document, fit and repeat the right header, and does it end? | up to 4 units out of 13 shapes, 4 configurations (one without overlap, one with a chunk size above the absolute maximum, one that has to be repaired), absolute maximum 7, cut window 3 |
| `every_table` | Does every table carry its header, if no header unit ever swallows an empty line? | up to 5 units out of 4 shapes: prose, a header, and rows of its width, one before an empty line; violated |
| `own_header` | Is a repeated header always that of the table? | as `merge`; violated |
| `headings` | Does cutting at headings, and joining tiny chunks, cover the document under breadcrumbs that are true, and is one pass of joining enough? | up to 4 lines out of 6 shapes (headings of 3 levels and 2 titles, a fence, prose), sizes 9 and 16, one repeated header of length 3 |
| `heuristics` | Does packing blocks with aligned overlaps keep the text, the order and the size? | up to 5 lines out of 8 shapes (chapter line, prose short, long and with a link, a form feed alone and one in the middle of a line, empty line, fence), 2 configurations |
| `answers` | Does the heuristic tier always answer? | as `heuristics`; violated |
| `tiers` | Do two levels of splitting keep the text and the links, under one configuration? | 3 documents with blank stretches, 2 parent and 2 child configurations, repeated headers of length 2 at both levels |
| `child_offsets` | Does every child stand at its text? | the documents of `tiers`, `split_text()` on both levels with a configuration that needs no repair; violated |
| `requests` | Do the slots, fallbacks and streams work, and does every request end, when there are more requests than threads? | 3 requests on 2 threads in three mixes that hold every kind (PDF, scanned; OpenDataLoader, docx; doc, MarkItDown; each with a light one), one slot for rendering and MarkItDown, no limit for OpenDataLoader, 1 image |
| `slots` | Do several first users make one semaphore, and does it bound them? | 3 PDFs, 3 threads, 2 slots, symmetry |
| `docx` | Do the pages come together in order, is the disk clean, and does the parse end, whatever dies? | up to 4 paragraphs of 3 shapes, 2 processes, a limit of 2 pages, more than 3 paragraphs are a large document with 2 on a page |
| `conversions` | Is no file refused without a reason, are all attempts made, are directories never mixed up, and does every request end? | 2 requests with any of 18 files, 6 things LibreOffice may produce, suffixes `.xlsx` and `.csv`, 2 attempts, LibreOffice installed or not |

Why the bounds are enough.

* Merge loop: it looks at the unit read, the chunk in hand and the tracker. Four
  units make a header, a row, a change of table and a row that is flushed, or a
  flush, an overlap and a second flush; lengths of one and two characters with
  sizes around them hit both sides of every comparison, and a unit longer than
  the absolute maximum is cut into two pieces or more.
* Headings: four lines make a chapter with two sections and a chapter after it,
  a heading inside a fence, and three chunks to join; size 9 forces sections to
  be split further, size 16 lets them be joined.
* Heuristics: five lines make three blocks, so a flush with an overlap follows
  another one, and a long block stands between two that are packed.
* Tiers: a parent can be whole, divided or blank, with or without a repeated
  header, and up to three of them follow each other, so that the numbering of the
  parents that are returned has holes.
* Requests: with three requests on two threads one waits in the queue of the pool
  while two contend for a slot or wait for it, and is served when one of them
  ends; `slots` lets three threads contend for two permits.
* Docx: two processes and two pages are the least with an order of completion
  and a death while another page is read; the page limit drops pages in
  documents of three pages.
* Conversions: requests share nothing but the disk, so two are enough to get in
  each other's way; two attempts are the least with a retry.

The proofs remove the bounds for every invariant of the passing runs, and for the
refinements.

`CHECK_DEADLOCK FALSE` stands where the system stops: at the end of the
document, when every request has been answered, or with an exception.

Findings. The rows of the second of two Markdown tables can go wrong in two
ways, both ruled out by the tests of the repository for the documents they use.
`every_table`: when the last row of the first table swallows the empty line, the
next unit ends that table; if this unit is the second header, the hook that was
just ended (`header_tracker.py:163`) is skipped by the search (`:106`), the header
is never tracked, and a chunk can start with rows that have none. `own_header`: the
header unit itself swallows an empty line, which the check before it misses
(`:82`, or `:83` for a header without names), so the first header stays active and
is shown over rows of the second table. `child_offsets`: a parent that repeats a
table header has it in its content but not in its start, so adding the start to
the positions of its children places them too far behind by the length of the
header (`splitter.py:611`, `strategy.py:313`), though `splitter.py:603` says that
positions stay correct. (The class comment of `Chunk` does not hold for a chunk
with a repeated header either; `ChunksAreSlices` states what does.) `answers`: `drop_bounds_inside_spans()` indexes tuples by name
(`heuristic_splitter.py:221`), so a long text with a boundary and a table row, a
link or a fenced block raises a `TypeError` that no caller catches, while
`profiler.py:294` says that callers always receive chunks. The other properties
of the heuristic splitter are therefore about texts without anything protected.
`RowsCarryHeader` and `HeaderStaysInItsTables` state what does hold of headers.

Scope of single properties. `EveryChunkIsNew`, `RowsCarryHeader` and
`RepeatedHeadersDoNotFit` are stated for a chunk size up to the absolute
maximum: above it, the flush at `splitter.py:516` can make a chunk of overlap or
of a header alone, which a configuration of the run includes. `HeadingSplitter`
builds on the last one: a chunk of `split_text()` with a repeated header and no
overlap does not fit into the chunk before it, and so is never joined to it.
`CrumbsTrue` asks for all open headings only of chunks that were not joined, as
a joined chunk stands under what its parts share. `NothingLeftBehind` and
`PagesInOrder` name the failures they excuse: a removal that failed, a page that
was lost, a picture that could not be saved; the first is about pictures only where
temporary files go to `/tmp`, and not about their directories.
`FailsOnlyWhenExhausted` is about requests that are answered with a failure: a PDF
that ends with empty content and a Word request ended by an escaping exception are
outside of it. `ChildrenLinked` asks for offsets only below a parent without a
repeated header; `child_offsets` shows the other case. `RefusedForAReason` takes
three reasons: the suffixes given up (a failing LibreOffice only after all its
attempts, a timeout or a refused product at once, as the code does), an exception,
or a workbook of a known format that cannot be repaired. A sound workbook that the
repair itself breaks is named among the last (`BrokenByRepair`,
`xlsx_repair.py:92`): the code promises nothing for it.

`Conversions` leaves two things out. `doc_parser.py:88` kills LibreOffice without
waiting for it, and what its child processes do after that is not modelled. And
no conversion to xlsx makes an ods file (`ProductsAssumption`): the code has no
guard against it, and would convert again (`excel_parser.py:171`). Products that are no
archive, or a truncated one, or are refused, are in the run.

Oversized units are plain text in the instance: protected spans, tables and
code blocks among them, are cut to the absolute maximum before they get here
(`build_units_with_protection`).

## Fairness

The merge loop and the heading splitter are sequential: weak fairness of the next
step says that they run; which way they take is never promised. In `headings` this
includes reading the next line, and documents are finite. The heuristic splitter
and the tiers have no liveness property. A request runs in a thread: weak fairness of `Run(r)`
for each request says that its thread goes on and that a conversion called in it
returns (LibreOffice has a timeout; MarkItDown, pdfium and OpenDataLoader are
trusted to return), weak fairness of `Start(r)` that the pool hands out free
threads. Nothing is assumed of who gets a slot next: Python's semaphore lets a
newcomer overtake. Since each request enters at most three sections, nobody is
overtaken forever. In `Conversions`, weak fairness of `JobStep(j)` for each
request: it has a thread of its own, and every command it starts has a timeout;
no attempt is assumed to succeed. In `DocxPages`, weak fairness of `Progress`,
the steps of parent and pool together: as long as one of them can go on, one
does. The death of a process is allowed at any point and never required.

## Proofs

All proofs are for arbitrary constants under the named assumptions.

* `MergeUnitsProofs`. The inductive invariant `IInv` says of every chunk that it
  is well laid out and within its budget, of the chunk in hand that it could be
  flushed now and would be the next chunk, and of an oversized unit being cut
  that it starts where the chunks end. The properties alone are not inductive:
  they say nothing of the chunk in hand. From it: `TypeOK`, `ChunksAreSlices`,
  `WithinBudget`, `EveryChunkIsNew`, and the refinement `CoversDocument`. Four more
  stand on it. `LengthsAreExact`: the length of a stretch is the sum of its units
  (`SliceLength`), and every step counts the same. `ApartInv`: a repeated header is
  only put in front of a unit that did not fit (`RepeatedHeadersDoNotFit`).
  `StaysInv` compares with the document read so far: the chunk in hand is its end,
  the tracked header comes from one of its units, and from there to the end all
  lines are rows of the same width, or a break is pending
  (`HeaderStaysInItsTables`). `CarryInv`: while a regular table is open, the tracker
  knows its header, and the chunk in hand shows it or has no room (`RowsCarryHeader`).
* `HeadingSplitterProofs`. `CoverInv` follows the document through three
  sequences: the lines touch each other, the chunks before coalescing reach from
  the start to the section in hand, and the chunks returned with the one being
  joined reach as far as the chunks already looked at. Joining keeps this
  because only neighbours that touch are joined. From it: every piece of text
  has its place (`ChunksArePlaced`), and the refinement `CoversDocument`. `TextInv`:
  a chunk is exactly the lines from its start to its end, or, if it was cut out of a
  section, is never joined (`ChunksAreStretches`). `CrumbInv`: before each section the stack
  holds the headings that are open there (`Path`), and what parts of a joined chunk
  share stays open through it (`StayOpen`), so `CrumbsTrue`. `PackInv`: of two
  neighbours in the result the first was too large to look for more, or they could
  not be joined when it was given up; what is joined later makes them only longer
  and leaves less in common (`NothingLeftToJoin`). `TypeOK` needs
  `CoverInv`: a breadcrumb is cut to a depth that exists.
* `HeuristicSplitterProofs`. `SplitInv` has `HandOK` at its heart: when the chunk
  in hand is not empty, a boundary lies between its start and its end. The overlap
  takes such a boundary or stops short of it, so it never steps back behind the
  start. From it: `TypeOK`, `NoTextLost`, `InOrder` and
  `WithinSlack`.
* `ParentChildProofs`. Repairing a repaired configuration changes nothing
  (`ConfigOK`); the chunks of a tier keep the text up to `reach` (`TierOK`), and
  so do the parents, then the children of the parents done so far (`ParentsOK`,
  `ChildrenOK`), with links into the parents that are returned (`LinksOK`). From
  them: `OneConfigForAll`, `NoTextLost` and `ChildrenLinked`.
* `WorkerLimitProofs`. `LimitInv` adds to the counts who holds the lock, that a
  thread about to insert still finds no semaphore, and that two names never
  share one; so every thread inside a section was counted by the one semaphore
  of its name. From it: `PermitsConserved` and the refinement `SectionsAreLimited`.
* `ParseServiceProofs`. `UsesLimiter` shows that each step of the service is a
  step or a stutter of the limiter, which carries the two results over.
  `ServiceInv` adds which stages each parser can be in and what is still to be
  sent of a stream; `Moves` says what any stage may do, so the invariant is
  proved once for all stages. From it: `TypeOK`, `NoSlotOutsideItsStage`,
  `FailsOnlyWhenExhausted`, `AnswersAreComplete`.
* `DocxPagesProofs`. `PoolInv`: while a process needs the shared copy, the parent
  is inside the `with` statement of the pool, which ends only when nobody is
  left. `LeftInv`: the pages have their own pictures, a future settles only once,
  and when the files are removed every submitted page has been collected; a
  counting lemma says that what `Sorted` lists are members of its set. From
  them: `SharedWhileNeeded` and `NothingLeftBehind`. `OrderInv`: a page that came
  back was read whole, no page is collected twice, and once the lines are made they
  follow the document (`LinesOK`). This rests on what `Sorted` makes of a finite set
  with a strict total order, on `FlattenSeq` keeping the order, and on page numbers
  growing along the document. From it: `TypeOK` and `PagesInOrder`.
* `ConversionsProofs`. `DiskInv` pairs the stage of a request with what it has on
  disk. Every way out of an attempt goes through `LeaveDirs`, and directories
  belong to one request, so nobody removes those of another; what
  could not be removed is in `stuck`. From it: `DiskIsOwn`. `ReasonInv`: while a
  conversion is under way each suffix is left or has been given up, and the number
  of runs is counted, so a refusal comes when all were given up for a reason
  (`GivenUp`), from an exception, or from a workbook that the repair does not help
  or breaks: `RefusedForAReason`.

Several of these proofs need the value of a recursive function or a fold: sums of
lengths, the stack of headings, the joined lines. The induction theorems of the
library take an operator as a parameter, which the provers cannot instantiate, so
each module states induction over sets of numbers (`UpTo`: what holds of 0 and goes
from each number to the next holds up to N) and shows with it that the recursive
definition has a value that satisfies its equations (`RecursionFound`, `JoinsFound`,
`SliceLength`); the rest of the proof uses the equations only.

Only model-checked: liveness (`Terminates` twice, `EveryRequestEnds`,
`EveryParseEnds`, `EveryConversionEnds`). Reasoning about fairness needs `ENABLED`,
which the provers do not handle. Every invariant of the passing runs is a theorem,
and so is every refinement.

## What is left

1. Units: `split_by_separators` and `build_units_with_protection` as recursive
   functions against a reference, over bounded texts.
2. What liveness stands on, as safety: a measure that every step of the splitters
   and of a request makes smaller, proved as an action property.

## Not modelled

* The legacy splitter in `docreader/splitter/`: nothing outside of that package
  imports it, and `src/chunker/` is its successor.
* The second halves of `heading_splitter.py` (from line 330) and
  `heuristic_splitter.py` (from line 313): copies of functions of other modules
  that nothing calls. `validator.py`: its place in the chain is taken by a
  function that accepts everything (`strategy.py:88`, a placeholder that a property
  would only restate).
* The statistics of the profiler, beyond the decisions taken from them; the
  regular expressions of chapter lines, separators and protected spans.
* Wording and layout of the Markdown, page classification and image extraction,
  the rows of an opened workbook, the single-pass text, web and EPUB parsers:
  loops over data without state between calls.
* Encodings, the tables of the SSRF guard, TLS and authentication (checks on one
  request without state), configuration, the generated protocol code and the Go
  client. Server start and stop, the health check and `ListEngines` change nothing
  that the models hold.

Some hazards have no property: the number written to an unread attribute
(`heading_splitter.py:166`), pictures that move up when one of them fails
(`docx_parser.py:1264`) or that lie outside of `/tmp` (`docx_parser.py:828`),
and an empty docx result that ends the chain before antiword
(`doc_parser.py:125`). The code does what it does there without promising
anything else, so a property would only repeat it.
