----------------------------- MODULE ParseService -----------------------------
(***************************************************************************)
(* docreader/main.py and the parsers behind it: Read and ReadStream        *)
(* requests queue for a thread of the gRPC pool, a thread takes a request  *)
(* through the stages of its parser, each of which can fail and have a     *)
(* fallback, waits for a parser slot (WorkerLimit) where the stage is      *)
(* heavy, and answers with one message or with a stream of frames.         *)
(*                                                                         *)
(* A stage either works, works and finds nothing, or raises; what it finds *)
(* is reduced to the number of images.  The two RPCs differ only in how    *)
(* they answer, so a request is told to be one or the other at that point. *)
(***************************************************************************)
EXTENDS WorkerLimit

CONSTANTS
  Workloads,    \* which parser each request may ask for
  GrpcWorkers,  \* grpc_max_workers: the threads of the pool
  MaxImages     \* bound on the images of a document

AllKinds == {"pdf", "scanned", "opendataloader", "markitdown", "docx", "doc",
             "other", "unsupported"}

ASSUME ServiceAssumption ==
  /\ Workloads \subseteq [Tasks -> AllKinds]
  /\ Names = {"pdf_render", "markitdown", "opendataloader"}
  /\ GrpcWorkers \in Nat \ {0}
  /\ MaxImages \in Nat

VARIABLES
  queue,   \* the requests that wait for a thread
  kind,    \* the parser of each request
  at,      \* the stage each request is in
  failed,  \* the stages of a request that gave no document: for properties only
  images,  \* the images of the answer that have not been sent
  frames   \* the messages sent back

serviceVars == <<queue, kind, at, failed, images, frames>>
vars == <<limitVars, serviceVars>>

\* Stages a thread works in; "new", "queued" and "closed" need none.
Stages == {"route", "route_render", "assemble", "scan", "scan_render", "odl",
           "odl_convert", "mit", "mit_convert", "mit_again", "markdown",
           "docx_native", "soffice", "antiword", "other", "unsupported",
           "reply", "nothing", "raised", "sending"}

\* registry.get_parser_class() and the parser's own first step.
FirstStage ==
  [pdf |-> "route", scanned |-> "scan", opendataloader |-> "odl",
   markitdown |-> "mit", docx |-> "mit", doc |-> "soffice", other |-> "other",
   unsupported |-> "unsupported"]

\* The messages of an answer: a failure, or the document and its images.
Failure == [type |-> "error", count |-> 0]
Meta(n) == [type |-> "meta", count |-> n]
Image == [type |-> "image", count |-> 0]
Whole(n) == [type |-> "whole", count |-> n]

Init ==
  /\ LimitInit
  /\ queue = <<>>
  /\ kind \in Workloads
  /\ at = [r \in Tasks |-> "new"]
  /\ failed = [r \in Tasks |-> {}]
  /\ images = [r \in Tasks |-> 0]
  /\ frames = [r \in Tasks |-> <<>>]

-------------------------------------------------------------------------------
\* The request moves on from stage s to stage z.
Go(r, s, z) ==
  /\ at[r] = s
  /\ at' = [at EXCEPT ![r] = z]

Arrive(r) ==
  /\ Go(r, "new", "queued")
  /\ queue' = Append(queue, r)
  /\ UNCHANGED <<limitVars, kind, failed, images, frames>>

Busy == {r \in Tasks : at[r] \in Stages}

\* A thread of the pool becomes free for the request at the head.
Start(r) ==
  /\ queue # <<>>
  /\ Head(queue) = r
  /\ Cardinality(Busy) < GrpcWorkers
  /\ queue' = Tail(queue)
  /\ Go(r, "queued", FirstStage[kind[r]])
  /\ UNCHANGED <<limitVars, kind, failed, images, frames>>

Waits == UNCHANGED <<queue, kind, failed, images, frames>>

\* Stage s gave a document with n images: z is next.
Works(r, s, n, z) ==
  /\ Go(r, s, z)
  /\ images' = [images EXCEPT ![r] = n]
  /\ UNCHANGED <<queue, kind, failed, frames>>

\* Stage s gave no document: z is next.
FailsTo(r, s, z) ==
  /\ Go(r, s, z)
  /\ failed' = [failed EXCEPT ![r] = @ \cup {s}]
  /\ UNCHANGED <<queue, kind, images, frames>>

\* A step of the thread outside every heavy section.
Free == UNCHANGED limitVars

\* The limited section name n of stage z is entered from stage s.
Begin(r, s, n, z) == Go(r, s, z) /\ Enter(r, n) /\ Waits

-------------------------------------------------------------------------------
\* PDFParser._route(): classify the pages, render the scanned ones.
RoutePages(r) ==
  \/ Begin(r, "route", "pdf_render", "route_render")
  \/ Go(r, "route", "assemble") /\ Free /\ Waits
  \/ FailsTo(r, "route", "scan") /\ Free

\* Fault: the slot is given back only if the pages were rendered.
RenderWithoutFinally(r) ==
  \/ Leave(r) /\ Go(r, "route_render", "assemble") /\ Waits
  \/ /\ step[r] = "inside"
     /\ step' = [step EXCEPT ![r] = "out"]
     /\ name' = [name EXCEPT ![r] = NoName]
     /\ limiter' = [limiter EXCEPT ![r] = 0]
     /\ FailsTo(r, "route_render", "scan")
     /\ UNCHANGED <<lock, limiters, value>>

RenderScannedPages(r) ==
  /\ Leave(r)
  /\ \/ Go(r, "route_render", "assemble") /\ Waits
     \/ FailsTo(r, "route_render", "scan")

\* Fault: what is raised after the rendering is not caught.
AssembleUncaught(r) ==
  /\ Free
  /\ \/ \E n \in 0 .. MaxImages : Works(r, "assemble", n, "reply")
     \/ Works(r, "assemble", 0, "nothing")
     \/ FailsTo(r, "assemble", "raised")

\* The rest of _route(): embedded images and the text in reading order.
Assemble(r) ==
  /\ Free
  /\ \/ \E n \in 0 .. MaxImages : Works(r, "assemble", n, "reply")
     \/ Works(r, "assemble", 0, "nothing")
     \/ FailsTo(r, "assemble", "scan")

\* PDFScannedParser: every page becomes an image.
ScanPages(r) == Begin(r, "scan", "pdf_render", "scan_render")

\* Fault: the slot is kept while the pages are encoded.
RenderAllKeepingSlot(r) ==
  /\ step[r] = "inside"
  /\ Free
  /\ \/ \E n \in 1 .. MaxImages : Works(r, "scan_render", n, "reply")
     \/ FailsTo(r, "scan_render", "raised")

RenderAllPages(r) ==
  /\ Leave(r)
  /\ \/ \E n \in 1 .. MaxImages : Works(r, "scan_render", n, "reply")
     \/ Works(r, "scan_render", 0, "nothing")
     \/ FailsTo(r, "scan_render", "raised")

\* OpenDataLoaderParser; its fallback runs after the slot is given back.
ConvertOpenDataLoader(r) ==
  \/ Begin(r, "odl", "opendataloader", "odl_convert")
  \/ FailsTo(r, "odl", "raised") /\ Free

ReadOpenDataLoader(r) ==
  /\ Leave(r)
  /\ \/ \E n \in 0 .. MaxImages : Works(r, "odl_convert", n, "reply")
     \/ FailsTo(r, "odl_convert", "scan")
     \/ FailsTo(r, "odl_convert", "raised")

-------------------------------------------------------------------------------
\* FirstParser goes from the MarkItDown pipeline on to DocxParser.
AfterMarkitdown(r, otherwise) ==
  IF kind[r] \in {"docx", "doc"} THEN "docx_native" ELSE otherwise

\* StdMarkitdownParser: normalise the bytes, then convert them in a slot.
StartMarkitdown(r) ==
  \/ Begin(r, "mit", "markitdown", "mit_convert")
  \/ FailsTo(r, "mit", AfterMarkitdown(r, "raised")) /\ Free

\* Fault: the first failure goes on to the next parser with the slot.
ConvertWithoutSlot(r) ==
  \/ Leave(r) /\ Go(r, "mit_convert", "markdown") /\ Waits
  \/ /\ step[r] = "inside"
     /\ Free
     /\ FailsTo(r, "mit_convert", AfterMarkitdown(r, "raised"))

\* The slot is kept for the retry.
ConvertMarkitdown(r) ==
  \/ Leave(r) /\ Go(r, "mit_convert", "markdown") /\ Waits
  \/ /\ step[r] = "inside"
     /\ Free
     /\ FailsTo(r, "mit_convert", "mit_again")

\* The retry without data URIs keeps the slot.
RetryMarkitdown(r) ==
  /\ Leave(r)
  /\ \/ Go(r, "mit_again", "markdown") /\ Waits
     \/ FailsTo(r, "mit_again", AfterMarkitdown(r, "raised"))

\* The rest of the pipeline, and what FirstParser makes of its document.
FormatMarkdown(r) ==
  /\ Free
  /\ \/ \E n \in 0 .. MaxImages : Works(r, "markdown", n, "reply")
     \/ FailsTo(r, "markdown", AfterMarkitdown(r, "nothing"))
     \/ FailsTo(r, "markdown", AfterMarkitdown(r, "raised"))

\* The last parser of the chain: FirstParser raises nothing.
ParseDocx(r) ==
  /\ Free
  /\ \/ \E n \in 0 .. MaxImages : Works(r, "docx_native", n, "reply")
     \/ FailsTo(r, "docx_native", "nothing")

\* DocParser: a temporary file, then LibreOffice and the docx chain, else
\* antiword.  A Document is always true, so antiword is not tried when the
\* docx chain gives an empty one.
ConvertDoc(r) ==
  /\ Free
  /\ \/ Go(r, "soffice", "mit") /\ Waits
     \/ FailsTo(r, "soffice", "antiword")
     \/ FailsTo(r, "soffice", "raised")

RunAntiword(r) ==
  /\ Free
  /\ \/ Works(r, "antiword", 0, "reply")
     \/ FailsTo(r, "antiword", "nothing")

\* The parsers that use neither a slot nor a fallback.
ParseOther(r) ==
  /\ Free
  /\ \/ \E n \in 0 .. MaxImages : Works(r, "other", n, "reply")
     \/ FailsTo(r, "other", "nothing")
     \/ FailsTo(r, "other", "raised")

\* get_parser_class(): ValueError.
Refuse(r) == FailsTo(r, "unsupported", "raised") /\ Free
-------------------------------------------------------------------------------
\* The answer of request r goes on with message m and stage z.
Send(r, m, z) ==
  /\ at' = [at EXCEPT ![r] = z]
  /\ frames' = [frames EXCEPT ![r] = Append(@, m)]
  /\ UNCHANGED <<limitVars, queue, kind, failed>>

\* Both RPCs report a missing document and an exception alike.
AnswerFailure(r) ==
  /\ at[r] \in {"nothing", "raised"}
  /\ Send(r, Failure, "closed")
  /\ UNCHANGED images

\* Read: the whole document in one message, or the exception that building
\* it raised.
ReplyWhole(r) ==
  /\ at[r] = "reply"
  /\ \/ Send(r, Whole(images[r]), "closed")
     \/ Send(r, Failure, "closed")
  /\ images' = [images EXCEPT ![r] = 0]

\* Fault: the images are counted after the first one was taken out.
MetaCountsRest(r) ==
  /\ at[r] = "reply"
  /\ Send(r, Meta(IF images[r] > 0 THEN images[r] - 1 ELSE 0), "sending")
  /\ UNCHANGED images

\* ReadStream: the meta frame announces the number of images.
SendMeta(r) ==
  /\ at[r] = "reply"
  /\ Send(r, Meta(images[r]), "sending")
  /\ UNCHANGED images

SendImage(r) ==
  /\ at[r] = "sending"
  /\ images[r] > 0
  /\ Send(r, Image, "sending")
  /\ images' = [images EXCEPT ![r] = @ - 1]

EndStream(r) ==
  /\ images[r] = 0
  /\ Go(r, "sending", "closed")
  /\ UNCHANGED <<limitVars, queue, kind, failed, images, frames>>

\* The client goes away, or a frame cannot be built: nothing catches that
\* after the parser has returned.
AbortStream(r) ==
  /\ at[r] \in {"reply", "sending"}
  /\ at' = [at EXCEPT ![r] = "aborted"]
  /\ UNCHANGED <<limitVars, queue, kind, failed, images, frames>>

Answer(r) ==
  \/ AnswerFailure(r)
  \/ ReplyWhole(r)
  \/ SendMeta(r)
  \/ SendImage(r)
  \/ EndStream(r)
  \/ AbortStream(r)

ParsePdf(r) ==
  \/ RoutePages(r)
  \/ RenderScannedPages(r)
  \/ Assemble(r)
  \/ ScanPages(r)
  \/ RenderAllPages(r)
  \/ ConvertOpenDataLoader(r)
  \/ ReadOpenDataLoader(r)

ParseOffice(r) ==
  \/ StartMarkitdown(r)
  \/ ConvertMarkitdown(r)
  \/ RetryMarkitdown(r)
  \/ FormatMarkdown(r)
  \/ ParseDocx(r)
  \/ ConvertDoc(r)
  \/ RunAntiword(r)
  \/ ParseOther(r)
  \/ Refuse(r)

\* What the thread of request r does next.
Run(r) ==
  \/ Proceed(r) /\ UNCHANGED serviceVars
  \/ ParsePdf(r)
  \/ ParseOffice(r)
  \/ Answer(r)

Next == \E r \in Tasks : Arrive(r) \/ Start(r) \/ Run(r)

Spec == Init /\ [][Next]_vars

(***************************************************************************)
(* A thread goes on running, the pool hands out its threads in the order   *)
(* of the queue.  Nothing is assumed of the order in which a semaphore     *)
(* lets its waiters in.                                                    *)
(***************************************************************************)
FairSpec ==
  Spec /\ \A r \in Tasks : WF_vars(Start(r)) /\ WF_vars(Run(r))

-------------------------------------------------------------------------------
TypeOK ==
  /\ LimitTypeOK
  /\ queue \in Seq(Tasks)
  /\ kind \in Workloads
  /\ at \in [Tasks -> Stages \cup {"new", "queued", "closed", "aborted"}]
  /\ failed \in [Tasks -> SUBSET Stages]
  /\ images \in [Tasks -> 0 .. MaxImages]
  /\ frames \in [Tasks -> Seq([type : {"error", "meta", "image", "whole"},
                               count : 0 .. MaxImages])]

(***************************************************************************)
(* A thread holds a slot only in the stage that needs it: whatever raises  *)
(* in a heavy section, no slot goes on with the request into a fallback,   *)
(* an answer or another section.                                           *)
(***************************************************************************)
SlotOf ==
  [route_render |-> "pdf_render", scan_render |-> "pdf_render",
   odl_convert |-> "opendataloader", mit_convert |-> "markitdown",
   mit_again |-> "markitdown"]

NoSlotOutsideItsStage ==
  \A r \in Tasks : step[r] # "out" =>
    at[r] \in DOMAIN SlotOf /\ name[r] = SlotOf[at[r]]

(***************************************************************************)
(* "On any unexpected error the parser falls back to rendering all pages   *)
(* as images (safe last resort)", "first-success parser": a PDF raises, and *)
(* a Word document comes out empty, only when the last resort of its       *)
(* parser has failed too; the docx chain never raises.  A PDF whose pages  *)
(* hold nothing, and a doc file whose temporary file fails, are no such    *)
(* cases.                                                                  *)
(***************************************************************************)
LastResort ==
  [pdf |-> {"scan_render"}, scanned |-> {"scan_render"}, docx |-> {"docx_native"},
   doc |-> {"docx_native", "antiword"}]

FailsOnlyWhenExhausted ==
  \A r \in Tasks :
    /\ kind[r] \in {"pdf", "scanned"} /\ at[r] = "raised" =>
         LastResort[kind[r]] \cap failed[r] # {}
    /\ kind[r] \in {"docx", "doc"} /\ at[r] = "nothing" =>
         LastResort[kind[r]] \cap failed[r] # {}
    /\ kind[r] = "docx" => at[r] # "raised"

(***************************************************************************)
(* "Streaming read: yields one meta frame, then one frame per image": a    *)
(* stream that ends regularly has delivered the announced number.          *)
(***************************************************************************)
IsStream(fs) ==
  /\ fs # <<>>
  /\ fs[1].type = "meta"
  /\ \A i \in 2 .. Len(fs) : fs[i].type = "image"

AnswersAreComplete ==
  \A r \in Tasks : at[r] = "closed" =>
    \/ Len(frames[r]) = 1 /\ frames[r][1].type \in {"error", "whole"}
    \/ IsStream(frames[r]) /\ Len(frames[r]) = frames[r][1].count + 1

(***************************************************************************)
(* Every request that arrives is answered or aborted: the slots, the lock  *)
(* of the registry and the pool never leave it waiting forever, also when  *)
(* every thread of the pool waits for a slot and others stand behind them. *)
(***************************************************************************)
EveryRequestEnds ==
  \A r \in Tasks : (at[r] = "queued") ~> (at[r] \in {"closed", "aborted"})
===============================================================================
