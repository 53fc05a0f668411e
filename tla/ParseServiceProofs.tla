-------------------------- MODULE ParseServiceProofs --------------------------
(***************************************************************************)
(* For any number of requests, threads, slots and images: the service uses *)
(* the limiter as it is meant to be used, gives every slot back before it  *)
(* goes on, tries the last resort before it fails, and ends no stream      *)
(* before the announced number of images has been sent.                    *)
(***************************************************************************)
EXTENDS ParseService, WorkerLimitProofs

\* The stages that each parser goes through.
Markitdown == {"mit", "mit_convert", "mit_again", "markdown"}
Scanned == {"scan", "scan_render"}

StagesOf(k) ==
  CASE k = "pdf" -> Scanned \cup {"route", "route_render", "assemble"}
    [] k = "scanned" -> Scanned
    [] k = "opendataloader" -> Scanned \cup {"odl", "odl_convert"}
    [] k = "markitdown" -> Markitdown
    [] k = "docx" -> Markitdown \cup {"docx_native"}
    [] k = "doc" -> Markitdown \cup {"docx_native", "soffice", "antiword"}
    [] OTHER -> {"other", "unsupported"}

\* The places outside every parser.
Waiting == {"new", "queued"}
Answering == {"reply", "nothing", "raised"}
Ended == {"closed", "aborted"}

StagesFit ==
  \A r \in Tasks :
    at[r] \in StagesOf(kind[r]) \cup Waiting \cup Answering \cup {"sending"} \cup Ended

\* What has been sent: nothing before the answer, and in the middle of a
\* stream the rest of the images is what is missing.
FramesFit ==
  \A r \in Tasks :
    /\ at[r] \notin {"sending"} \cup Ended => frames[r] = <<>>
    /\ at[r] = "sending" =>
         /\ IsStream(frames[r])
         /\ Len(frames[r]) + images[r] = frames[r][1].count + 1

ServiceInv ==
  /\ TypeOK
  /\ NoSlotOutsideItsStage
  /\ StagesFit
  /\ FailsOnlyWhenExhausted
  /\ FramesFit
  /\ AnswersAreComplete

-------------------------------------------------------------------------------
\* The service takes the steps of the limiter and no others.
LEMMA UsesLimiter == [Next]_vars => [LimitNext]_limitVars
<1> SUFFICES ASSUME [Next]_vars PROVE [LimitNext]_limitVars
  OBVIOUS
<1>n. {"pdf_render", "markitdown", "opendataloader"} = Names
  BY ServiceAssumption
<1>1. ASSUME NEW r \in Tasks, Arrive(r) \/ Start(r) \/ Answer(r)
      PROVE  [LimitNext]_limitVars
  BY <1>1 DEF Arrive, Start, Answer, AnswerFailure, ReplyWhole, SendMeta, SendImage,
              EndStream, AbortStream, Send
<1>2. ASSUME NEW r \in Tasks, ParsePdf(r)
      PROVE  [LimitNext]_limitVars
  BY <1>n, <1>2
  DEF LimitNext, ParsePdf, RoutePages, RenderScannedPages, Assemble, ScanPages,
      RenderAllPages, ConvertOpenDataLoader, ReadOpenDataLoader, Begin, Free
<1>3. ASSUME NEW r \in Tasks, ParseOffice(r)
      PROVE  [LimitNext]_limitVars
  BY <1>n, <1>3
  DEF LimitNext, ParseOffice, StartMarkitdown, ConvertMarkitdown, RetryMarkitdown,
      FormatMarkdown, ParseDocx, ConvertDoc, RunAntiword, ParseOther, Refuse,
      Begin, Free
<1>4. ASSUME NEW r \in Tasks, Proceed(r)
      PROVE  [LimitNext]_limitVars
  BY <1>4 DEF LimitNext
<1>5. CASE UNCHANGED vars
  BY <1>5 DEF vars, limitVars
<1> QED
  BY <1>1, <1>2, <1>3, <1>4, <1>5 DEF Next, Run

(***************************************************************************)
(* The service uses parser_worker_limit() correctly: every behaviour of it *)
(* is one of the limiter.                                                  *)
(***************************************************************************)
THEOREM ServiceUsesLimiter == Spec => LimitSpec
BY UsesLimiter, PTL DEF Spec, Init, LimitSpec

(***************************************************************************)
(* No more threads are in a heavy section than it has slots, however many  *)
(* requests there are (SectionsAreLimited).                                *)
(***************************************************************************)
THEOREM ServiceIsLimited == Spec => SectionsAreLimited
BY ServiceUsesLimiter, LimitCorrect

(***************************************************************************)
(* No permit is lost, whichever stage raises (PermitsConserved).           *)
(***************************************************************************)
THEOREM ServicePermits == Spec => []PermitsConserved
BY ServiceUsesLimiter, PermitsCorrect

-------------------------------------------------------------------------------
\* Nothing has happened yet.
LEMMA InitService == Init => ServiceInv
<1> SUFFICES ASSUME Init PROVE ServiceInv
  OBVIOUS
<1>1. TypeOK
  <2>1. LimitTypeOK
    BY InitLimitInv DEF Init, LimitInv
  <2> QED
    BY <2>1, ServiceAssumption DEF Init, TypeOK
<1>2. NoSlotOutsideItsStage
  BY DEF Init, LimitInit, NoSlotOutsideItsStage
<1>3. StagesFit /\ FailsOnlyWhenExhausted /\ FramesFit /\ AnswersAreComplete
  BY DEF Init, StagesFit, Waiting, Ended, FailsOnlyWhenExhausted, FramesFit,
         AnswersAreComplete
<1> QED
  BY <1>1, <1>2, <1>3 DEF ServiceInv

(***************************************************************************)
(* How a step moves a request from stage s of its parser to z: what it     *)
(* records, what it does with the slot, and where a failure can lead.      *)
(***************************************************************************)
Slotted == {"route_render", "scan_render", "odl_convert", "mit_convert", "mit_again"}

Parsing == Stages \ (Answering \cup {"sending"})

Records(r, s, z) ==
  \/ UNCHANGED <<failed, images>>
  \/ failed' = [failed EXCEPT ![r] = @ \cup {s}] /\ UNCHANGED images
  \/ UNCHANGED failed /\ \E n \in 0 .. MaxImages : images' = [images EXCEPT ![r] = n]

Slot(r, s, z) ==
  \/ Free /\ s \notin Slotted /\ z \notin Slotted
  \/ Free /\ s = "mit_convert" /\ z = "mit_again"
  \/ s \notin Slotted /\ z \in Slotted /\ Enter(r, SlotOf[z])
  \/ s \in Slotted /\ z \notin Slotted /\ Leave(r)

LeadsOn(r, s, z) ==
  /\ s \in StagesOf(kind[r]) => z \in StagesOf(kind[r]) \cup Answering
  /\ z = "raised" =>
       /\ failed' = [failed EXCEPT ![r] = @ \cup {s}]
       /\ s \notin {"route", "route_render", "assemble", "scan", "docx_native"}
       /\ kind[r] = "docx" => s \in Scanned \cup {"other", "unsupported", "odl",
                                                   "odl_convert", "soffice"}
  /\ z = "nothing" /\ kind[r] \in {"docx", "doc"} =>
       \/ s \in {"assemble", "scan_render", "other"}
       \/ failed' = [failed EXCEPT ![r] = @ \cup {s}] /\ s \in {"docx_native", "antiword"}

Moves(r, s, z) ==
  /\ s \in Parsing
  /\ z \in Parsing \cup Answering
  /\ Go(r, s, z)
  /\ UNCHANGED <<queue, kind, frames>>
  /\ Records(r, s, z)
  /\ Slot(r, s, z)
  /\ LeadsOn(r, s, z)

\* What a stage that works records.
LEMMA WorksRecords ==
  ASSUME NEW r, NEW s, NEW z, NEW n \in 0 .. MaxImages, Works(r, s, n, z)
  PROVE  Records(r, s, z)
BY DEF Works, Records

\* Every step of a PDF parser is such a move.
LEMMA PdfMoves ==
  ASSUME NEW r \in Tasks, kind[r] \in AllKinds, ParsePdf(r)
  PROVE  \E s, z : Moves(r, s, z)
<1> USE DEF Moves, Records, Slot, LeadsOn, StagesOf, Scanned, Markitdown, Slotted, Parsing,
            Stages, Answering, SlotOf, Begin, Go, Waits, Works, FailsTo, Free, AllKinds,
            AfterMarkitdown
<1>1. CASE RoutePages(r)
  BY <1>1 DEF RoutePages
<1>2. CASE RenderScannedPages(r)
  BY <1>2 DEF RenderScannedPages
<1>0. MaxImages \in Nat
  BY ServiceAssumption
<1>3. CASE Assemble(r)
  <2>1. CASE Free /\ \E n \in 0 .. MaxImages : Works(r, "assemble", n, "reply")
    BY <2>1
  <2>2. CASE Free /\ Works(r, "assemble", 0, "nothing")
    <3>0. 0 \in 0 .. MaxImages
      BY <1>0
    <3>2. Records(r, "assemble", "nothing")
      <4> HIDE DEF Works, Records
      <4> QED
        BY <3>0, <2>2, WorksRecords
    <3>1. Moves(r, "assemble", "nothing")
      BY <2>2, <3>2
    <3> QED
      BY <3>1
  <2>3. CASE Free /\ FailsTo(r, "assemble", "scan")
    BY <2>3
  <2> QED
    BY <1>3, <2>1, <2>2, <2>3 DEF Assemble
<1>4. CASE ScanPages(r)
  BY <1>4 DEF ScanPages
<1>5. CASE RenderAllPages(r)
  <2>1. CASE Leave(r) /\ \E n \in 1 .. MaxImages : Works(r, "scan_render", n, "reply")
    <3>0. \A n \in 1 .. MaxImages : n \in 0 .. MaxImages
      BY <1>0
    <3>2. Records(r, "scan_render", "reply")
      <4> HIDE DEF Works, Records
      <4> QED
        BY <2>1, <3>0, WorksRecords
    <3>1. Moves(r, "scan_render", "reply")
      BY <2>1, <3>2
    <3> QED
      BY <3>1
  <2>2. CASE Leave(r) /\ Works(r, "scan_render", 0, "nothing")
    <3>0. 0 \in 0 .. MaxImages
      BY <1>0
    <3>2. Records(r, "scan_render", "nothing")
      <4> HIDE DEF Works, Records
      <4> QED
        BY <3>0, <2>2, WorksRecords
    <3>1. Moves(r, "scan_render", "nothing")
      BY <2>2, <3>2
    <3> QED
      BY <3>1
  <2>3. CASE Leave(r) /\ FailsTo(r, "scan_render", "raised")
    <3>1. Moves(r, "scan_render", "raised")
      BY <2>3
    <3> QED
      BY <3>1
  <2> QED
    BY <1>5, <2>1, <2>2, <2>3 DEF RenderAllPages
<1>6. CASE ConvertOpenDataLoader(r)
  BY <1>6 DEF ConvertOpenDataLoader
<1>7. CASE ReadOpenDataLoader(r)
  BY <1>7 DEF ReadOpenDataLoader
<1> QED
  BY <1>1, <1>2, <1>3, <1>4, <1>5, <1>6, <1>7 DEF ParsePdf

\* Every step of the other parsers is such a move.
LEMMA OfficeMoves ==
  ASSUME NEW r \in Tasks, kind[r] \in AllKinds, ParseOffice(r)
  PROVE  \E s, z : Moves(r, s, z)
<1> USE DEF Moves, Records, Slot, LeadsOn, StagesOf, Scanned, Markitdown, Slotted, Parsing,
            Stages, Answering, SlotOf, Begin, Go, Waits, Works, FailsTo, Free, AllKinds,
            AfterMarkitdown
<1>1. CASE StartMarkitdown(r)
  BY <1>1 DEF StartMarkitdown
<1>2. CASE ConvertMarkitdown(r)
  BY <1>2 DEF ConvertMarkitdown
<1>3. CASE RetryMarkitdown(r)
  BY <1>3 DEF RetryMarkitdown
<1>4. CASE FormatMarkdown(r)
  BY <1>4 DEF FormatMarkdown
<1>5. CASE ParseDocx(r)
  BY <1>5 DEF ParseDocx
<1>6. CASE ConvertDoc(r)
  BY <1>6 DEF ConvertDoc
<1>7. CASE RunAntiword(r)
  <2>0. MaxImages \in Nat
    BY ServiceAssumption
  <2>1. CASE Free /\ Works(r, "antiword", 0, "reply")
    <3>0. 0 \in 0 .. MaxImages
      BY <2>0
    <3>2. Records(r, "antiword", "reply")
      <4> HIDE DEF Works, Records
      <4> QED
        BY <3>0, <2>1, WorksRecords
    <3>1. Moves(r, "antiword", "reply")
      BY <2>1, <3>2
    <3> QED
      BY <3>1
  <2>2. CASE Free /\ FailsTo(r, "antiword", "nothing")
    BY <2>2
  <2> QED
    BY <1>7, <2>1, <2>2 DEF RunAntiword
<1>8. CASE ParseOther(r)
  BY <1>8 DEF ParseOther
<1>9. CASE Refuse(r)
  <2>1. Moves(r, "unsupported", "raised")
    BY <1>9 DEF Refuse
  <2> QED
    BY <2>1
<1> QED
  BY <1>1, <1>2, <1>3, <1>4, <1>5, <1>6, <1>7, <1>8, <1>9 DEF ParseOffice

\* The stages with a slot, as a set and as the domain of SlotOf.
LEMMA SlottedStages ==
  /\ DOMAIN SlotOf = Slotted
  /\ SlotOf["mit_convert"] = SlotOf["mit_again"]
BY DEF SlotOf, Slotted

\* A move within a parser keeps the invariant.
LEMMA MoveKeeps ==
  ASSUME ServiceInv, LimitTypeOK', NEW r \in Tasks, NEW s, NEW z, Moves(r, s, z)
  PROVE  ServiceInv'
<1> USE DEF ServiceInv, Moves
<1>1. at[r] = s /\ at' = [at EXCEPT ![r] = z] /\ at \in [Tasks -> Stages \cup Waiting \cup Ended]
  BY DEF Go, TypeOK, Waiting, Ended
<1>2. s \in Stages /\ z \in Stages /\ z # "sending" /\ s \notin Answering /\ s # "sending"
  BY DEF Parsing, Answering, Stages
<1>3. TypeOK'
  <2>1. failed' \in [Tasks -> SUBSET Stages] /\ images' \in [Tasks -> 0 .. MaxImages]
    BY <1>2 DEF Records, TypeOK
  <2>2. at' \in [Tasks -> Stages \cup {"new", "queued", "closed", "aborted"}]
    BY <1>1, <1>2 DEF Waiting, Ended
  <2> QED
    BY <2>1, <2>2 DEF TypeOK
<1>4. NoSlotOutsideItsStage'
  <2> SUFFICES ASSUME NEW q \in Tasks, step'[q] # "out"
               PROVE  at'[q] \in Slotted /\ name'[q] = SlotOf[at'[q]]
    BY SlottedStages DEF NoSlotOutsideItsStage
  <2>1. step \in [Tasks -> Steps] /\ name \in [Tasks -> Names \cup {NoName}]
    BY DEF TypeOK, LimitTypeOK
  <2>2. \A t \in Tasks : step[t] # "out" => at[t] \in Slotted /\ name[t] = SlotOf[at[t]]
    BY SlottedStages DEF NoSlotOutsideItsStage
  <2>3. CASE q # r
    BY <1>1, <2>1, <2>2, <2>3 DEF Slot, Free, limitVars, Enter, Leave
  <2>4. CASE q = r
    BY <1>1, <2>1, <2>2, <2>4, SlottedStages
    DEF Slot, Free, limitVars, Enter, Leave, Slotted
  <2> QED
    BY <2>3, <2>4
<1>5. StagesFit'
  <2>1. s \in StagesOf(kind[r])
    <3>1. s \notin Waiting \cup Answering \cup {"sending"} \cup Ended
      BY DEF Parsing, Waiting, Answering, Ended, Stages
    <3> QED
      BY <1>1, <3>1 DEF StagesFit
  <2>2. z \in StagesOf(kind[r]) \cup Answering
    BY <2>1 DEF LeadsOn
  <2> QED
    BY <1>1, <2>2 DEF StagesFit
<1>6. FailsOnlyWhenExhausted'
  <2>1. s \in StagesOf(kind[r])
    <3>1. s \notin Waiting \cup Answering \cup {"sending"} \cup Ended
      BY DEF Parsing, Waiting, Answering, Ended, Stages
    <3> QED
      BY <1>1, <3>1 DEF StagesFit
  <2>2. \A q \in Tasks : failed[q] \subseteq failed'[q]
    BY DEF Records, TypeOK
  <2>3. /\ kind[r] \in {"pdf", "scanned"} /\ z = "raised" => "scan_render" \in failed'[r]
        /\ kind[r] \in {"docx", "doc"} /\ z = "nothing" =>
             failed'[r] \cap {"docx_native", "antiword"} # {}
        /\ kind[r] = "docx" /\ z = "nothing" => "docx_native" \in failed'[r]
        /\ kind[r] = "docx" => z # "raised"
    BY <2>1 DEF LeadsOn, StagesOf, Scanned, Markitdown, TypeOK
  <2> SUFFICES ASSUME NEW q \in Tasks
               PROVE  /\ kind[q] \in {"pdf", "scanned"} /\ at'[q] = "raised" =>
                           LastResort[kind[q]] \cap failed'[q] # {}
                      /\ kind[q] \in {"docx", "doc"} /\ at'[q] = "nothing" =>
                           LastResort[kind[q]] \cap failed'[q] # {}
                      /\ kind[q] = "docx" => at'[q] # "raised"
    BY DEF FailsOnlyWhenExhausted
  <2>4. CASE q = r
    BY <1>1, <2>3, <2>4 DEF LastResort
  <2>5. CASE q # r
    BY <1>1, <2>2, <2>5 DEF FailsOnlyWhenExhausted
  <2> QED
    BY <2>4, <2>5
<1>7. FramesFit'
  BY <1>1, <1>2 DEF FramesFit, IsStream, Ended, Waiting, Stages, Records, TypeOK
<1>8. AnswersAreComplete'
  BY <1>1, <1>2 DEF AnswersAreComplete, IsStream, Stages
<1> QED
  BY <1>3, <1>4, <1>5, <1>6, <1>7, <1>8
\* A request arrives, or gets its thread.
LEMMA StartKeeps ==
  ASSUME ServiceInv, NEW r \in Tasks, Arrive(r) \/ Start(r)
  PROVE  ServiceInv'
<1> USE DEF ServiceInv
<1> DEFINE z == at'[r]
<1>0. kind[r] \in AllKinds /\ kind \in Workloads /\ kind \in [Tasks -> AllKinds]
  BY ServiceAssumption DEF TypeOK
<1>1. /\ at[r] \in Waiting
      /\ z = "queued" \/ (z = FirstStage[kind[r]] /\ z \in StagesOf(kind[r]))
      /\ at' = [at EXCEPT ![r] = z]
      /\ UNCHANGED <<limitVars, kind, failed, images, frames>>
  BY <1>0
  DEF Arrive, Start, Go, Waiting, FirstStage, StagesOf, Scanned, Markitdown, AllKinds, TypeOK
<1>2. z \notin Answering \cup {"sending"} \cup Ended /\ z \in Stages \cup Waiting
  BY <1>0, <1>1 DEF FirstStage, Answering, Ended, AllKinds, Stages, Waiting
<1>3. queue' \in Seq(Tasks)
  <2>1. queue \in Seq(Tasks)
    BY DEF TypeOK
  <2>2. CASE Arrive(r)
    BY <2>1, <2>2 DEF Arrive
  <2>3. CASE Start(r)
    BY <2>1, <2>3 DEF Start
  <2> QED
    BY <2>2, <2>3
<1> HIDE DEF z
<1>4. TypeOK'
  BY <1>1, <1>2, <1>3 DEF TypeOK, LimitTypeOK, limitVars, Waiting
<1>5. NoSlotOutsideItsStage'
  <2>1. step[r] = "out"
    BY <1>1, SlottedStages DEF NoSlotOutsideItsStage, Waiting, Slotted
  <2> QED
    BY <1>1, <2>1 DEF NoSlotOutsideItsStage, limitVars, TypeOK
<1>6. StagesFit'
  BY <1>1 DEF StagesFit, TypeOK, Waiting
<1>7. FailsOnlyWhenExhausted'
  BY <1>1, <1>2 DEF FailsOnlyWhenExhausted, TypeOK, Answering
<1>8. FramesFit'
  BY <1>1, <1>2 DEF FramesFit, IsStream, TypeOK, Waiting, Ended
<1>9. AnswersAreComplete'
  BY <1>1, <1>2 DEF AnswersAreComplete, IsStream, TypeOK, Ended
<1> QED
  BY <1>4, <1>5, <1>6, <1>7, <1>8, <1>9

\* A thread on its way into a section changes nothing else.
LEMMA ProceedKeeps ==
  ASSUME ServiceInv, LimitTypeOK', NEW r \in Tasks, Proceed(r), UNCHANGED serviceVars
  PROVE  ServiceInv'
<1> USE DEF ServiceInv, serviceVars
<1>1. TypeOK'
  BY DEF TypeOK
<1>2. NoSlotOutsideItsStage'
  BY DEF NoSlotOutsideItsStage, Proceed, TakeLock, GetLimiter, MissLimiter,
         CreateLimiter, Acquire, TypeOK, LimitTypeOK
<1>3. StagesFit' /\ FailsOnlyWhenExhausted' /\ FramesFit' /\ AnswersAreComplete'
  BY DEF StagesFit, FailsOnlyWhenExhausted, FramesFit, AnswersAreComplete, IsStream
<1> QED
  BY <1>1, <1>2, <1>3

Message == [type : {"error", "meta", "image", "whole"}, count : 0 .. MaxImages]

\* One more message: what the sequence of frames becomes.
LEMMA FrameAdded ==
  ASSUME TypeOK, NEW r \in Tasks, NEW m \in Message, NEW z, Send(r, m, z)
  PROVE  /\ frames[r] \in Seq(Message)
         /\ frames'[r] = Append(frames[r], m)
         /\ \A q \in Tasks \ {r} : frames'[q] = frames[q]
         /\ frames' \in [Tasks -> Seq(Message)]
<1>1. frames \in [Tasks -> Seq(Message)] /\ frames' = [frames EXCEPT ![r] = Append(@, m)]
  BY DEF TypeOK, Send, Message
<1>2. Append(frames[r], m) \in Seq(Message)
  BY <1>1
<1> QED
  BY <1>1, <1>2

\* The messages that a request sends, and where that leaves it.
Sends(r) ==
  \E m \in Message, z \in {"closed", "sending"} :
    /\ Send(r, m, z)
    /\ \/ /\ at[r] \in Answering
          /\ z = "closed"
          /\ m.type \in {"error", "whole"}
          /\ images'[r] \in 0 .. MaxImages
       \/ /\ at[r] = "reply"
          /\ z = "sending"
          /\ m = Meta(images[r])
          /\ images'[r] = images[r]
       \/ /\ at[r] = "sending"
          /\ z = "sending"
          /\ m.type = "image"
          /\ images[r] > 0
          /\ images'[r] = images[r] - 1
    /\ images' = [images EXCEPT ![r] = images'[r]]

Closes(r) ==
  /\ \/ at[r] = "sending" /\ images[r] = 0 /\ at' = [at EXCEPT ![r] = "closed"]
     \/ at[r] \in {"reply", "sending"} /\ at' = [at EXCEPT ![r] = "aborted"]
  /\ UNCHANGED <<limitVars, queue, kind, failed, images, frames>>

\* An answer goes on by a message or ends.
LEMMA AnswerSends ==
  ASSUME ServiceInv, NEW r \in Tasks, Answer(r)
  PROVE  Sends(r) \/ Closes(r)
<1>0. MaxImages \in Nat
  BY ServiceAssumption
<1>1. /\ Failure \in Message /\ Failure.type = "error"
      /\ Image \in Message /\ Image.type = "image"
      /\ Whole(images[r]) \in Message /\ Whole(images[r]).type = "whole"
      /\ Meta(images[r]) \in Message
      /\ images \in [Tasks -> 0 .. MaxImages]
  BY <1>0 DEF Failure, Image, Whole, Meta, Message, ServiceInv, TypeOK
<1>2. CASE AnswerFailure(r)
  BY <1>1, <1>2 DEF AnswerFailure, Sends, Answering
<1>3. CASE ReplyWhole(r)
  BY <1>0, <1>1, <1>3 DEF ReplyWhole, Sends, Answering
<1>4. CASE SendMeta(r)
  BY <1>1, <1>4 DEF SendMeta, Sends
<1>5. CASE SendImage(r)
  BY <1>1, <1>5 DEF SendImage, Sends
<1>6. CASE EndStream(r)
  BY <1>6 DEF EndStream, Closes, Go
<1>7. CASE AbortStream(r)
  BY <1>7 DEF AbortStream, Closes
<1> QED
  BY <1>2, <1>3, <1>4, <1>5, <1>6, <1>7 DEF Answer

\* A message keeps the invariant: the images that are left are those that
\* the meta frame announced and no image frame has carried yet.
LEMMA SendKeeps ==
  ASSUME ServiceInv, NEW r \in Tasks, Sends(r)
  PROVE  ServiceInv'
<1> USE DEF ServiceInv
<1>1. PICK m \in Message, z \in {"closed", "sending"} :
        /\ Send(r, m, z)
        /\ \/ /\ at[r] \in Answering
              /\ z = "closed"
              /\ m.type \in {"error", "whole"}
              /\ images'[r] \in 0 .. MaxImages
           \/ /\ at[r] = "reply"
              /\ z = "sending"
              /\ m = Meta(images[r])
              /\ images'[r] = images[r]
           \/ /\ at[r] = "sending"
              /\ z = "sending"
              /\ m.type = "image"
              /\ images[r] > 0
              /\ images'[r] = images[r] - 1
        /\ images' = [images EXCEPT ![r] = images'[r]]
  BY DEF Sends
<1>2. /\ frames[r] \in Seq(Message)
      /\ frames'[r] = Append(frames[r], m)
      /\ \A q \in Tasks \ {r} : frames'[q] = frames[q]
      /\ frames' \in [Tasks -> Seq(Message)]
  BY <1>1, FrameAdded
<1>3. /\ at' = [at EXCEPT ![r] = z] /\ z \in {"closed", "sending"}
      /\ at[r] \in Answering \cup {"sending"}
      /\ UNCHANGED <<limitVars, queue, kind, failed>>
  BY <1>1 DEF Send, Answering
<1>4. MaxImages \in Nat /\ images \in [Tasks -> 0 .. MaxImages]
      /\ images' \in [Tasks -> 0 .. MaxImages]
  BY <1>1, ServiceAssumption DEF TypeOK
<1>5. TypeOK'
  BY <1>2, <1>3, <1>4 DEF TypeOK, Message, limitVars, LimitTypeOK, Stages
<1>6. NoSlotOutsideItsStage'
  <2>1. step[r] = "out"
    BY <1>3, SlottedStages DEF NoSlotOutsideItsStage, Answering, Slotted
  <2> QED
    BY <1>3, <2>1 DEF NoSlotOutsideItsStage, limitVars, TypeOK
<1>7. StagesFit'
  BY <1>3 DEF StagesFit, TypeOK, Ended
<1>8. FailsOnlyWhenExhausted'
  BY <1>3 DEF FailsOnlyWhenExhausted, TypeOK
<1>9. /\ z = "closed" => Len(frames'[r]) = 1 /\ frames'[r][1].type \in {"error", "whole"}
      /\ z = "sending" => IsStream(frames'[r])
                          /\ Len(frames'[r]) + images'[r] = frames'[r][1].count + 1
  <2>1. CASE at[r] \in Answering
    <3>1. frames[r] = <<>>
      BY <2>1 DEF FramesFit, Answering, Ended
    <3>2. frames'[r] = <<m>> /\ Len(frames'[r]) = 1 /\ frames'[r][1] = m
      BY <1>2, <3>1
    <3>3. z = "closed" => m.type \in {"error", "whole"}
      BY <1>1, <2>1 DEF Answering
    <3>4. z = "sending" => m.type = "meta" /\ m.count = images'[r]
      BY <1>1, <2>1 DEF Answering, Meta
    <3> QED
      BY <1>4, <3>2, <3>3, <3>4 DEF IsStream
  <2>2. CASE at[r] = "sending"
    <3>1. IsStream(frames[r]) /\ Len(frames[r]) + images[r] = frames[r][1].count + 1
      BY <2>2 DEF FramesFit
    <3>2. z = "sending" /\ m.type = "image" /\ images'[r] = images[r] - 1
      BY <1>1, <2>2 DEF Answering
    <3>3. /\ Len(frames'[r]) = Len(frames[r]) + 1 /\ Len(frames[r]) \in Nat \ {0}
          /\ \A i \in 1 .. Len(frames[r]) : frames'[r][i] = frames[r][i]
          /\ frames'[r][Len(frames[r]) + 1] = m
      BY <1>2, <3>1 DEF IsStream
    <3>4. IsStream(frames'[r])
      BY <1>2, <3>1, <3>2, <3>3 DEF IsStream
    <3>5. frames'[r][1] = frames[r][1] /\ frames[r][1].count \in Nat
      <4>1. 1 \in 1 .. Len(frames[r])
        BY <3>3
      <4>2. frames[r][1] \in Message
        BY <1>2, <4>1
      <4>3. \A k \in 0 .. MaxImages : k \in Nat
        BY <1>4
      <4> QED
        BY <3>3, <4>1, <4>2, <4>3 DEF Message
    <3> QED
      BY <1>4, <3>1, <3>2, <3>3, <3>4, <3>5
  <2> QED
    BY <1>3, <2>1, <2>2
<1>10. FramesFit'
  <2>1. \A q \in Tasks \ {r} : at'[q] = at[q] /\ images'[q] = images[q] /\ frames'[q] = frames[q]
    BY <1>1, <1>2, <1>3, <1>4 DEF TypeOK
  <2>2. at'[r] = z
    BY <1>3 DEF TypeOK
  <2>3. \A q \in Tasks \ {r} :
          /\ at'[q] \notin {"sending"} \cup Ended => frames'[q] = <<>>
          /\ at'[q] = "sending" =>
               /\ IsStream(frames'[q])
               /\ Len(frames'[q]) + images'[q] = frames'[q][1].count + 1
    BY <2>1 DEF FramesFit, IsStream
  <2> QED
    BY <1>3, <1>9, <2>2, <2>3 DEF FramesFit, IsStream, Ended
<1>11. AnswersAreComplete'
  <2>1. at'[r] = z
    BY <1>3 DEF TypeOK
  <2>2. z = "closed" => Len(frames'[r]) = 1 /\ frames'[r][1].type \in {"error", "whole"}
    BY <1>9
  <2>3. \A q \in Tasks \ {r} : at'[q] = at[q] /\ frames'[q] = frames[q]
    BY <1>2, <1>3 DEF TypeOK
  <2>4. \A q \in Tasks \ {r} : at'[q] = "closed" =>
          \/ Len(frames'[q]) = 1 /\ frames'[q][1].type \in {"error", "whole"}
          \/ IsStream(frames'[q]) /\ Len(frames'[q]) = frames'[q][1].count + 1
    BY <2>3 DEF AnswersAreComplete, IsStream
  <2> SUFFICES ASSUME NEW q \in Tasks, at'[q] = "closed"
               PROVE  \/ Len(frames'[q]) = 1 /\ frames'[q][1].type \in {"error", "whole"}
                      \/ IsStream(frames'[q]) /\ Len(frames'[q]) = frames'[q][1].count + 1
    BY DEF AnswersAreComplete, IsStream
  <2> QED
    BY <2>1, <2>2, <2>4
<1> QED
  BY <1>5, <1>6, <1>7, <1>8, <1>10, <1>11

\* So does the end of a stream, regular or not.
LEMMA CloseKeeps ==
  ASSUME ServiceInv, NEW r \in Tasks, Closes(r)
  PROVE  ServiceInv'
<1> USE DEF ServiceInv, Closes
<1>1. TypeOK'
  BY DEF TypeOK, limitVars, LimitTypeOK
<1>2. NoSlotOutsideItsStage'
  <2>1. step[r] = "out"
    BY SlottedStages DEF NoSlotOutsideItsStage, Slotted
  <2> QED
    BY <2>1 DEF NoSlotOutsideItsStage, limitVars, TypeOK
<1>3. StagesFit' /\ FailsOnlyWhenExhausted'
  BY DEF StagesFit, FailsOnlyWhenExhausted, TypeOK, Ended
<1>4. FramesFit'
  BY DEF FramesFit, IsStream, TypeOK, Ended
<1>5. AnswersAreComplete'
  <2>1. at[r] = "sending" /\ images[r] = 0 =>
          IsStream(frames[r]) /\ Len(frames[r]) = frames[r][1].count + 1
    BY DEF FramesFit, TypeOK
  <2> QED
    BY <2>1 DEF AnswersAreComplete, IsStream, TypeOK
<1> QED
  BY <1>1, <1>2, <1>3, <1>4, <1>5

-------------------------------------------------------------------------------
\* Every step of the service keeps the invariant.
LEMMA NextService ==
  ASSUME ServiceInv, LimitTypeOK', [Next]_vars
  PROVE  ServiceInv'
<1>1. ASSUME NEW r \in Tasks, Arrive(r) \/ Start(r) PROVE ServiceInv'
  BY <1>1, StartKeeps
<1>2. ASSUME NEW r \in Tasks, Proceed(r), UNCHANGED serviceVars PROVE ServiceInv'
  BY <1>2, ProceedKeeps
<1>3. ASSUME NEW r \in Tasks, ParsePdf(r) \/ ParseOffice(r) PROVE ServiceInv'
  <2>1. kind[r] \in AllKinds
    BY ServiceAssumption DEF ServiceInv, TypeOK
  <2>2. PICK s, z : Moves(r, s, z)
    BY <1>3, <2>1, PdfMoves, OfficeMoves
  <2> QED
    BY <2>2, MoveKeeps
<1>4. ASSUME NEW r \in Tasks, Answer(r) PROVE ServiceInv'
  BY <1>4, AnswerSends, SendKeeps, CloseKeeps
<1>5. CASE UNCHANGED vars
  BY <1>5, ZenonT(30) DEF vars, serviceVars, limitVars, ServiceInv, TypeOK, LimitTypeOK,
              NoSlotOutsideItsStage, StagesFit, FailsOnlyWhenExhausted, FramesFit,
              AnswersAreComplete, IsStream
<1> QED
  BY <1>1, <1>2, <1>3, <1>4, <1>5 DEF Next, Run

\* The invariant of the service, for any number of requests and slots.
THEOREM ServiceInvariant == Spec => []ServiceInv
<1>1. LimitInv => LimitTypeOK
  BY DEF LimitInv
<1>2. ServiceInv /\ LimitTypeOK' /\ [Next]_vars => ServiceInv'
  BY NextService
<1> QED
  BY <1>1, <1>2, InitService, ServiceUsesLimiter, LimitInvariant, PTL DEF Spec

\* The service's variables keep their types (TypeOK).
THEOREM ServiceTypes == Spec => []TypeOK
BY ServiceInvariant, PTL DEF ServiceInv

(***************************************************************************)
(* No slot is taken along into a fallback, an answer or another section:   *)
(* a thread that waits for a slot holds none (NoSlotOutsideItsStage).      *)
(***************************************************************************)
THEOREM SlotsGivenBack == Spec => []NoSlotOutsideItsStage
BY ServiceInvariant, PTL DEF ServiceInv

(***************************************************************************)
(* A PDF or Word document is only given up after the last resort of its    *)
(* parser has failed (FailsOnlyWhenExhausted).                             *)
(***************************************************************************)
THEOREM LastResortTried == Spec => []FailsOnlyWhenExhausted
BY ServiceInvariant, PTL DEF ServiceInv

(***************************************************************************)
(* A stream that ends regularly has carried every image that its meta      *)
(* frame announced, for any number of images (AnswersAreComplete).         *)
(***************************************************************************)
THEOREM StreamsComplete == Spec => []AnswersAreComplete
BY ServiceInvariant, PTL DEF ServiceInv
===============================================================================
