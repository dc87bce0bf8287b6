--------------------------- MODULE InferencePath ---------------------------
(***************************************************************************)
(* One analysis of a board from its stored contents to the error or result *)
(* that the queue records: board-service reads images until the body is    *)
(* long enough, sends the text, and decides from the HTTP answer whether a *)
(* failure is the content's or the infrastructure's.  gpt-service admits    *)
(* the request and tries the candidate nodes in turn under a deadline.     *)
(* The public endpoint that reads one image takes the same path.           *)
(*                                                                         *)
(* Time is counted in units of MinAttempt, the least time an attempt gets. *)
(***************************************************************************)
EXTENDS AnalysisInput

CONSTANTS
  Setups,        \* boards with the deployment and the caller that analyse them
  Readings,      \* texts that a vision model may read on an image
  Candidates,    \* Candidates[c]: nodes of capability c in the order of trial
  Endpoints,     \* OLLAMA_BASE_URLS, tried in order when there is no gpt-service
  NodeTimeout,   \* timeout_seconds of a node
  Deadline,      \* AI_REQUEST_DEADLINE_SECONDS
  ClientTimeouts,\* values of OLLAMA_TIMEOUT_SECONDS and VLLM_TIMEOUT_SECONDS
  ImageLimits,   \* values of AI_ANALYSIS_VISION_MAX_IMAGES
  ImageBytes,    \* sizes of images within AI_ANALYSIS_VISION_MAX_IMAGE_BYTES
  BoardLimit,    \* AI_ANALYSIS_MAX_INPUT_CHARS of board-service
  GptLimit,      \* AI_ANALYSIS_MAX_INPUT_CHARS of gpt-service
  MaxText,       \* MAX_ANALYSIS_REQUEST_CHARS
  MaxAttempts    \* bound on the attempts at one board

VARIABLES
  setup,     \* the board, the deployment and the caller, fixed at the start
  pc,        \* where the analysis stands
  blocks,    \* enriched: the normalised blocks with what was read on images
  at,        \* index of the block the loop has reached
  vision,    \* attempted_images and the two failure counters
  call,      \* the request to gpt-service or to a model server
  outcome,   \* what the caller makes of the analysis
  attempts,  \* number of attempts so far
  outage     \* history: what kept images of this attempt from being read

vars == <<setup, pc, blocks, at, vision, call, outcome, attempts, outage>>

-----------------------------------------------------------------------------
(* Types *)

\* board: its title and its contents; via: whether AI_SERVICE_URL is set.
Setup == [board: [title: Text \cup {NoText}, contents: Seq(Block)], 
          caller: {"worker", "endpoint"}, via: {"service", "direct"},
          token: {"right", "wrong", "unset"}, timeout: ClientTimeouts,
          images: ImageLimits, longPrompt: BOOLEAN]

Phases == {"reading", "vision", "analysis", "ended"}

\* No answer yet; HTTP codes; no HTTP answer at all; the client's timeout; an
\* answer of a model server that is no analysis.
Statuses == {"none", "200", "401", "415", "422", "502", "503", "lost", "late",
             "garbled"}

\* RetryableAnalysisError; LLMError(retryable=True); the two terminal messages of
\* _analysis_text; any other LLMError; the answers of the endpoint.
Outcomes == {"none", "analysed", "visionDown", "retryable", "short", "rejected",
             "failed", "text", "404", "502"}

\* skipped: an image was passed over as its file was missing or could not be opened;
\* failed: the file, a connection, a node or a limit failed an image that was tried.
Causes == {"skipped", "failed"}

NoVision == [attempted |-> 0, transient |-> 0, permanent |-> 0]

\* rest: candidates not tried yet; full: saw_saturated_candidate; left: time to
\* the deadline; text: what the model answered; down (history): some part of the
\* infrastructure failed the request.
NoCall == [capability |-> "none", rest |-> <<>>, tried |-> {}, refused |-> {},
           full |-> FALSE, left |-> Deadline, status |-> "none", text |-> NoText,
           down |-> FALSE]

\* AI_ANALYSIS_VISION_MAX_IMAGE_BYTES at its most, MAX_IMAGE_DATA_URL_LENGTH.
MaxImageBytes == 14000000
MaxImageDataUrl == 20000000

\* A node is a candidate once; there is an endpoint to fall back on.  An image
\* kept has bytes, within the limit of the vision client, and what is read off an
\* image is a text.  AI_ANALYSIS_VISION_PROMPT, which a worker puts to an image, is
\* not set to more than gpt-service takes of a prompt.
ASSUME PathAssumption ==
  /\ Candidates \in [{"analysis", "vision"} -> Seq(Nat)]
  /\ \A c \in {"analysis", "vision"} :
       IsInjective(Candidates[c]) /\ Len(Candidates[c]) <= Deadline
  /\ Endpoints \in Seq(Nat) \ {<<>>}
  /\ Readings \subseteq Text
  /\ ImageBytes \subseteq 1..MaxImageBytes
  /\ {NodeTimeout, Deadline, GptLimit, MaxText} \subseteq Nat \ {0}
  /\ ClientTimeouts \subseteq Nat \ {0}
  /\ ImageLimits \subseteq 0..4
  /\ BoardLimit \in 1..MaxText
  /\ \A s \in Setups : s \in Setup /\ (s.caller = "worker" => ~s.longPrompt)

-----------------------------------------------------------------------------
(* board-service: the request *)

Init ==
  /\ setup \in Setups
  /\ pc = "reading"
  /\ blocks = NormalizeContents(setup.board.contents)
  /\ at = 1
  /\ vision = NoVision
  /\ call = NoCall
  /\ outcome = "none"
  /\ attempts = 1
  /\ outage = {}

Sufficient == HasSufficientBody(blocks, setup.board.title)

\* An image whose file, if it is there, passes the checks before it is sent.
Usable(b) == b.kind = "image" /\ b.path = "usable"

\* The images the loop may still send.
Ahead == {i \in at..Len(blocks) :
            Usable(blocks[i]) /\ vision.attempted < setup.images}

End(result) == pc' = "ended" /\ outcome' = result

\* The lines sent for analysis, by length.
Prompt == TruncateAnalysisParts(LlmParts(setup.board.title, blocks), BoardLimit)

\* image_to_data_url: the prefix and four characters for every three bytes.
DataUrlLength(bytes) == 23 + 4 * ((bytes + 2) \div 3)

\* Faulty variants, here and below, are the mistakes that the properties at the
\* end of this module rule out; no action uses them.
\* Faulty: gpt-service takes data URLs up to the size that the image may have.
VisionRequestValidSmall(bytes, longPrompt) ==
  DataUrlLength(bytes) <= MaxImageBytes /\ ~longPrompt

VisionRequestValid(bytes, longPrompt) ==
  DataUrlLength(bytes) <= MaxImageDataUrl /\ ~longPrompt

AnalyzeRequestValid(parts) == Rendered(parts) \in 1..MaxText

\* The request to gpt-service, refused at the door or about to try the nodes.
Admitted(capability, valid) ==
  LET status == IF setup.token = "unset" THEN "503"
                ELSE IF setup.token = "wrong" THEN "401"
                ELSE IF ~valid THEN "422"
                ELSE IF Candidates[capability] = <<>> THEN "503" ELSE "none"
  IN  [NoCall EXCEPT !.capability = capability,
                     !.rest = Candidates[capability],
                     !.status = status,
                     !.down = (status = "503")]

Direct(capability) ==
  [NoCall EXCEPT !.capability = capability,
                 !.rest = IF capability = "analysis" THEN Endpoints ELSE <<1>>]

SendImage(bytes) ==
  call' = IF setup.via = "service"
          THEN Admitted("vision", VisionRequestValid(bytes, setup.longPrompt))
          ELSE Direct("vision")

\* One turn of the loop over the blocks: the next image that may be sent.
ReadImage ==
  /\ pc = "reading" /\ setup.caller = "worker"
  /\ ~Sufficient
  /\ Ahead # {}
  /\ at' = Min(Ahead)
  /\ vision' = [vision EXCEPT !.attempted = @ + 1]
  /\ pc' = "vision"
  /\ \E bytes \in ImageBytes : SendImage(bytes)
  /\ UNCHANGED <<setup, blocks, outcome, attempts, outage>>

\* The file is missing or cannot be opened, say as the volume is not mounted: the
\* loop passes the image over and counts nothing.
SkipImage ==
  /\ pc = "reading" /\ setup.caller = "worker"
  /\ ~Sufficient
  /\ Ahead # {}
  /\ at' = Min(Ahead) + 1
  /\ outage' = outage \cup {"skipped"}
  /\ UNCHANGED <<setup, pc, blocks, vision, call, outcome, attempts>>

\* The file is gone, or cannot be read, after it was validated.
ReadImageFails ==
  /\ pc = "reading" /\ setup.caller = "worker"
  /\ ~Sufficient
  /\ Ahead # {}
  /\ at' = Min(Ahead) + 1
  /\ vision' = [vision EXCEPT !.attempted = @ + 1, !.transient = @ + 1]
  /\ outage' = outage \cup {"failed"}
  /\ UNCHANGED <<setup, pc, blocks, call, outcome, attempts>>

\* Faulty: an unavailable node counts like a rejection.
ShortageTerminal ==
  IF vision.permanent + vision.transient > 0 THEN "rejected" ELSE "short"

\* The body stayed insufficient after every image was tried.
Shortage ==
  IF vision.transient > 0 THEN "visionDown"
  ELSE IF vision.permanent > 0 THEN "rejected" ELSE "short"

GiveUp ==
  /\ pc = "reading" /\ setup.caller = "worker"
  /\ ~Sufficient
  /\ Ahead = {}
  /\ End(Shortage)
  /\ UNCHANGED <<setup, blocks, at, vision, call, attempts, outage>>

Analyze ==
  /\ pc = "reading" /\ setup.caller = "worker"
  /\ Sufficient
  /\ pc' = "analysis"
  /\ call' = IF setup.via = "service"
             THEN Admitted("analysis", AnalyzeRequestValid(Prompt))
             ELSE Direct("analysis")
  /\ UNCHANGED <<setup, blocks, at, vision, outcome, attempts, outage>>

\* POST /api/boards/{id}/images/{index}/vision-text
ExtractImageText ==
  /\ pc = "reading" /\ setup.caller = "endpoint"
  /\ \/ /\ \E i \in DOMAIN blocks : blocks[i].kind = "image" /\ Usable(blocks[i])
        /\ pc' = "vision"
        /\ \E bytes \in ImageBytes : SendImage(bytes)
        /\ UNCHANGED outcome
     \/ /\ \E i \in DOMAIN blocks :
             blocks[i].kind = "image" /\ blocks[i].path # "none"
        /\ End("502")
        /\ UNCHANGED call
     \/ /\ End("404")
        /\ UNCHANGED call
  /\ UNCHANGED <<setup, blocks, at, vision, attempts, outage>>

-----------------------------------------------------------------------------
(* gpt-service: the candidate nodes *)

Waiting == pc \in {"vision", "analysis"} /\ call.status = "none"
Elapsed == Deadline - call.left
InService == Waiting /\ setup.via = "service" /\ Elapsed < setup.timeout

LeastOf(m, n) == IF m < n THEN m ELSE n

\* Faulty: the first node may use up all the time there is.
AttemptTimeoutGreedy == LeastOf(NodeTimeout, call.left)

\* Faulty: the deadline of the request does not bound the attempt.
AttemptTimeoutOfNode == NodeTimeout

\* What is left is shared among the candidates that are left.
AttemptTimeout ==
  LeastOf(NodeTimeout,
          LET share == call.left \div Len(call.rest) IN IF share > 1 THEN share ELSE 1)

\* The head of the candidates is at its limit.
SkipSaturated ==
  /\ InService /\ call.left > 0 /\ call.rest # <<>>
  /\ call' = [call EXCEPT !.rest = Tail(@), !.full = TRUE, !.down = TRUE]
  /\ UNCHANGED <<setup, pc, blocks, at, vision, outcome, attempts, outage>>

Attempt(next) ==
  /\ InService /\ call.left > 0 /\ call.rest # <<>>
  /\ \E d \in 1..AttemptTimeout :
       call' = [next EXCEPT !.left = @ - d, !.tried = @ \cup {Head(call.rest)},
                            !.rest = Tail(@)]
  /\ UNCHANGED <<setup, pc, blocks, at, vision, outcome, attempts, outage>>

\* Adapters hand over no blank text, and transform no answer without a summary.
NodeAnswers ==
  \E v \in IF call.capability = "vision" THEN Readings ELSE {NoText} :
    Attempt([call EXCEPT !.status = "200", !.text = v])

\* HTTP 400, 413, 415 or 422 of the node.
NodeRefuses ==
  /\ call.rest # <<>>
  /\ Attempt([call EXCEPT !.refused = @ \cup {Head(call.rest)}])

\* Any other status, no connection, the attempt's timeout, an answer that is
\* blank, not JSON or no analysis.
NodeFails == Attempt([call EXCEPT !.down = TRUE])

\* The exception after the loop, as the status that the route gives it.
Verdict ==
  IF call.tried = {} THEN "503"
  ELSE IF call.refused # call.tried THEN "502"
  ELSE IF call.tried = ToSet(Candidates[call.capability]) THEN "422" ELSE "503"

Conclude ==
  /\ InService
  /\ call.rest = <<>> \/ call.left <= 0
  /\ call' = [call EXCEPT !.status = Verdict]
  /\ UNCHANGED <<setup, pc, blocks, at, vision, outcome, attempts, outage>>

-----------------------------------------------------------------------------
(* Without gpt-service *)

InDirect == Waiting /\ setup.via = "direct"

\* Faulty: the endpoint that failed is tried again.
EndpointFailsAgain ==
  /\ InDirect
  /\ call' = [call EXCEPT !.down = TRUE]
  /\ UNCHANGED <<setup, pc, blocks, at, vision, outcome, attempts, outage>>

\* _post_chat goes through the endpoints, the vision request has one.
EndpointFails ==
  /\ InDirect
  /\ call' = [call EXCEPT !.rest = Tail(@),
                          !.status = IF Len(call.rest) = 1 THEN "lost" ELSE "none",
                          !.down = TRUE]
  /\ UNCHANGED <<setup, pc, blocks, at, vision, outcome, attempts, outage>>

\* An analysis may come back as no JSON, or without a summary.
EndpointAnswers ==
  /\ InDirect
  /\ \/ \E v \in IF call.capability = "vision" THEN Readings ELSE {NoText} :
          call' = [call EXCEPT !.status = "200", !.text = v]
     \/ /\ call.capability = "analysis"
        /\ call' = [call EXCEPT !.status = "garbled"]
     \/ /\ call.capability = "vision"
        /\ call' = [call EXCEPT !.status = "415"]
  /\ UNCHANGED <<setup, pc, blocks, at, vision, outcome, attempts, outage>>

-----------------------------------------------------------------------------
(* board-service: the answer *)

\* The connection to gpt-service fails, or its answer cannot be decoded.
ConnectionLost ==
  /\ InService
  /\ call' = [call EXCEPT !.status = "lost", !.down = TRUE]
  /\ UNCHANGED <<setup, pc, blocks, at, vision, outcome, attempts, outage>>

\* The client gives up while gpt-service goes on.
ClientTimesOut ==
  /\ Waiting /\ setup.via = "service"
  /\ Elapsed >= setup.timeout
  /\ call' = [call EXCEPT !.status = "late", !.down = TRUE]
  /\ UNCHANGED <<setup, pc, blocks, at, vision, outcome, attempts, outage>>

Retryable(status) == status \in {"502", "503", "lost", "late"}

\* The worker goes on with the next block.
EnrichBlock ==
  /\ pc = "vision" /\ setup.caller = "worker" /\ call.status # "none"
  /\ pc' = "reading"
  /\ blocks' = IF call.status = "200"
               THEN [blocks EXCEPT ![at] = Enriched(@, call.text)] ELSE blocks
  /\ vision' =
       IF call.status = "200" THEN vision
       ELSE IF Retryable(call.status) THEN [vision EXCEPT !.transient = @ + 1]
       ELSE [vision EXCEPT !.permanent = @ + 1]
  /\ at' = at + 1
  /\ call' = NoCall
  /\ outage' = IF call.status # "200" /\ call.down THEN outage \cup {"failed"} ELSE outage
  /\ UNCHANGED <<setup, outcome, attempts>>

AnswerEndpoint ==
  /\ pc = "vision" /\ setup.caller = "endpoint" /\ call.status # "none"
  /\ End(IF call.status = "200" THEN "text" ELSE "502")
  /\ UNCHANGED <<setup, blocks, at, vision, call, attempts, outage>>

FinishAnalysis ==
  /\ pc = "analysis" /\ call.status # "none"
  /\ End(IF call.status = "200" THEN "analysed"
         ELSE IF Retryable(call.status) THEN "retryable" ELSE "failed")
  /\ UNCHANGED <<setup, blocks, at, vision, call, attempts, outage>>

\* A worker claims the board again; what was read on its images is not stored.
ClaimAgain ==
  /\ pc = "ended" /\ outcome \in {"visionDown", "retryable", "short", "rejected", "failed"}
  /\ attempts < MaxAttempts
  /\ attempts' = attempts + 1
  /\ pc' = "reading"
  /\ blocks' = NormalizeContents(setup.board.contents)
  /\ at' = 1
  /\ vision' = NoVision
  /\ call' = NoCall
  /\ outcome' = "none"
  /\ outage' = {}
  /\ UNCHANGED setup

-----------------------------------------------------------------------------
\* Nothing obliges a worker to claim the board again.
Rest == pc = "ended" /\ UNCHANGED vars

Client ==
  \/ ReadImage \/ SkipImage \/ ReadImageFails \/ GiveUp \/ Analyze
  \/ ExtractImageText \/ ConnectionLost \/ ClientTimesOut \/ EnrichBlock \/ AnswerEndpoint
  \/ FinishAnalysis

Service == SkipSaturated \/ NodeAnswers \/ NodeRefuses \/ NodeFails \/ Conclude

Next ==
  \/ Client
  \/ Service
  \/ EndpointFails \/ EndpointAnswers
  \/ ClaimAgain \/ Rest

Spec == Init /\ [][Next]_vars

-----------------------------------------------------------------------------
(* Properties *)

\* Every variable has its type, and no board sends more images than it may.
TypeOK ==
  /\ setup \in Setup
  /\ pc \in Phases
  /\ at \in Nat \ {0}
  /\ vision \in [attempted: 0..setup.images, transient: Nat, permanent: Nat]
  /\ call.status \in Statuses
  /\ outcome \in Outcomes
  /\ attempts \in 1..MaxAttempts
  /\ outage \subseteq Causes

\* Across three services the blame for a failed request lands where it belongs.  A
\* failure is held against the content or the request, which spends the retry
\* budget of the board for good, only if no file, connection, node or limit failed
\* an image that was tried, or the text; and a failure is put down to the
\* infrastructure, which is retried without end, only if some part of it did fail
\* (_enrich_analysis_contents_with_vision, _post_service, the tail of
\* AINodeRouter.invoke).  The content also answers for the images that were never
\* tried: unusable ones, those beyond AI_ANALYSIS_VISION_MAX_IMAGES, and, although
\* that is an outage, those whose file was missing or could not be opened.
BlameIsRight ==
  /\ outcome \in {"short", "rejected"} => outage \subseteq {"skipped"}
  /\ outcome = "failed" => ~call.down \/ call.status = "garbled"
  /\ outcome = "visionDown" => "failed" \in outage
  /\ outcome = "retryable" => call.down

\* What a worker sends always passes the request schemas of gpt-service: the
\* limits of the two services on text and images agree after the conversion to
\* a data URL, no text is blank, and a 422 means that nodes were asked.
RequestsFit ==
  /\ setup.caller = "worker" /\ call.status = "422" => call.tried # {}
  /\ pc = "analysis" =>
       Rendered(TruncateAnalysisContent(Prompt, GptLimit)) \in 1..GptLimit

\* A cut text stays within the limit and loses neither its title nor the marker;
\* the parts that remain share the room max-min fairly, and nothing is cut that
\* fits (truncate_analysis_parts, _fair_part_limits).
CutFairly ==
  LET parts == LlmParts(setup.board.title, blocks)
      budget == BoardLimit - Head(parts) - Marker - 2
      selected == SelectBodyParts(Tail(parts), budget)
      content == budget - Len(selected) + 1
  IN  pc = "analysis" =>
        /\ Rendered(Prompt) <= BoardLimit
        /\ Rendered(parts) <= BoardLimit => Prompt = parts
        /\ Rendered(parts) > BoardLimit /\ budget > 0 /\ Len(parts) > 1 =>
             /\ Head(Prompt) = Head(parts) /\ Last(Prompt) = Marker
             /\ content >= 0 =>
                  MaxMinFair(selected, FairPartLimits(selected, content), content)

\* A hanging node never uses up the time of the candidates after it: the loop of
\* invoke() reaches every candidate before the deadline.
EveryNodeGetsATurn ==
  setup.via = "service" /\ call.left <= 0 => call.rest = <<>>

\* A client that waits longer than the deadline of gpt-service always has its
\* answer: no attempt at a node carries the request past the deadline.
AnswersInTime == setup.timeout > Deadline => call.status # "late"

\* How far an attempt is from its end: the blocks the loop has not passed first,
\* then what is left of the request.
PhasesLeft ==
  LET left == Len(blocks) + 1 - at
  IN  CASE pc = "reading"  -> 2 * left + 2
        [] pc = "vision"   -> 2 * left + 1
        [] pc = "analysis" -> 1
        [] pc = "ended"    -> 0

TriesLeft == Len(call.rest) + (IF call.status = "none" THEN 1 ELSE 0)

\* Every step of an attempt brings it nearer to its end: no block is read twice,
\* no node or endpoint tried twice.  As no step but those after the end can be
\* missing (the run looks for deadlocks), every attempt ends.
AttemptAdvances ==
  [][pc # "ended" => \/ PhasesLeft' < PhasesLeft
                     \/ PhasesLeft' = PhasesLeft /\ TriesLeft' < TriesLeft]_vars
=============================================================================
