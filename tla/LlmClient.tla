------------------------------ MODULE LlmClient -----------------------------
(***************************************************************************)
(* agent::llm::anthropic::AnthropicClient: one call of chat or stream_chat *)
(* from the first request to its outcome.  Requests are repeated before    *)
(* the first byte only; the events of the SSE stream are gathered into     *)
(* blocks, each tagged with its index, and passed on as they come.         *)
(*                                                                         *)
(* The API server is external: what it may send is in the guards marked so.*)
(***************************************************************************)
EXTENDS Naturals

CONSTANTS
  Blocks,      (* indices of content blocks                              *)
  MaxParts,    (* bound: deltas of one block                             *)
  MAX_RETRIES

ASSUME LlmAssumption == MaxParts \in Nat /\ MAX_RETRIES \in Nat

VARIABLES
  call,          (* chat or stream_chat                                  *)
  stage,         (* where the call stands                                *)
  attempt,
  accumulators,  (* index to what has come of the block                  *)
  open,          (* the blocks the server has not stopped yet            *)
  stop_reason,   (* the decoder's local of that name                     *)
  told, started, status, answer  (* what the caller gets: ModelRound   *)

decoder == <<accumulators, open, stop_reason>>
passed_on == <<told, started>>
outcome == <<status, answer>>
llm_vars == <<call, stage, attempt, decoder, passed_on, outcome>>

-----------------------------------------------------------------------------
(* Types                                                                   *)

Round == INSTANCE ModelRound

Stage == {"sending", "backing_off", "reading_body", "streaming", "summed", "over"}

LlmTypeOK ==
  /\ call \in {"chat", "stream_chat"}
  /\ stage \in Stage
  /\ attempt \in 0..MAX_RETRIES
  /\ accumulators \in Round!Content
  /\ open \subseteq DOMAIN accumulators
  /\ stop_reason \in Round!Stops \cup {"none"}
  /\ told \in [Blocks -> 0..MaxParts] /\ started \subseteq Blocks
  /\ status \in {"open", "done", "failed"}
  /\ answer \in [stop : Round!Stops, content : Round!Content]

LlmInit ==
  /\ call \in {"chat", "stream_chat"}
  /\ stage = "sending" /\ attempt = 0
  /\ accumulators = [b \in {} |-> {}] /\ open = {} /\ stop_reason = "none"
  /\ Round!Init

-----------------------------------------------------------------------------
Fails ==
  /\ stage' = "over" /\ status' = "failed"
  /\ UNCHANGED <<call, attempt, decoder, passed_on, answer>>

Succeeds(stop, content) ==
  /\ stage' = "over" /\ status' = "done"
  /\ answer' = [stop |-> stop, content |-> content]
  /\ UNCHANGED <<call, attempt, decoder, passed_on>>

-----------------------------------------------------------------------------
(* The request                                                             *)

\* A 2xx.  From here on nothing is repeated.
Accepted ==
  /\ stage = "sending"
  /\ stage' = IF call = "chat" THEN "reading_body" ELSE "streaming"
  /\ UNCHANGED <<call, attempt, decoder, passed_on, outcome>>

\* Faulty variant: the attempt is not counted.
RetryUncounted ==
  /\ stage = "sending" /\ stage' = "backing_off"
  /\ UNCHANGED <<call, attempt, decoder, passed_on, outcome>>

\* A 5xx, a 429, no connection, and in chat no answer within 180 s.
Retry ==
  /\ stage = "sending"
  /\ IF attempt < MAX_RETRIES
     THEN /\ attempt' = attempt + 1 /\ stage' = "backing_off"
          /\ UNCHANGED <<call, decoder, passed_on, outcome>>
     ELSE Fails

\* Any other status or transport error.
Refused == stage = "sending" /\ Fails

BackedOff ==
  /\ stage = "backing_off" /\ stage' = "sending"
  /\ UNCHANGED <<call, attempt, decoder, passed_on, outcome>>

\* resp.json() of chat.  External: only an answer out of tokens has a block cut.
BodyParsed(stop, content) ==
  /\ stage = "reading_body"
  /\ stop \in Round!Stops \ {"premature_close"}
  /\ stop = "max_tokens" \/ \A b \in DOMAIN content : content[b].whole
  /\ Succeeds(stop, content)

\* The body is cut, is no such JSON, or takes longer than the rest of the 180 s.
BodyFails == stage = "reading_body" /\ Fails

-----------------------------------------------------------------------------
(* translate_anthropic_stream.  MessageStart and Ping touch usage only.    *)

\* finalize of the block gives a ContentBlock.
Parses(block) == block.kind = "tool_use" => block.whole

\* No JSON at all is parsed as {}; a thinking block is signed by a later delta.
BlockStart(b, kind) ==
  /\ stage = "streaming" /\ b \notin DOMAIN accumulators
  /\ accumulators' =
       [i \in DOMAIN accumulators \cup {b} |->
          IF i = b THEN [kind |-> kind, parts |-> 0, whole |-> kind # "thinking"]
          ELSE accumulators[i]]
  /\ open' = open \cup {b}
  /\ started' = IF kind = "tool_use" THEN started \cup {b} ELSE started
  /\ UNCHANGED <<call, stage, attempt, stop_reason, told, outcome>>

\* A text, thinking or input_json delta.  External: the JSON of a call is over with
\* the delta that completes it, a thinking block with its signature.
BlockDelta(b) ==
  LET block == accumulators[b] IN
  /\ stage = "streaming" /\ b \in open
  /\ block.kind # "redacted" /\ block.parts < MaxParts
  /\ block.kind = "thinking" => ~block.whole
  /\ block.kind = "tool_use" /\ block.parts > 0 => ~block.whole
  /\ \E whole \in IF block.kind = "tool_use" THEN BOOLEAN ELSE {block.whole} :
       accumulators' = [accumulators EXCEPT ![b] =
                          [kind |-> block.kind, parts |-> block.parts + 1, whole |-> whole]]
  /\ told' = [told EXCEPT ![b] = @ + 1]
  /\ UNCHANGED <<call, stage, attempt, open, stop_reason, started, outcome>>

SignatureDelta(b) ==
  /\ stage = "streaming" /\ b \in open /\ accumulators[b].kind = "thinking"
  /\ accumulators' = [accumulators EXCEPT ![b] = [@ EXCEPT !.whole = TRUE]]
  /\ UNCHANGED <<call, stage, attempt, open, stop_reason, passed_on, outcome>>

\* Faulty variant: the accumulator lives until content_block_stop.
BlockStopRemoves(b) ==
  /\ stage = "streaming" /\ b \in open
  /\ open' = open \ {b}
  /\ accumulators' = [i \in DOMAIN accumulators \ {b} |-> accumulators[i]]
  /\ UNCHANGED <<call, stage, attempt, stop_reason, passed_on, outcome>>

\* The accumulator stays until the end of the stream.
BlockStop(b) ==
  /\ stage = "streaming" /\ b \in open
  /\ open' = open \ {b}
  /\ UNCHANGED <<call, stage, attempt, accumulators, stop_reason, passed_on, outcome>>

\* message_delta.  External: it comes when every block has stopped, asks for tools
\* only with a call, and is out of tokens if a block was cut.
MessageDelta(reason) ==
  /\ stage = "streaming" /\ open = {}
  /\ reason = "tool_use" => Round!CallsIn(accumulators) # {}
  /\ reason = "max_tokens" \/ \A b \in DOMAIN accumulators : accumulators[b].whole
  /\ stop_reason' = reason
  /\ stage' = "summed"
  /\ UNCHANGED <<call, attempt, accumulators, open, passed_on, outcome>>

\* message_stop: one block that does not parse fails the whole stream.
MessageStop ==
  /\ stage = "summed"
  /\ IF \A b \in DOMAIN accumulators : Parses(accumulators[b])
     THEN Succeeds(IF stop_reason = "none" THEN "other" ELSE stop_reason, accumulators)
     ELSE Fails

\* An error event, a transport error, data that is no such event.
StreamBreaks == stage \in {"streaming", "summed"} /\ Fails

\* The end of the stream without message_stop: blocks that do not parse are dropped.
StreamEnds ==
  LET kept == {b \in DOMAIN accumulators : Parses(accumulators[b])} IN
  /\ stage \in {"streaming", "summed"}
  /\ IF DOMAIN accumulators = {} THEN Fails
     ELSE Succeeds("premature_close", [b \in kept |-> accumulators[b]])

-----------------------------------------------------------------------------
RequestStep ==
  \/ Accepted \/ Retry \/ Refused \/ BackedOff
  \/ \E stop \in Round!Stops, content \in Round!Content : BodyParsed(stop, content)
  \/ BodyFails

StreamStep ==
  \/ \E b \in Blocks, kind \in Round!Kinds : BlockStart(b, kind)
  \/ \E b \in DOMAIN accumulators : BlockDelta(b) \/ SignatureDelta(b) \/ BlockStop(b)
  \/ \E reason \in {"end_turn", "tool_use", "max_tokens", "other", "none"} :
       MessageDelta(reason)
  \/ MessageStop \/ StreamBreaks \/ StreamEnds

LlmNext == RequestStep \/ StreamStep

LlmSpec == LlmInit /\ [][LlmNext]_llm_vars

\* What chat's own timers see to: the 180 s of a request and its body, the backoff.
ChatTimers == call = "chat" /\ (Retry \/ BackedOff \/ BodyFails)

LlmFairSpec == LlmSpec /\ WF_llm_vars(ChatTimers)

-----------------------------------------------------------------------------
(* Properties                                                              *)

\* Whatever the network does to the stream, the orchestrator gets one outcome at
\* most; its text is the text that was streamed, and if it asks for tools, every
\* call was started and has all its arguments.
ImplementsModelRound == Round!Spec

\* A call of chat comes back, however often the server hangs: four attempts with a
\* deadline each.  (stream_chat has none: its caller's deadline is in ChatStream.)
ChatComesBack == call = "chat" ~> status # "open"
=============================================================================
