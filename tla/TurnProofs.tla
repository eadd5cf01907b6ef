----------------------------- MODULE TurnProofs -----------------------------
(***************************************************************************)
(* Proofs about a streaming turn: one call of the model, for any number of *)
(* blocks, deltas and retries, and then the run and its stream, for any    *)
(* number of rounds and calls and any size of the channels.                *)
(***************************************************************************)
EXTENDS ChatStream, LlmClient, FiniteSetTheorems, SequenceTheorems, TLAPS

-----------------------------------------------------------------------------
(* A call of the model                                                     *)


\* chat gathers nothing and passes nothing on; what stream_chat passed on is what it
\* gathered; a stop reason that asks for tools was checked against whole blocks.
GatherInv ==
  /\ stage = "over" <=> status # "open"
  /\ stage = "reading_body" => call = "chat"
  /\ call = "chat" => stage \notin {"streaming", "summed"} /\ DOMAIN accumulators = {}
  /\ \A b \in Blocks :
       told[b] = IF b \in DOMAIN accumulators THEN accumulators[b].parts ELSE 0
  /\ started = Round!CallsIn(accumulators)
  /\ stage = "summed" /\ stop_reason = "tool_use" =>
       \A b \in DOMAIN accumulators : accumulators[b].whole

LlmInv == LlmTypeOK /\ GatherInv

-----------------------------------------------------------------------------
\* A content is a function from some of the blocks.
LEMMA ContentMembers ==
  /\ \A f \in Round!Content :
       DOMAIN f \subseteq Blocks /\ f \in [DOMAIN f -> Round!Block]
  /\ \A B \in SUBSET Blocks : \A f \in [B -> Round!Block] : f \in Round!Content
BY DEF Round!Content

\* Nothing has come yet.
LEMMA NothingCame ==
  /\ [b \in {} |-> {}] \in Round!Content /\ DOMAIN [b \in {} |-> {}] = {}
  /\ Round!NoAnswer \in [stop : Round!Stops, content : Round!Content]
<1>1. [b \in {} |-> {}] \in [{} -> Round!Block]
  OBVIOUS
<1>2. [b \in {} |-> {}] \in Round!Content
  BY <1>1, ContentMembers
<1> QED
  BY <1>2 DEF Round!NoAnswer, Round!Stops

\* The invariant of a call, initially.
LEMMA LlmInitInv == LlmInit => LlmInv
BY NothingCame, LlmAssumption
   DEF LlmInit, Round!Init, LlmInv, LlmTypeOK, GatherInv, Stage, Round!Stops, Round!CallsIn

\* What a failure leaves behind.
LEMMA FailureKeepsInv ==
  ASSUME LlmInv, Fails
  PROVE  LlmInv'
BY DEF LlmInv, LlmTypeOK, GatherInv, Stage, Fails, decoder, passed_on, Round!CallsIn, Round!Block

\* And a success, with a content that is one.
LEMMA SuccessKeepsInv ==
  ASSUME LlmInv, NEW stop \in Round!Stops, NEW content \in Round!Content,
         Succeeds(stop, content)
  PROVE  LlmInv'
BY DEF LlmInv, LlmTypeOK, GatherInv, Stage, Succeeds, decoder, passed_on, Round!CallsIn

\* The blocks that parse are a content.
LEMMA KeptIsContent ==
  ASSUME LlmTypeOK, NEW kept \in SUBSET DOMAIN accumulators
  PROVE  [b \in kept |-> accumulators[b]] \in Round!Content
<1>1. DOMAIN accumulators \subseteq Blocks /\ accumulators \in [DOMAIN accumulators -> Round!Block]
  BY ContentMembers DEF LlmTypeOK
<1>2. [b \in kept |-> accumulators[b]] \in [kept -> Round!Block]
  BY <1>1
<1> QED
  BY <1>1, <1>2, ContentMembers

\* The invariant is kept by every step of a request.
LEMMA RequestKeepsInv ==
  ASSUME LlmInv, RequestStep
  PROVE  LlmInv'
<1> USE DEF LlmInv, LlmTypeOK, GatherInv, Stage, decoder, passed_on, outcome
<1>1. CASE Accepted
  BY <1>1 DEF Accepted
<1>2. CASE Retry
  BY <1>2, FailureKeepsInv, LlmAssumption DEF Retry
<1>3. CASE Refused
  BY <1>3, FailureKeepsInv DEF Refused
<1>4. CASE BackedOff
  BY <1>4 DEF BackedOff
<1>5. ASSUME NEW stop \in Round!Stops, NEW content \in Round!Content, BodyParsed(stop, content)
      PROVE  LlmInv'
  BY <1>5, SuccessKeepsInv DEF BodyParsed
<1>6. CASE BodyFails
  BY <1>6, FailureKeepsInv DEF BodyFails
<1> QED
  BY <1>1, <1>2, <1>3, <1>4, <1>5, <1>6 DEF RequestStep

\* The invariant is kept by every event of the stream.
LEMMA StreamKeepsInv ==
  ASSUME LlmInv, StreamStep
  PROVE  LlmInv'
<1> USE DEF LlmInv, LlmTypeOK, GatherInv, Stage, decoder, passed_on, outcome
<1>0. /\ DOMAIN accumulators \subseteq Blocks
      /\ accumulators \in [DOMAIN accumulators -> Round!Block]
  BY ContentMembers
<1>1. ASSUME NEW b \in Blocks, NEW kind \in Round!Kinds, BlockStart(b, kind)
      PROVE  LlmInv'
  <2>1. [kind |-> kind, parts |-> 0, whole |-> kind # "thinking"] \in Round!Block
    BY LlmAssumption DEF Round!Block
  <2>2. /\ DOMAIN accumulators' = DOMAIN accumulators \cup {b}
        /\ accumulators' \in [DOMAIN accumulators \cup {b} -> Round!Block]
        /\ accumulators'[b] = [kind |-> kind, parts |-> 0, whole |-> kind # "thinking"]
        /\ \A i \in DOMAIN accumulators : accumulators'[i] = accumulators[i]
    BY <1>0, <1>1, <2>1 DEF BlockStart
  <2>3. accumulators' \in Round!Content
    BY <1>0, <2>2, ContentMembers
  <2>4. started' = Round!CallsIn(accumulators)'
    BY <1>1, <2>2 DEF BlockStart, Round!CallsIn
  <2> QED
    BY <1>1, <2>2, <2>3, <2>4 DEF BlockStart
<1>2. ASSUME NEW b \in DOMAIN accumulators, BlockDelta(b)
      PROVE  LlmInv'
  <2>1. PICK whole \in BOOLEAN :
          accumulators' = [accumulators EXCEPT ![b] =
                             [kind |-> accumulators[b].kind, parts |-> accumulators[b].parts + 1,
                              whole |-> whole]]
    BY <1>0, <1>2 DEF BlockDelta, Round!Block
  <2>2. accumulators[b] \in Round!Block /\ accumulators[b].parts < MaxParts
    BY <1>0, <1>2 DEF BlockDelta
  <2>3. /\ DOMAIN accumulators' = DOMAIN accumulators
        /\ \A i \in DOMAIN accumulators : i # b => accumulators'[i] = accumulators[i]
    BY <1>0, <2>1
  <2>3a. accumulators'[b] = [kind |-> accumulators[b].kind, parts |-> accumulators[b].parts + 1,
                             whole |-> whole]
    BY <1>0, <2>1
  <2>3b. accumulators'[b] \in Round!Block
    BY <2>2, <2>3a, LlmAssumption DEF Round!Block
  <2>3c. accumulators' \in [DOMAIN accumulators -> Round!Block]
    BY <1>0, <2>1, <2>3, <2>3b
  <2>4. accumulators' \in Round!Content
    BY <1>0, <2>3, <2>3c, ContentMembers
  <2>5. accumulators'[b].parts = accumulators[b].parts + 1
        /\ \A i \in DOMAIN accumulators : accumulators'[i].kind = accumulators[i].kind
    BY <2>3, <2>3a
  <2>6. Round!CallsIn(accumulators)' = Round!CallsIn(accumulators)
    BY <2>3, <2>5 DEF Round!CallsIn
  <2>7. told' = [told EXCEPT ![b] = accumulators'[b].parts] /\ accumulators'[b].parts \in 0..MaxParts
    BY <1>2, <2>2, <2>3b, <2>5 DEF BlockDelta, Round!Block
  <2> QED
    BY <1>0, <1>2, <2>3, <2>4, <2>6, <2>7 DEF BlockDelta
<1>3. ASSUME NEW b \in DOMAIN accumulators, SignatureDelta(b)
      PROVE  LlmInv'
  <2>1. /\ DOMAIN accumulators' = DOMAIN accumulators
        /\ accumulators'[b] = [accumulators[b] EXCEPT !.whole = TRUE]
        /\ \A i \in DOMAIN accumulators : i # b => accumulators'[i] = accumulators[i]
        /\ accumulators' \in [DOMAIN accumulators -> Round!Block]
    BY <1>0, <1>3 DEF SignatureDelta, Round!Block
  <2>2. \A i \in DOMAIN accumulators :
          /\ accumulators'[i].kind = accumulators[i].kind
          /\ accumulators'[i].parts = accumulators[i].parts
    BY <1>0, <2>1 DEF Round!Block
  <2>3. accumulators' \in Round!Content /\ Round!CallsIn(accumulators)' = Round!CallsIn(accumulators)
    BY <1>0, <2>1, <2>2, ContentMembers DEF Round!CallsIn
  <2> QED
    BY <1>3, <2>1, <2>2, <2>3 DEF SignatureDelta
<1>4. ASSUME NEW b \in DOMAIN accumulators, BlockStop(b)
      PROVE  LlmInv'
  BY <1>4 DEF BlockStop, Round!CallsIn
<1>5. ASSUME NEW reason \in {"end_turn", "tool_use", "max_tokens", "other", "none"},
             MessageDelta(reason)
      PROVE  LlmInv'
  BY <1>5 DEF MessageDelta, Round!CallsIn, Round!Stops
<1>6. CASE MessageStop
  BY <1>6, FailureKeepsInv, SuccessKeepsInv DEF MessageStop, Round!Stops
<1>7. CASE StreamBreaks
  BY <1>7, FailureKeepsInv DEF StreamBreaks
<1>8. CASE StreamEnds
  BY <1>8, FailureKeepsInv, SuccessKeepsInv, KeptIsContent DEF StreamEnds, Round!Stops
<1> QED
  BY <1>1, <1>2, <1>3, <1>4, <1>5, <1>6, <1>7, <1>8 DEF StreamStep

\* The invariant of a call holds always: its types, and that what it passed on is
\* what it gathered.
THEOREM LlmInvariance == LlmSpec => []LlmInv
<1>1. LlmInv /\ [LlmNext]_llm_vars => LlmInv'
  <2> SUFFICES ASSUME LlmInv, [LlmNext]_llm_vars
               PROVE  LlmInv'
    OBVIOUS
  <2>1. CASE UNCHANGED llm_vars
    BY <2>1 DEF LlmInv, LlmTypeOK, GatherInv, llm_vars, decoder, passed_on, outcome, Round!CallsIn
  <2> QED
    BY <2>1, RequestKeepsInv, StreamKeepsInv DEF LlmNext
<1> QED
  BY <1>1, LlmInitInv, PTL DEF LlmSpec

-----------------------------------------------------------------------------
(* The refinement                                                          *)

\* A call that starts is a round that is open.
LEMMA LlmInitRefines == LlmInit => Round!Init
BY DEF LlmInit

\* A failed call fails its round, and what was passed on stays.
LEMMA FailureRefines ==
  ASSUME LlmInv, stage # "over", Fails
  PROVE  Round!Fail
BY DEF LlmInv, GatherInv, LlmTypeOK, Fails, Round!Fail, passed_on

\* A call that has gathered what it answers, or has passed nothing on, keeps its
\* promise.
LEMMA SuccessRefines ==
  ASSUME LlmInv, stage # "over", NEW stop \in Round!Stops, NEW content \in Round!Content,
         Succeeds(stop, content),
         \A b \in Blocks \ started : told[b] > 0 =>
           b \in DOMAIN content /\ content[b].parts = told[b],
         stop = "tool_use" =>
           /\ started \in {{}, Round!CallsIn(content)}
           /\ \A b \in DOMAIN content : content[b].whole
  PROVE  Round!Finish
BY DEF LlmInv, GatherInv, LlmTypeOK, Succeeds, Round!Finish, Round!Promised, passed_on

\* A step that touches neither is a stutter.
LEMMA OthersStutter ==
  ASSUME UNCHANGED <<passed_on, outcome>>
  PROVE  UNCHANGED <<told, started, status, answer>>
BY DEF passed_on, outcome

\* Every step of a call is a step of its round or a stutter.
LEMMA LlmStepRefines ==
  ASSUME LlmInv, LlmNext
  PROVE  [Round!Next]_<<told, started, status, answer>>
<1> USE DEF GatherInv
<1>0. LlmInv /\ GatherInv /\ LlmTypeOK
  BY DEF LlmInv
<1>1. CASE RequestStep
  <2>1. CASE Accepted
    BY <2>1, OthersStutter DEF Accepted
  <2>2. CASE Retry
    BY <1>0, <2>2, OthersStutter, FailureRefines DEF Retry, Round!Next
  <2>3. CASE Refused
    BY <1>0, <2>3, FailureRefines DEF Refused, Round!Next
  <2>4. CASE BackedOff
    BY <2>4, OthersStutter DEF BackedOff
  <2>5. ASSUME NEW stop \in Round!Stops, NEW content \in Round!Content,
               BodyParsed(stop, content)
        PROVE  Round!Next
    <3>1. started = {} /\ \A b \in Blocks : told[b] = 0
      BY <1>0, <2>5 DEF BodyParsed, Round!CallsIn
    <3> QED
      BY <1>0, <2>5, <3>1, SuccessRefines DEF BodyParsed, Round!Next
  <2>6. CASE BodyFails
    BY <1>0, <2>6, FailureRefines DEF BodyFails, Round!Next
  <2> QED
    BY <1>1, <2>1, <2>2, <2>3, <2>4, <2>5, <2>6 DEF RequestStep
<1>2. CASE StreamStep
  <2>0. /\ DOMAIN accumulators \subseteq Blocks
        /\ accumulators \in [DOMAIN accumulators -> Round!Block]
    BY <1>0, ContentMembers DEF LlmTypeOK
  <2>1. ASSUME NEW b \in Blocks, NEW kind \in Round!Kinds, BlockStart(b, kind)
        PROVE  [Round!Next]_<<told, started, status, answer>>
    <3>1. b \notin started /\ told[b] = 0 /\ status = "open"
      BY <1>0, <2>1 DEF BlockStart, Round!CallsIn, LlmTypeOK
    <3>2. CASE kind = "tool_use"
      BY <2>1, <3>1, <3>2 DEF BlockStart, Round!Next, Round!Announce, outcome
    <3>3. CASE kind # "tool_use"
      BY <2>1, <3>3 DEF BlockStart, outcome
    <3> QED
      BY <3>2, <3>3
  <2>2. ASSUME NEW b \in DOMAIN accumulators, BlockDelta(b)
        PROVE  Round!Next
    BY <1>0, <2>0, <2>2 DEF BlockDelta, Round!Next, Round!Tell, outcome, LlmTypeOK
  <2>3. ASSUME NEW b \in DOMAIN accumulators, SignatureDelta(b) \/ BlockStop(b)
        PROVE  UNCHANGED <<told, started, status, answer>>
    BY <2>3, OthersStutter DEF SignatureDelta, BlockStop
  <2>4. ASSUME NEW reason, MessageDelta(reason)
        PROVE  UNCHANGED <<told, started, status, answer>>
    BY <2>4, OthersStutter DEF MessageDelta
  <2>5. CASE MessageStop
    <3>1. CASE \A b \in DOMAIN accumulators : Parses(accumulators[b])
      <4>1. PICK stop \in Round!Stops : Succeeds(stop, accumulators)
                                        /\ (stop = "tool_use" => stop_reason = "tool_use")
        BY <1>0, <2>5, <3>1 DEF MessageStop, LlmTypeOK, Round!Stops
      <4>2. stage = "summed"
        BY <2>5 DEF MessageStop
      <4>3. \A b \in Blocks \ started : told[b] > 0 =>
              b \in DOMAIN accumulators /\ accumulators[b].parts = told[b]
        BY <1>0
      <4>4. accumulators \in Round!Content
        BY <1>0 DEF LlmTypeOK
      <4> QED
        BY <1>0, <4>1, <4>2, <4>3, <4>4, SuccessRefines DEF Round!Next
    <3>2. CASE ~ \A b \in DOMAIN accumulators : Parses(accumulators[b])
      BY <1>0, <2>5, <3>2, FailureRefines DEF MessageStop, Round!Next
    <3> QED
      BY <3>1, <3>2
  <2>6. CASE StreamBreaks
    BY <1>0, <2>6, FailureRefines DEF StreamBreaks, Round!Next
  <2>7. CASE StreamEnds
    <3> DEFINE kept == {b \in DOMAIN accumulators : Parses(accumulators[b])}
               content == [b \in kept |-> accumulators[b]]
    <3>1. CASE DOMAIN accumulators = {}
      BY <1>0, <2>7, <3>1, FailureRefines DEF StreamEnds, Round!Next
    <3>2. CASE DOMAIN accumulators # {}
      <4>1. Succeeds("premature_close", content) /\ stage # "over"
        BY <2>7, <3>2 DEF StreamEnds
      <4>2. content \in Round!Content
        BY <1>0, KeptIsContent
      <4>3. ASSUME NEW b \in Blocks \ started, told[b] > 0
            PROVE  b \in DOMAIN content /\ content[b].parts = told[b]
        <5>1. b \in DOMAIN accumulators /\ accumulators[b].parts = told[b]
          BY <1>0, <4>3
        <5>2. b \in kept
          BY <1>0, <4>3, <5>1 DEF Parses, Round!CallsIn
        <5> QED
          BY <5>1, <5>2
      <4>4. "premature_close" \in Round!Stops
        BY DEF Round!Stops
      <4> HIDE DEF content
      <4> QED
        BY <1>0, <4>1, <4>2, <4>3, <4>4, SuccessRefines DEF Round!Next
    <3> QED
      BY <3>1, <3>2
  <2> QED
    BY <1>2, <2>1, <2>2, <2>3, <2>4, <2>5, <2>6, <2>7 DEF StreamStep
<1> QED
  BY <1>1, <1>2 DEF LlmNext

\* Every call of the model keeps the promise its caller relies on, for any number of
\* blocks, deltas and retries and wherever the stream breaks.
THEOREM LlmImplementsModelRound == LlmSpec => ImplementsModelRound
<1>1. LlmInv /\ [LlmNext]_llm_vars => [Round!Next]_<<told, started, status, answer>>
  <2> SUFFICES ASSUME LlmInv, [LlmNext]_llm_vars
               PROVE  [Round!Next]_<<told, started, status, answer>>
    OBVIOUS
  <2>1. CASE UNCHANGED llm_vars
    BY <2>1, OthersStutter DEF llm_vars
  <2> QED
    BY <2>1, LlmStepRefines
<1> QED
  BY <1>1, LlmInitRefines, LlmInvariance, PTL DEF LlmSpec, ImplementsModelRound, Round!Spec

-----------------------------------------------------------------------------
(* Types of the streaming turn                                             *)

\* The last events of a run, and what a delta yields.
LEMMA PlainEvents ==
  /\ Done \in ProgressEvent /\ Error \in ProgressEvent
  /\ {<<Error>>, <<Done>>, << <<"text", NoCall>> >>, << <<"suggestions", NoCall>>, Done>>}
       \subseteq Seq(ProgressEvent)
<1>1. /\ Done \in ProgressEvent /\ Error \in ProgressEvent
      /\ <<"text", NoCall>> \in ProgressEvent /\ <<"suggestions", NoCall>> \in ProgressEvent
  BY DEF Done, Error, ProgressEvent
<1> HIDE DEF Done, Error, NoCall, ProgressEvent
<1> QED
  BY <1>1

\* The events of a call.
LEMMA CallEvents ==
  ASSUME iteration \in 1..MaxIterations, NEW i \in 1..MaxCalls
  PROVE  /\ <<iteration, i>> \in Calls
         /\ Started(i) \in ProgressEvent /\ Completed(i) \in ProgressEvent
         /\ Pending(i) \in ProgressEvent
<1>1. <<iteration, i>> \in Calls
  BY DEF Calls
<1> HIDE DEF Calls
<1> QED
  BY <1>1 DEF Started, Completed, Pending, ProgressEvent

\* Those of a round.
LEMMA Announcements ==
  ASSUME RunTypeOK, NEW n \in 1..MaxCalls, announced \in {0, n}
  PROVE  [i \in 1..(n - announced) |-> Started(announced + i)] \in Seq(ProgressEvent)
<1> DEFINE f == [i \in 1..(n - announced) |-> Started(announced + i)]
<1>1. MaxCalls \in Nat /\ n - announced \in Nat
  BY OrchestratorAssumption DEF RunTypeOK
<1>2. \A i \in 1..(n - announced) : announced + i \in 1..MaxCalls
  BY <1>1
<1>3. \A i \in 1..(n - announced) : Started(announced + i) \in ProgressEvent
  BY <1>2, CallEvents DEF RunTypeOK
<1>4. f \in [1..(n - announced) -> ProgressEvent]
  BY <1>3
<1> QED
  BY <1>1, <1>4

\* The results of a round are a sequence of events.
LEMMA Results ==
  ASSUME RunTypeOK
  PROVE  [i \in 1..calls |-> Completed(i)] \in Seq(ProgressEvent)
<1> DEFINE f == [i \in 1..calls |-> Completed(i)]
<1>1. MaxCalls \in Nat /\ calls \in Nat /\ \A i \in 1..calls : i \in 1..MaxCalls
  BY OrchestratorAssumption DEF RunTypeOK
<1>2. \A i \in 1..calls : Completed(i) \in ProgressEvent
  BY <1>1, CallEvents DEF RunTypeOK
<1>3. f \in [1..calls -> ProgressEvent]
  BY <1>2
<1> QED
  BY <1>1, <1>3

\* A step of the run keeps its types.
LEMMA RunKeepsTypes ==
  ASSUME RunTypeOK, RunStep
  PROVE  RunTypeOK'
<1>t. /\ MaxCalls \in Nat /\ MaxDeltas \in Nat /\ MaxIterations \in Nat
      /\ OrchCapacity \in Nat /\ WriteCalls \subseteq 1..MaxCalls
  BY OrchestratorAssumption
<1> USE DEF RunTypeOK, Go, Running, Finished, turn
<1>1. CASE OpenStream \/ OpenFails
  BY <1>1, <1>t DEF OpenStream, OpenFails
<1>2. CASE Delta \/ RoundFails \/ RoundEnds
  <2>1. todo' \in Seq(ProgressEvent)
    BY <1>2, PlainEvents DEF Delta, RoundFails, RoundEnds
  <2> QED
    BY <1>2, <1>t, <2>1 DEF Delta, RoundFails, RoundEnds
<1>3. CASE ToolUseStart
  <2>1. /\ announced + 1 \in 1..MaxCalls
        /\ iteration \in 1..MaxIterations
    BY <1>3, <1>t DEF ToolUseStart
  <2>2. Started(announced + 1) \in ProgressEvent
    BY <2>1, CallEvents
  <2> QED
    BY <1>3, <1>t, <2>1, <2>2 DEF ToolUseStart
<1>4. ASSUME NEW n \in 1..MaxCalls, ToolUse(n)
      PROVE  RunTypeOK'
  <2>1. [i \in 1..(n - announced) |-> Started(announced + i)] \in Seq(ProgressEvent)
    BY <1>4, Announcements DEF ToolUse
  <2> QED
    BY <1>4, <1>t, <2>1 DEF ToolUse
<1>5. CASE ToolsReturned
  <2>1. CASE Go("tools", "reporting", [i \in 1..calls |-> Completed(i)])
    BY <1>5, <2>1, <1>t, Results DEF ToolsReturned
  <2>2. ASSUME NEW first \in PendingCalls,
               Go("tools", "ending", [i \in 1..calls |-> Completed(i)] \o <<Pending(first), Done>>)
        PROVE  RunTypeOK'
    <3>1. first \in 1..MaxCalls /\ iteration \in 1..MaxIterations
      BY <1>t DEF PendingCalls
    <3>2. Pending(first) \in ProgressEvent
      BY <3>1, CallEvents
    <3>3. <<Pending(first), Done>> \in Seq(ProgressEvent)
      BY <3>2, PlainEvents
    <3>4. [i \in 1..calls |-> Completed(i)] \o <<Pending(first), Done>> \in Seq(ProgressEvent)
      BY <3>3, Results, ConcatProperties
    <3> QED
      BY <1>5, <2>2, <3>4, <1>t DEF ToolsReturned
  <2> QED
    BY <1>5, <2>1, <2>2 DEF ToolsReturned
<1>6. CASE SendEvent
  BY <1>6, <1>t DEF SendEvent
<1>7. ASSUME NEW refused \in SUBSET (1..MaxCalls), Dispatch(refused)
      PROVE  RunTypeOK'
  <2>1. {iteration} \X {i \in 1..calls : i \in WriteCalls} \subseteq Calls
    BY <1>t DEF Calls
  <2>2. proposed' \subseteq Calls
    BY <1>7, <2>1 DEF Dispatch
  <2>3. pc' \in {"tools", "returned_err"} /\ todo' = <<>>
    BY <1>7 DEF Dispatch
  <2> QED
    BY <1>7, <2>2, <2>3 DEF Dispatch
<1>8. CASE NextIteration
  BY <1>8, <1>t DEF NextIteration
<1>9. CASE TooManyIterations \/ Return
  BY <1>9, PlainEvents DEF TooManyIterations, Return
<1> QED
  BY <1>1, <1>2, <1>3, <1>4, <1>5, <1>6, <1>7, <1>8, <1>9 DEF RunStep, OutsideStep, OwnStep

-----------------------------------------------------------------------------
(* The stream                                                              *)

StreamTypes ==
  /\ RunTypeOK
  /\ held \in Seq(ProgressEvent) /\ sse_chan \in Seq(ProgressEvent) /\ seen \in Seq(ProgressEvent)

\* What the client of this turn got or will get of what was taken from the run.
passed == (seen \o sse_chan) \o held

\* A forwarder that selects holds nothing and has not been cut; one that was cut has
\* ended the run and takes nothing more from it.
ForwardInv ==
  /\ fwd = "selecting" => held = <<>>
  /\ cut # "no" => fwd \notin {"selecting", "forwarding"} /\ pc \in Finished
  /\ client = "reading" =>
       IF cut = "no" THEN passed \o orch_chan = sent
       ELSE \E before, rest \in Seq(ProgressEvent) :
              passed = Append(before, Error) /\ before \o rest = sent

StreamInv == StreamTypes /\ ForwardInv

\* Initially nothing has been sent, passed on or forwarded.
LEMMA StreamInitInv == Init => StreamInv
<1> SUFFICES ASSUME Init PROVE StreamInv
  OBVIOUS
<1>1. StreamTypes
  BY OrchestratorAssumption DEF Init, RunInit, StreamTypes, RunTypeOK, Running
<1>2. ForwardInv
  BY DEF Init, RunInit, ForwardInv, passed
<1> QED
  BY <1>1, <1>2 DEF StreamInv

\* The head of one sequence may as well be the last of the one before it.
LEMMA MoveHead ==
  ASSUME NEW S, NEW s \in Seq(S), NEW t \in Seq(S), t # <<>>
  PROVE  /\ Append(s, Head(t)) \in Seq(S) /\ Tail(t) \in Seq(S) /\ Head(t) \in S
         /\ Append(s, Head(t)) \o Tail(t) = s \o t
<1>1. Append(s, Head(t)) \in Seq(S) /\ Tail(t) \in Seq(S) /\ Head(t) \in S
  BY HeadTailProperties, AppendProperties
<1>2. t = <<Head(t)>> \o Tail(t)
  <2>1. Len(t) \in Nat \ {0}
    BY EmptySeq
  <2>2. /\ Head(t) = SubSeq(t, 1, Len(t))[1]
        /\ SubSeq(t, 1, Len(t)) = <<t[1]>> \o SubSeq(t, 2, Len(t))
    BY <2>1, SubSeqRecursiveFirst, SubSeqFull
  <2> QED
    BY <2>1, <2>2, SubSeqFull, TailIsSubSeq
<1>3. (s \o <<Head(t)>>) \o Tail(t) = s \o (<<Head(t)>> \o Tail(t))
  BY <1>1, ConcatAssociative
<1> QED
  BY <1>1, <1>2, <1>3, AppendIsConcat

\* A step of a run either sends the next event or leaves its channel alone.
LEMMA RunStepSends ==
  ASSUME RunStep
  PROVE  /\ pc \in Running
         /\ SendEvent \/ UNCHANGED <<orch_chan, sent>>
BY DEF RunStep, OutsideStep, OwnStep, OpenStream, OpenFails, Delta, ToolUseStart, RoundFails,
   RoundEnds, ToolUse, ToolsReturned, Dispatch, NextIteration, TooManyIterations, Return, SendEvent,
   Go, Running

\* What the run sends is what the client will get.
LEMMA RunKeepsStream ==
  ASSUME StreamInv, OrchestratorStep(RunStep)
  PROVE  StreamInv'
<1> USE DEF record, signals, response
<1>1. StreamTypes'
  BY RunKeepsTypes DEF StreamInv, StreamTypes, OrchestratorStep
<1>2. cut = "no"
  BY RunStepSends DEF StreamInv, ForwardInv, OrchestratorStep, Running, Finished
<1>3. client = "reading" => passed \o orch_chan' = sent'
  <2>1. CASE UNCHANGED <<orch_chan, sent>>
    BY <1>2, <2>1 DEF StreamInv, ForwardInv
  <2>2. CASE SendEvent
    <3>1. todo \in Seq(ProgressEvent) /\ todo # <<>> /\ orch_chan \in Seq(ProgressEvent)
      BY <2>2 DEF StreamInv, StreamTypes, RunTypeOK, SendEvent
    <3>2. Head(todo) \in ProgressEvent
      BY <3>1, HeadTailProperties
    <3>3. passed \in Seq(ProgressEvent)
      BY ConcatProperties DEF StreamInv, StreamTypes, passed
    <3>4. passed \o Append(orch_chan, Head(todo)) = Append(passed \o orch_chan, Head(todo))
      <4>1. (passed \o orch_chan) \o <<Head(todo)>> = passed \o (orch_chan \o <<Head(todo)>>)
        BY <3>1, <3>2, <3>3, ConcatAssociative
      <4> QED
        BY <3>1, <3>2, <3>3, <4>1, AppendIsConcat, ConcatProperties
    <3> QED
      BY <1>2, <2>2, <3>4 DEF StreamInv, ForwardInv, SendEvent
  <2> QED
    BY <2>1, <2>2, RunStepSends DEF OrchestratorStep
<1>4. ForwardInv'
  BY <1>2, <1>3 DEF StreamInv, ForwardInv, OrchestratorStep, passed
<1> QED
  BY <1>1, <1>4 DEF StreamInv

\* So does the forwarder, and when it is cut it adds one Error to what it had passed.
LEMMA ForwarderKeepsStream ==
  ASSUME StreamInv, ForwarderStep
  PROVE  StreamInv'
<1> USE DEF record, signals, response, run_vars, turn
<1>t. /\ seen \in Seq(ProgressEvent) /\ sse_chan \in Seq(ProgressEvent)
      /\ held \in Seq(ProgressEvent) /\ orch_chan \in Seq(ProgressEvent)
      /\ seen \o sse_chan \in Seq(ProgressEvent)
  BY ConcatProperties DEF StreamInv, StreamTypes, RunTypeOK
<1>1. CASE Cut
  <2>1. held' = <<Error>> /\ held = <<>> /\ cut = "no" /\ cut' # "no"
    BY <1>1 DEF Cut, StreamInv, ForwardInv
  <2>2. StreamTypes'
    BY <1>1, <2>1, PlainEvents DEF Cut, StreamInv, StreamTypes, RunTypeOK, Running, Finished
  <2>3. passed' = Append(seen \o sse_chan, Error)
    BY <1>1, <1>t, <2>1, PlainEvents, AppendIsConcat DEF Cut, passed
  <2>4. client = "reading" => (seen \o sse_chan) \o orch_chan = sent
    BY <1>t, <2>1, ConcatEmptySeq DEF StreamInv, ForwardInv, passed
  <2>5. pc' \in Finished
    BY <1>1 DEF Cut, StreamInv, StreamTypes, RunTypeOK, Running, Finished
  <2>6. ForwardInv'
    BY <1>1, <1>t, <2>1, <2>3, <2>4, <2>5 DEF Cut, ForwardInv
  <2> QED
    BY <2>2, <2>6 DEF StreamInv
<1>2. CASE Recv
  <2>1. held = <<>> /\ cut = "no" /\ cut' = "no"
    BY <1>2 DEF Recv, StreamInv, ForwardInv
  <2>2. /\ Append(seen \o sse_chan, Head(orch_chan)) \o Tail(orch_chan) = (seen \o sse_chan) \o orch_chan
        /\ Head(orch_chan) \in ProgressEvent /\ Tail(orch_chan) \in Seq(ProgressEvent)
    <3>1. orch_chan # <<>>
      BY <1>2 DEF Recv
    <3> HIDE DEF record, signals, response, run_vars, turn
    <3> DEFINE s == seen \o sse_chan
    <3>2. s \in Seq(ProgressEvent)
      BY <1>t
    <3> HIDE DEF s
    <3>3. /\ Append(s, Head(orch_chan)) \o Tail(orch_chan) = s \o orch_chan
          /\ Head(orch_chan) \in ProgressEvent /\ Tail(orch_chan) \in Seq(ProgressEvent)
      BY <1>t, <3>1, <3>2, MoveHead
    <3> QED
      BY <3>3 DEF s
  <2>3. StreamTypes'
    <3>1. orch_chan' = Tail(orch_chan) /\ held' = <<Head(orch_chan)>> /\ orch_chan # <<>>
          /\ UNCHANGED <<mode, pc, iteration, turn, todo, proposed, sent, sse_chan, seen>>
      BY <1>2 DEF Recv
    <3>2. Len(Tail(orch_chan)) <= Len(orch_chan) /\ Len(orch_chan) \in Nat /\ Len(Tail(orch_chan)) \in Nat
      BY <1>t, <3>1, HeadTailProperties, LenProperties
    <3>3. <<Head(orch_chan)>> \in Seq(ProgressEvent)
      BY <2>2
    <3>4. Len(Tail(orch_chan)) <= OrchCapacity
      BY <3>2, OrchestratorAssumption DEF StreamInv, StreamTypes, RunTypeOK
    <3>5. RunTypeOK'
      BY <2>2, <3>1, <3>4 DEF StreamInv, StreamTypes, RunTypeOK
    <3> QED
      BY <1>t, <3>1, <3>3, <3>5 DEF StreamTypes
  <2>4. passed' = Append(seen \o sse_chan, Head(orch_chan))
    BY <1>2, <1>t, <2>2, AppendIsConcat DEF Recv, passed
  <2>5. client = "reading" => (seen \o sse_chan) \o orch_chan = sent
    BY <1>t, <2>1, ConcatEmptySeq DEF StreamInv, ForwardInv, passed
  <2>6. ForwardInv'
    BY <1>2, <2>1, <2>2, <2>4, <2>5 DEF Recv, ForwardInv
  <2> QED
    BY <2>3, <2>6 DEF StreamInv
<1>3. CASE Forward
  <2>1. client = "reading" => passed' = passed
    <3>1. client = "reading" => passed' = (seen \o (sse_chan \o held)) \o <<>>
      BY <1>3 DEF Forward, passed
    <3>2. sse_chan \o held \in Seq(ProgressEvent) /\ seen \o (sse_chan \o held) \in Seq(ProgressEvent)
      BY <1>t, ConcatProperties
    <3>3. (seen \o (sse_chan \o held)) \o <<>> = seen \o (sse_chan \o held)
      BY <3>2, ConcatEmptySeq
    <3>4. (seen \o sse_chan) \o held = seen \o (sse_chan \o held)
      <4>1. seen \in Seq(ProgressEvent) /\ sse_chan \in Seq(ProgressEvent) /\ held \in Seq(ProgressEvent)
        BY <1>t
      <4> HIDE DEF record, signals, response, run_vars, turn
      <4> QED
        BY <4>1, ConcatAssociative
    <3> QED
      BY <3>1, <3>3, <3>4 DEF passed
  <2>2. StreamTypes'
    <3>1. sse_chan' \in Seq(ProgressEvent)
      <4>1. sse_chan \o held \in Seq(ProgressEvent)
        BY <1>t, ConcatProperties
      <4> QED
        BY <1>3, <1>t, <4>1 DEF Forward
    <3>2. held' = <<>> /\ UNCHANGED run_vars /\ UNCHANGED seen
      BY <1>3 DEF Forward
    <3> QED
      BY <1>t, <3>1, <3>2 DEF StreamInv, StreamTypes, RunTypeOK
  <2>3. ForwardInv'
    BY <1>3, <2>1 DEF Forward, StreamInv, ForwardInv
  <2> QED
    BY <2>2, <2>3 DEF StreamInv
<1>4. CASE RecvNone \/ Join \/ PublishCompleted \/ Remember
  <2>1. /\ UNCHANGED <<run_vars, held, cut, response>>
        /\ fwd' \notin {"selecting", "forwarding"}
    BY <1>4 DEF RecvNone, Join, PublishCompleted, Remember
  <2> QED
    BY <2>1 DEF StreamInv, StreamTypes, RunTypeOK, ForwardInv, passed
<1> QED
  BY <1>1, <1>2, <1>3, <1>4 DEF ForwarderStep

\* So does the client, and who has left gets nothing.
LEMMA ClientKeepsStream ==
  ASSUME StreamInv, Read \/ Leave \/ Elapse \/ Shutdown
  PROVE  StreamInv'
<1> USE DEF record, signals, response, run_vars, turn
<1>1. CASE Read
  <2>1. /\ Append(seen, Head(sse_chan)) \o Tail(sse_chan) = seen \o sse_chan
        /\ Append(seen, Head(sse_chan)) \in Seq(ProgressEvent)
        /\ Tail(sse_chan) \in Seq(ProgressEvent)
    BY <1>1, MoveHead DEF Read, StreamInv, StreamTypes
  <2>2. passed' = passed
    BY <1>1, <2>1 DEF Read, passed
  <2> QED
    BY <1>1, <2>1, <2>2 DEF Read, StreamInv, StreamTypes, RunTypeOK, ForwardInv
<1>2. CASE Leave
  BY <1>2 DEF Leave, StreamInv, StreamTypes, RunTypeOK, ForwardInv
<1>3. CASE Elapse \/ Shutdown
  BY <1>3 DEF Elapse, Shutdown, StreamInv, StreamTypes, RunTypeOK, ForwardInv, passed
<1> QED
  BY <1>1, <1>2, <1>3

\* The types of a streamed turn hold, and the client of chat_stream is passed
\* the events that left orch_chan, in their order, until the turn is cut.
THEOREM StreamInvariance == Spec => []StreamInv
<1>1. StreamInv /\ [Next]_vars => StreamInv'
  <2> SUFFICES ASSUME StreamInv, [Next]_vars
               PROVE  StreamInv'
    OBVIOUS
  <2>1. CASE UNCHANGED vars
    BY <2>1 DEF vars, run_vars, turn, record, signals, response, StreamInv, StreamTypes, RunTypeOK,
       ForwardInv, passed
  <2> QED
    BY <2>1, RunKeepsStream, ForwarderKeepsStream, ClientKeepsStream DEF Next
<1> QED
  BY <1>1, StreamInitInv, PTL DEF Spec

\* However long the turn and however small the channels, the client is shown what the
\* run reported, in order, or a prefix of it and one Error.
THEOREM ClientSeesTheTurn == Spec => []StreamIsFaithful
<1>1. StreamInv => StreamIsFaithful
  <2> SUFFICES ASSUME StreamInv, client = "reading"
               PROVE  IF cut = "no" THEN passed \o orch_chan = sent
                      ELSE /\ passed # <<>> /\ Last(passed) = Error
                           /\ IsPrefix(Front(passed), sent)
    BY DEF StreamIsFaithful, passed
  <2>1. CASE cut = "no"
    BY <2>1 DEF StreamInv, ForwardInv
  <2>2. CASE cut # "no"
    <3>1. PICK before \in Seq(ProgressEvent), rest \in Seq(ProgressEvent) :
            passed = Append(before, Error) /\ before \o rest = sent
      BY <2>2 DEF StreamInv, ForwardInv
    <3>2. /\ Len(before) \in Nat /\ Len(passed) = Len(before) + 1
          /\ passed[Len(before) + 1] = Error
          /\ \A i \in 1..Len(before) : passed[i] = before[i]
          /\ passed \in Seq(ProgressEvent) /\ passed # <<>>
      BY <3>1, AppendProperties, PlainEvents
    <3>3. Front(passed) = before
      <4>1. /\ Front(passed) \in Seq(ProgressEvent) /\ Len(Front(passed)) = Len(before)
            /\ \A i \in 1..Len(before) : Front(passed)[i] = before[i]
        BY <3>2 DEF Front
      <4> QED
        BY <4>1, SeqEqual
    <3>4. IsPrefix(before, sent)
      <4>1. Len(before) <= Len(sent)
        BY <3>1, ConcatProperties
      <4>2. SubSeq(sent, 1, Len(before)) = SubSeq(before, 1, Len(before))
        <5>1. CASE Len(before) = 0
          BY <5>1, SubSeqEmpty
        <5>2. CASE Len(before) # 0
          BY <3>1, <3>2, <5>2, SubSeqOfConcat1
        <5> QED
          BY <5>1, <5>2
      <4> QED
        BY <4>1, <4>2 DEF IsPrefix
    <3> QED
      BY <2>2, <3>2, <3>3, <3>4 DEF Last
  <2> QED
    BY <2>1, <2>2
<1> QED
  BY <1>1, StreamInvariance, PTL

\* The types of the forwarder's own variables, and the room in the response.
LEMMA StreamKeepsTypes ==
  ASSUME TypeOK, StreamTypes', [Next]_vars
  PROVE  TypeOK'
<1> USE DEF TypeOK, Forwarder, Over, record, signals, response
<1>t. SseCapacity \in Nat \ {0}
  BY SseCapacityAssumption
<1>1. CASE OrchestratorStep(RunStep) \/ UNCHANGED vars
  BY <1>1 DEF OrchestratorStep, vars, StreamTypes
<1>2. CASE Cut
  <2>1. RunTypeOK' /\ held' \in Seq(ProgressEvent) /\ held' = <<Error>>
    BY <1>2 DEF Cut, StreamTypes
  <2>2. Len(held') = 1
    BY <2>1
  <2>3. /\ fwd' = "cutting" /\ cut' \in {"timeout", "shutdown"} /\ succeeded' = FALSE
        /\ UNCHANGED <<trace, done_seen, elapsed, shutdown, sse_chan, client, seen>>
    BY <1>2 DEF Cut
  <2>4. held' \in Seq(ProgressEvent) /\ Len(held') <= 1
    BY <2>1, <2>2
  <2>5. /\ fwd' \in Forwarder /\ trace' \in Seq(Calls)
        /\ done_seen' \in BOOLEAN /\ succeeded' \in BOOLEAN
        /\ cut' \in {"no", "timeout", "shutdown"}
    BY <2>3
  <2>6. elapsed' \in BOOLEAN /\ shutdown' \in BOOLEAN /\ client' \in {"reading", "left"}
    BY <2>3
  <2>7. sse_chan' \in Seq(ProgressEvent) /\ Len(sse_chan') <= SseCapacity /\ seen' \in Seq(ProgressEvent)
    BY <2>3
  <2> QED
    BY <2>1, <2>4, <2>5, <2>6, <2>7
<1>3. CASE Recv
  <2>1. Head(orch_chan) \in ProgressEvent
    BY <1>3, HeadTailProperties DEF Recv, RunTypeOK
  <2>2. Head(orch_chan)[1] = "completed" => Head(orch_chan)[2] \in Calls
    BY <2>1 DEF ProgressEvent
  <2>3. trace' \in Seq(Calls) /\ done_seen' \in BOOLEAN /\ succeeded' \in BOOLEAN
    BY <1>3, <2>2 DEF Recv, Noted
  <2> QED
    BY <1>3, <2>3 DEF Recv, StreamTypes
<1>4. CASE Forward
  <2>1. Len(sse_chan') <= SseCapacity
    <3>1. CASE sse_chan' = sse_chan \o held /\ Len(sse_chan) < SseCapacity
      <4>1. Len(sse_chan \o held) = Len(sse_chan) + Len(held) /\ Len(sse_chan) \in Nat /\ Len(held) \in Nat
        BY ConcatProperties, LenProperties
      <4> QED
        BY <1>t, <3>1, <4>1
    <3> QED
      BY <1>4, <3>1 DEF Forward
  <2> QED
    BY <1>4, <2>1 DEF Forward, StreamTypes
<1>5. CASE RecvNone \/ Join \/ PublishCompleted \/ Remember \/ Elapse \/ Shutdown
  <2>1. CASE RecvNone \/ Join
    BY <2>1 DEF RecvNone, Join, StreamTypes
  <2>2. CASE PublishCompleted \/ Remember
    BY <2>2 DEF PublishCompleted, Remember, StreamTypes
  <2>3. CASE Elapse \/ Shutdown
    BY <2>3 DEF Elapse, Shutdown, StreamTypes
  <2> QED
    BY <1>5, <2>1, <2>2, <2>3
<1>6. CASE Read \/ Leave
  <2>1. Len(sse_chan') <= SseCapacity
    <3>1. sse_chan # <<>> => Len(Tail(sse_chan)) = Len(sse_chan) - 1 /\ Len(sse_chan) \in Nat
      BY HeadTailProperties, LenProperties
    <3> QED
      BY <1>t, <1>6, <3>1 DEF Read, Leave
  <2> QED
    BY <1>6, <2>1 DEF Read, Leave, StreamTypes
<1> QED
  BY <1>1, <1>2, <1>3, <1>4, <1>5, <1>6 DEF Next, ForwarderStep

\* Type correctness of the stream: neither channel is ever overfull.
THEOREM StreamTypeCorrect == Spec => []TypeOK
<1>1. Init => TypeOK
  <2>1. Init => RunTypeOK
    BY StreamInitInv DEF StreamInv, StreamTypes
  <2>2. /\ <<>> \in Seq(Calls) /\ <<>> \in Seq(ProgressEvent)
        /\ Len(<<>>) <= 1 /\ Len(<<>>) <= SseCapacity
    BY SseCapacityAssumption
  <2> QED
    BY <2>1, <2>2 DEF Init, TypeOK, Forwarder
<1>2. StreamInv => StreamTypes
  BY DEF StreamInv
<1> QED
  BY <1>1, <1>2, StreamKeepsTypes, StreamInvariance, PTL DEF Spec

-----------------------------------------------------------------------------
(* What the run reports                                                    *)

\* What it has sent and what it is bound to send before it goes on.
log == sent \o todo

In(ev, s) == \E i \in 1..Len(s) : s[i] = ev

\* CallsPairUp of any sequence of events.
PairedUp(s) ==
  \A i \in 1..Len(s) :
    /\ s[i][1] = "completed" => \E j \in 1..(i - 1) : s[j] = <<"started", s[i][2]>>
    /\ s[i][1] \in {"started", "completed"} => \A j \in 1..(i - 1) : s[j] # s[i]

\* These calls of the current round are announced, and none has a result.
OnlyAnnounced(announcedCalls) ==
  \A k \in 1..MaxCalls :
    /\ In(Started(k), log) <=> k \in announcedCalls
    /\ ~In(Completed(k), log)

ReportInv ==
  /\ PairedUp(log)
  /\ \A i \in 1..Len(log) :
       log[i][1] \in {"started", "completed"} => log[i][2][1] <= iteration
  /\ pc = "llm" => OnlyAnnounced({})
  /\ pc = "draining" => OnlyAnnounced(1..announced)
  /\ pc \in {"dispatching", "tools"} => OnlyAnnounced(1..calls)

\* Writes are parked by the last round only, and the end of a turn tells of them.
ProposalInv ==
  /\ proposed \subseteq {iteration} \X (1..calls)
  /\ pc \in {"llm", "draining", "dispatching", "reporting", "failing"} => proposed = {}
  /\ pc = "returned_ok" => todo = <<>>
  /\ pc \in {"ending", "returned_ok"} =>
       /\ \A c \in proposed : In(<<"completed", c>>, log)
       /\ proposed # {} => \E c \in proposed : In(<<"pending", c>>, log)

ReportsInv == RunTypeOK /\ ReportInv /\ ProposalInv

\* Initially there is no call, no report and no proposal.
LEMMA ReportsInitInv == Init => ReportsInv
<1> SUFFICES ASSUME Init PROVE ReportsInv
  OBVIOUS
<1>1. RunTypeOK
  BY OrchestratorAssumption DEF Init, RunInit, RunTypeOK, Running
<1>2. Len(log) = 0
  BY DEF Init, RunInit, log
<1>3. ReportInv /\ ProposalInv
  BY <1>2 DEF Init, RunInit, ReportInv, ProposalInv, PairedUp, OnlyAnnounced, In
<1> QED
  BY <1>1, <1>3 DEF ReportsInv

\* What is in a sequence that has grown.
LEMMA InGrown ==
  ASSUME NEW S, NEW s \in Seq(S), NEW t \in Seq(S), NEW ev
  PROVE  In(ev, s \o t) <=> In(ev, s) \/ In(ev, t)
<1>1. /\ Len(s) \in Nat /\ Len(t) \in Nat /\ Len(s \o t) = Len(s) + Len(t)
      /\ \A i \in 1..(Len(s) + Len(t)) :
           (s \o t)[i] = IF i <= Len(s) THEN s[i] ELSE t[i - Len(s)]
  BY ConcatProperties, LenProperties
<1>2. ASSUME NEW i \in 1..Len(s), s[i] = ev PROVE In(ev, s \o t)
  <2>1. i \in 1..Len(s \o t) /\ (s \o t)[i] = ev
    BY <1>1, <1>2
  <2> QED
    BY <2>1 DEF In
<1>3. ASSUME NEW i \in 1..Len(t), t[i] = ev PROVE In(ev, s \o t)
  <2>1. i + Len(s) \in 1..Len(s \o t) /\ (s \o t)[i + Len(s)] = ev
    BY <1>1, <1>3
  <2> QED
    BY <2>1 DEF In
<1>4. ASSUME NEW i \in 1..Len(s \o t), (s \o t)[i] = ev PROVE In(ev, s) \/ In(ev, t)
  <2>1. CASE i <= Len(s)
    <3>1. i \in 1..Len(s) /\ s[i] = ev
      BY <1>1, <1>4, <2>1
    <3> QED
      BY <3>1 DEF In
  <2>2. CASE ~(i <= Len(s))
    <3>1. i - Len(s) \in 1..Len(t) /\ t[i - Len(s)] = ev
      BY <1>1, <1>4, <2>2
    <3> QED
      BY <3>1 DEF In
  <2> QED
    BY <2>1, <2>2
<1> QED
  BY <1>2, <1>3, <1>4 DEF In

\* Calls still pair up after events of which each is new, and each result announced.
LEMMA PairsGrow ==
  ASSUME NEW S, NEW s \in Seq(S), NEW t \in Seq(S), PairedUp(s),
         \A i \in 1..Len(t) :
           /\ t[i][1] = "completed" => In(<<"started", t[i][2]>>, s)
           /\ t[i][1] \in {"started", "completed"} =>
                ~In(t[i], s) /\ \A j \in 1..(i - 1) : t[j] # t[i]
  PROVE  PairedUp(s \o t)
<1>1. /\ Len(s) \in Nat /\ Len(t) \in Nat /\ Len(s \o t) = Len(s) + Len(t)
      /\ \A i \in 1..(Len(s) + Len(t)) :
           (s \o t)[i] = IF i <= Len(s) THEN s[i] ELSE t[i - Len(s)]
  BY ConcatProperties, LenProperties
<1> SUFFICES ASSUME NEW i \in 1..Len(s \o t)
             PROVE  /\ (s \o t)[i][1] = "completed" =>
                         \E j \in 1..(i - 1) : (s \o t)[j] = <<"started", (s \o t)[i][2]>>
                    /\ (s \o t)[i][1] \in {"started", "completed"} =>
                         \A j \in 1..(i - 1) : (s \o t)[j] # (s \o t)[i]
  BY DEF PairedUp
<1>2. CASE i <= Len(s)
  <2>1. i \in 1..Len(s) /\ (s \o t)[i] = s[i] /\ \A j \in 1..(i - 1) : (s \o t)[j] = s[j]
    BY <1>1, <1>2
  <2> QED
    BY <2>1 DEF PairedUp
<1>3. CASE ~(i <= Len(s))
  <2> DEFINE k == i - Len(s)
  <2>1. k \in 1..Len(t) /\ (s \o t)[i] = t[k]
    BY <1>1, <1>3
  <2>2. ASSUME t[k][1] = "completed"
        PROVE  \E j \in 1..(i - 1) : (s \o t)[j] = <<"started", t[k][2]>>
    <3>1. PICK j \in 1..Len(s) : s[j] = <<"started", t[k][2]>>
      BY <2>1, <2>2 DEF In
    <3>2. j \in 1..(i - 1) /\ (s \o t)[j] = s[j]
      BY <1>1, <1>3
    <3> QED
      BY <3>1, <3>2
  <2>3. ASSUME t[k][1] \in {"started", "completed"}, NEW j \in 1..(i - 1)
        PROVE  (s \o t)[j] # t[k]
    <3>1. CASE j <= Len(s)
      <4>1. j \in 1..Len(s) /\ (s \o t)[j] = s[j]
        BY <1>1, <3>1
      <4> QED
        BY <2>1, <2>3, <4>1 DEF In
    <3>2. CASE ~(j <= Len(s))
      <4>1. j - Len(s) \in 1..(k - 1) /\ (s \o t)[j] = t[j - Len(s)]
        BY <1>1, <3>2
      <4> QED
        BY <2>1, <2>3, <4>1
    <3> QED
      BY <3>1, <3>2
  <2> QED
    BY <2>1, <2>2, <2>3
<1> QED
  BY <1>2, <1>3

\* Sending an event changes nothing about what is reported; any other step reports the
\* events it has the run send.
LEMMA LogGrows ==
  ASSUME RunTypeOK, RunTypeOK'
  PROVE  /\ log \in Seq(ProgressEvent) /\ log' \in Seq(ProgressEvent)
         /\ SendEvent => log' = log
         /\ todo = <<>> /\ sent' = sent => log' = log \o todo'
<1>1. /\ todo \in Seq(ProgressEvent) /\ sent \in Seq(ProgressEvent)
      /\ todo' \in Seq(ProgressEvent) /\ sent' \in Seq(ProgressEvent)
  BY DEF RunTypeOK
<1>2. log \in Seq(ProgressEvent) /\ log' \in Seq(ProgressEvent)
  BY <1>1, ConcatProperties DEF log
<1>3. ASSUME SendEvent PROVE log' = log
  <2>1. todo # <<>> /\ sent' = Append(sent, Head(todo)) /\ todo' = Tail(todo)
    BY <1>3 DEF SendEvent
  <2>2. Append(sent, Head(todo)) \o Tail(todo) = sent \o todo
    BY <1>1, <2>1, MoveHead
  <2> QED
    BY <2>1, <2>2 DEF log
<1>4. todo = <<>> /\ sent' = sent => log' = log \o todo'
  BY <1>1, ConcatEmptySeq DEF log
<1> QED
  BY <1>2, <1>3, <1>4
\* Events that follow the rules keep them, and are all that is new.
LEMMA ReportGrows ==
  ASSUME RunTypeOK, RunTypeOK', ReportInv, todo = <<>>, sent' = sent, iteration' = iteration,
         \A i \in 1..Len(todo') :
           /\ todo'[i][1] = "completed" => In(<<"started", todo'[i][2]>>, log)
           /\ todo'[i][1] \in {"started", "completed"} =>
                /\ todo'[i][2][1] = iteration /\ ~In(todo'[i], log)
                /\ \A j \in 1..(i - 1) : todo'[j] # todo'[i]
  PROVE  /\ PairedUp(log')
         /\ \A i \in 1..Len(log') :
              log'[i][1] \in {"started", "completed"} => log'[i][2][1] <= iteration'
         /\ \A ev : In(ev, log') <=> In(ev, log) \/ In(ev, todo')
<1> DEFINE new == todo'
<1>1. /\ log \in Seq(ProgressEvent) /\ new \in Seq(ProgressEvent) /\ log' = log \o new
      /\ iteration \in Nat
  BY LogGrows, OrchestratorAssumption DEF RunTypeOK
<1> HIDE DEF new
<1>2. PairedUp(log \o new)
  <2>1. \A i \in 1..Len(new) :
          /\ new[i][1] = "completed" => In(<<"started", new[i][2]>>, log)
          /\ new[i][1] \in {"started", "completed"} =>
               ~In(new[i], log) /\ \A j \in 1..(i - 1) : new[j] # new[i]
    BY DEF new
  <2> QED
    BY <1>1, <2>1, PairsGrow DEF ReportInv
<1>3. \A ev : In(ev, log') <=> In(ev, log) \/ In(ev, new)
  BY <1>1, InGrown
<1>4. ASSUME NEW i \in 1..Len(log'), log'[i][1] \in {"started", "completed"}
      PROVE  log'[i][2][1] <= iteration'
  <2>1. In(log'[i], log')
    BY DEF In
  <2>2. CASE In(log'[i], log)
    BY <1>4, <2>2 DEF ReportInv, In
  <2>3. CASE In(log'[i], new)
    <3>1. PICK j \in 1..Len(new) : new[j] = log'[i]
      BY <2>3 DEF In
    <3>2. new[j][2][1] = iteration
      BY <1>4, <3>1 DEF new
    <3> QED
      BY <1>1, <3>1, <3>2
  <2> QED
    BY <1>3, <2>1, <2>2, <2>3
<1> QED
  BY <1>1, <1>2, <1>3, <1>4 DEF new

\* Nothing new about the calls of the round.
LEMMA ReportStays ==
  ASSUME RunTypeOK, RunTypeOK', ReportInv, todo = <<>>, sent' = sent, iteration' = iteration,
         \A i \in 1..Len(todo') : todo'[i][1] \notin {"started", "completed"}
  PROVE  /\ PairedUp(log')
         /\ \A i \in 1..Len(log') :
              log'[i][1] \in {"started", "completed"} => log'[i][2][1] <= iteration'
         /\ \A ev : In(ev, log) => In(ev, log')
         /\ \A k \in 1..MaxCalls : In(Started(k), log)' <=> In(Started(k), log)
         /\ \A k \in 1..MaxCalls : In(Completed(k), log)' <=> In(Completed(k), log)
<1>1. /\ PairedUp(log')
      /\ \A i \in 1..Len(log') :
           log'[i][1] \in {"started", "completed"} => log'[i][2][1] <= iteration'
      /\ \A ev : In(ev, log') <=> In(ev, log) \/ In(ev, todo')
  BY ReportGrows
<1>2. \A k : ~In(<<"started", <<iteration, k>>>>, todo') /\ ~In(<<"completed", <<iteration, k>>>>, todo')
  BY DEF In
<1> QED
  BY <1>1, <1>2 DEF Started, Completed

\* The steps of a round that announce no call and end none.
LEMMA QuietSteps ==
  ASSUME ReportsInv, RunTypeOK',
         OpenStream \/ OpenFails \/ Delta \/ RoundFails \/ RoundEnds \/ TooManyIterations \/ Return
  PROVE  ReportsInv'
<1>1. /\ todo = <<>> /\ sent' = sent /\ iteration' = iteration /\ proposed' = proposed
      /\ \A i \in 1..Len(todo') : todo'[i][1] \notin {"started", "completed"}
  BY DEF OpenStream, OpenFails, Delta, RoundFails, RoundEnds, TooManyIterations, Return, Go, Done, Error
<1>2. /\ PairedUp(log')
      /\ \A i \in 1..Len(log') :
           log'[i][1] \in {"started", "completed"} => log'[i][2][1] <= iteration'
      /\ \A ev : In(ev, log) => In(ev, log')
      /\ \A k \in 1..MaxCalls : In(Started(k), log)' <=> In(Started(k), log)
      /\ \A k \in 1..MaxCalls : In(Completed(k), log)' <=> In(Completed(k), log)
  BY <1>1, ReportStays DEF ReportsInv
<1>3. /\ pc' \notin {"llm", "dispatching", "tools"}
      /\ pc' = "draining" => OnlyAnnounced(1..announced)'
  <2>1. pc' \notin {"llm", "dispatching", "tools"}
    BY DEF OpenStream, OpenFails, Delta, RoundFails, RoundEnds, TooManyIterations, Return, Go
  <2>2. CASE OpenStream
    <3>1. announced' = 0 /\ OnlyAnnounced({})
      BY <2>2 DEF OpenStream, Go, ReportsInv, ReportInv
    <3>2. 1..announced' = {}
      BY <3>1
    <3> QED
      BY <1>2, <2>1, <3>1, <3>2 DEF OnlyAnnounced
  <2>3. CASE Delta
    <3>1. announced' = announced /\ OnlyAnnounced(1..announced)
      BY <2>3 DEF Delta, Go, ReportsInv, ReportInv
    <3> QED
      BY <1>2, <2>1, <3>1 DEF OnlyAnnounced
  <2>4. CASE OpenFails \/ RoundFails \/ RoundEnds \/ TooManyIterations \/ Return
    BY <2>1, <2>4 DEF OpenFails, RoundFails, RoundEnds, TooManyIterations, Return, Go
  <2> QED
    BY <2>1, <2>2, <2>3, <2>4
<1>4. ProposalInv'
  <2>1. CASE pc = "ending"
    <3>1. pc' = "returned_ok" /\ todo' = <<>> /\ calls' = calls
      BY <2>1 DEF OpenStream, OpenFails, Delta, RoundFails, RoundEnds, TooManyIterations, Return, Go, turn
    <3> QED
      BY <1>1, <1>2, <2>1, <3>1 DEF ReportsInv, ProposalInv
  <2>2. CASE pc # "ending"
    BY <1>1, <2>2 DEF OpenStream, OpenFails, Delta, RoundFails, RoundEnds, TooManyIterations,
       Return, Go, ReportsInv, ProposalInv
  <2> QED
    BY <2>1, <2>2
<1> QED
  BY <1>2, <1>3, <1>4 DEF ReportsInv, ReportInv

\* A call announced at block-open.
LEMMA BlockOpens ==
  ASSUME ReportsInv, RunTypeOK', ToolUseStart
  PROVE  ReportsInv'
<1> DEFINE n == announced + 1
<1>1. /\ todo = <<>> /\ sent' = sent /\ iteration' = iteration /\ pc = "draining" /\ pc' = "draining"
      /\ todo' = <<Started(n)>> /\ announced' = n /\ announced \in Nat /\ n \in 1..MaxCalls
      /\ calls' = calls /\ proposed' = proposed
  BY OrchestratorAssumption DEF ToolUseStart, Go, ReportsInv, RunTypeOK
<1>2. OnlyAnnounced(1..announced) /\ ~In(Started(n), log)
  BY <1>1 DEF ReportsInv, ReportInv, OnlyAnnounced
<1> HIDE DEF n
<1>3. \A i \in 1..Len(todo') :
        /\ todo'[i] = Started(n) /\ todo'[i][1] = "started" /\ todo'[i][2][1] = iteration
        /\ \A j \in 1..(i - 1) : todo'[j] # todo'[i]
  BY <1>1 DEF Started
<1>4. /\ PairedUp(log')
      /\ \A i \in 1..Len(log') :
           log'[i][1] \in {"started", "completed"} => log'[i][2][1] <= iteration'
      /\ \A ev : In(ev, log') <=> In(ev, log) \/ In(ev, todo')
  BY <1>1, <1>2, <1>3, ReportGrows DEF ReportsInv
<1>5. \A ev : In(ev, todo') <=> ev = Started(n)
  BY <1>1 DEF In
<1>6. OnlyAnnounced(1..announced)'
  <2> SUFFICES ASSUME NEW k \in 1..MaxCalls
               PROVE  /\ In(Started(k)', log') <=> k \in 1..announced'
                      /\ ~In(Completed(k)', log')
    BY DEF OnlyAnnounced
  <2>1. Started(k)' = Started(k) /\ Completed(k)' = Completed(k)
    BY <1>1 DEF Started, Completed
  <2>2. (Started(k) = Started(n) <=> k = n) /\ Completed(k) # Started(n)
    BY DEF Started, Completed
  <2>3. k \in 1..announced' <=> k \in 1..announced \/ k = n
    BY <1>1 DEF n
  <2> QED
    BY <1>2, <1>4, <1>5, <2>1, <2>2, <2>3 DEF OnlyAnnounced
<1> QED
  BY <1>1, <1>4, <1>6 DEF ReportsInv, ReportInv, ProposalInv

\* Calls announced when the answer is whole.
LEMMA FallbackAnnounces ==
  ASSUME ReportsInv, RunTypeOK', NEW n \in 1..MaxCalls, ToolUse(n)
  PROVE  ReportsInv'
<1>1. /\ todo = <<>> /\ sent' = sent /\ iteration' = iteration /\ pc = "draining" /\ pc' = "dispatching"
      /\ todo' = [i \in 1..(n - announced) |-> Started(announced + i)]
      /\ calls' = n /\ proposed' = proposed /\ announced \in {0, n} /\ n \in Nat
  BY OrchestratorAssumption DEF ToolUse, Go, ReportsInv, RunTypeOK
<1>2. OnlyAnnounced(1..announced) /\ n - announced \in Nat /\ announced \in Nat
  BY <1>1 DEF ReportsInv, ReportInv
<1>3. \A i \in 1..Len(todo') :
        /\ i \in 1..(n - announced) /\ todo'[i] = Started(announced + i)
        /\ announced + i \in 1..MaxCalls /\ announced + i \notin 1..announced
  BY <1>1, <1>2, OrchestratorAssumption
<1>4. \A i, j : Started(i) = Started(j) <=> i = j
  BY DEF Started
<1>5. \A i \in 1..Len(todo') :
        /\ todo'[i][1] = "started" /\ todo'[i][2][1] = iteration
        /\ ~In(todo'[i], log)
        /\ \A j \in 1..(i - 1) : todo'[j] # todo'[i]
  <2> SUFFICES ASSUME NEW i \in 1..Len(todo')
               PROVE  /\ todo'[i][1] = "started" /\ todo'[i][2][1] = iteration
                      /\ ~In(todo'[i], log)
                      /\ \A j \in 1..(i - 1) : todo'[j] # todo'[i]
    OBVIOUS
  <2>1. ~In(todo'[i], log)
    BY <1>2, <1>3 DEF OnlyAnnounced
  <2>2. ASSUME NEW j \in 1..(i - 1) PROVE todo'[j] # todo'[i]
    <3>1. j \in 1..Len(todo') /\ announced + j # announced + i
      BY <1>1, <1>2
    <3> QED
      BY <1>3, <1>4, <3>1
  <2> QED
    BY <1>3, <2>1, <2>2 DEF Started
<1>6. /\ PairedUp(log')
      /\ \A i \in 1..Len(log') :
           log'[i][1] \in {"started", "completed"} => log'[i][2][1] <= iteration'
      /\ \A ev : In(ev, log') <=> In(ev, log) \/ In(ev, todo')
  BY <1>1, <1>5, ReportGrows DEF ReportsInv
<1>7. OnlyAnnounced(1..calls)'
  <2> SUFFICES ASSUME NEW k \in 1..MaxCalls
               PROVE  /\ In(Started(k)', log') <=> k \in 1..calls'
                      /\ ~In(Completed(k)', log')
    BY DEF OnlyAnnounced
  <2>1. Started(k)' = Started(k) /\ Completed(k)' = Completed(k)
    BY <1>1 DEF Started, Completed
  <2>2. ~In(Completed(k), todo')
    BY <1>5 DEF In, Completed
  <2>3. In(Started(k), todo') <=> k \in 1..n /\ k \notin 1..announced
    <3>1. ASSUME In(Started(k), todo') PROVE k \in 1..n /\ k \notin 1..announced
      BY <1>1, <1>2, <1>3, <1>4, <3>1 DEF In
    <3>2. ASSUME k \in 1..n, k \notin 1..announced PROVE In(Started(k), todo')
      <4>1. k - announced \in 1..Len(todo') /\ announced + (k - announced) = k
        BY <1>1, <1>2, <3>2
      <4> QED
        BY <1>3, <4>1 DEF In
    <3> QED
      BY <3>1, <3>2
  <2>4. k \in 1..calls' <=> k \in 1..announced \/ (k \in 1..n /\ k \notin 1..announced)
    BY <1>1, <1>2
  <2> QED
    BY <1>2, <1>6, <2>1, <2>2, <2>3, <2>4 DEF OnlyAnnounced
<1>8. ProposalInv'
  BY <1>1 DEF ReportsInv, ProposalInv
<1> QED
  BY <1>1, <1>6, <1>7, <1>8 DEF ReportsInv, ReportInv

\* The calls are made, and the writes among them parked.
LEMMA CallsAreMade ==
  ASSUME ReportsInv, RunTypeOK', NEW refused \in SUBSET (1..MaxCalls), Dispatch(refused)
  PROVE  ReportsInv'
<1>1. /\ todo = <<>> /\ todo' = <<>> /\ sent' = sent /\ iteration' = iteration /\ calls' = calls
      /\ pc = "dispatching" /\ pc' \in {"tools", "returned_err"} /\ proposed = {}
      /\ proposed' \subseteq {iteration} \X (1..calls)
  BY DEF Dispatch, Go, turn, ReportsInv, ProposalInv
<1>2. /\ PairedUp(log')
      /\ \A i \in 1..Len(log') :
           log'[i][1] \in {"started", "completed"} => log'[i][2][1] <= iteration'
      /\ \A k \in 1..MaxCalls : In(Started(k), log)' <=> In(Started(k), log)
      /\ \A k \in 1..MaxCalls : In(Completed(k), log)' <=> In(Completed(k), log)
  BY <1>1, ReportStays DEF ReportsInv
<1>3. OnlyAnnounced(1..calls)'
  BY <1>1, <1>2 DEF OnlyAnnounced, ReportsInv, ReportInv
<1>4. ProposalInv'
  BY <1>1 DEF ProposalInv
<1> QED
  BY <1>1, <1>2, <1>3, <1>4 DEF ReportsInv, ReportInv

\* Their results are reported, and if one is a parked write the turn is over.
LEMMA ResultsAreReported ==
  ASSUME ReportsInv, RunTypeOK', ToolsReturned
  PROVE  ReportsInv'
<1> DEFINE results == [i \in 1..calls |-> Completed(i)]
           Told(events) == /\ \A i \in 1..calls : i \in 1..Len(events) /\ events[i] = Completed(i)
                           /\ \A i \in 1..Len(events) :
                                i \in 1..calls \/ events[i][1] \notin {"started", "completed"}
<1>1. /\ todo = <<>> /\ sent' = sent /\ iteration' = iteration /\ calls' = calls
      /\ proposed' = proposed /\ pc = "tools" /\ calls \in Nat /\ 1..calls \subseteq 1..MaxCalls
      /\ OnlyAnnounced(1..calls)
  <2>1. /\ todo = <<>> /\ sent' = sent /\ iteration' = iteration /\ calls' = calls
        /\ proposed' = proposed /\ pc = "tools"
    BY DEF ToolsReturned, Go, turn
  <2>2. calls \in Nat /\ 1..calls \subseteq 1..MaxCalls
    BY OrchestratorAssumption DEF ReportsInv, RunTypeOK
  <2> QED
    BY <2>1, <2>2 DEF ReportsInv, ReportInv
<1>2. \/ PendingCalls = {} /\ todo' = results /\ pc' = "reporting"
      \/ \E first \in PendingCalls : todo' = results \o <<Pending(first), Done>> /\ pc' = "ending"
  BY DEF ToolsReturned, Go
<1>3. Told(todo')
  <2>1. Len(results) = calls
    BY <1>1
  <2>2. CASE todo' = results
    BY <2>1, <2>2
  <2>3. ASSUME NEW first \in PendingCalls, todo' = results \o <<Pending(first), Done>>
        PROVE  Told(todo')
    <3>1. Len(todo') = calls + 2 /\ \A i \in 1..(calls + 2) :
            todo'[i] = IF i <= calls THEN Completed(i) ELSE <<Pending(first), Done>>[i - calls]
      BY <1>1, <2>1, <2>3
    <3>2. \A i \in 1..(calls + 2) : i \notin 1..calls => todo'[i] \in {Pending(first), Done}
      BY <1>1, <3>1
    <3> QED
      BY <1>1, <3>1, <3>2 DEF Pending, Done
  <2> QED
    BY <1>2, <2>2, <2>3
<1>4. \A i \in 1..Len(todo') :
        /\ todo'[i][1] = "completed" => In(<<"started", todo'[i][2]>>, log)
        /\ todo'[i][1] \in {"started", "completed"} =>
             /\ todo'[i][2][1] = iteration /\ ~In(todo'[i], log)
             /\ \A j \in 1..(i - 1) : todo'[j] # todo'[i]
  <2> SUFFICES ASSUME NEW i \in 1..Len(todo'), i \in 1..calls
               PROVE  /\ In(<<"started", todo'[i][2]>>, log)
                      /\ todo'[i][2][1] = iteration /\ ~In(todo'[i], log)
                      /\ \A j \in 1..(i - 1) : todo'[j] # todo'[i]
    BY <1>3
  <2>1. todo'[i] = Completed(i) /\ i \in 1..MaxCalls
    BY <1>1, <1>3
  <2>2. In(Started(i), log) /\ ~In(Completed(i), log)
    BY <1>1, <2>1 DEF OnlyAnnounced
  <2>3. \A j \in 1..(i - 1) : todo'[j] = Completed(j) /\ j # i
    BY <1>1, <1>3
  <2> QED
    BY <2>1, <2>2, <2>3 DEF Started, Completed
<1>5. /\ PairedUp(log')
      /\ \A i \in 1..Len(log') :
           log'[i][1] \in {"started", "completed"} => log'[i][2][1] <= iteration'
      /\ \A ev : In(ev, log') <=> In(ev, log) \/ In(ev, todo')
  BY <1>1, <1>4, ReportGrows DEF ReportsInv
<1>6. proposed \subseteq {iteration} \X (1..calls)
  BY DEF ReportsInv, ProposalInv
<1>7. CASE pc' = "reporting"
  <2>1. proposed = {}
    BY <1>2, <1>6, <1>7 DEF PendingCalls
  <2> QED
    BY <1>1, <1>5, <1>7, <2>1 DEF ReportsInv, ReportInv, ProposalInv
<1>8. CASE pc' = "ending"
  <2>1. PICK first \in PendingCalls : todo' = results \o <<Pending(first), Done>>
    BY <1>2, <1>8
  <2>2. <<iteration, first>> \in proposed /\ first \in 1..calls
    BY DEF PendingCalls
  <2>3. In(Pending(first), todo')
    <3>1. calls + 1 \in 1..Len(todo') /\ todo'[calls + 1] = Pending(first)
      BY <1>1, <2>1
    <3> QED
      BY <3>1 DEF In
  <2>4. In(<<"pending", <<iteration, first>>>>, log')
    BY <1>5, <2>3 DEF Pending
  <2>5. \A c \in proposed : In(<<"completed", c>>, log')
    <3> SUFFICES ASSUME NEW c \in proposed PROVE In(<<"completed", c>>, log')
      OBVIOUS
    <3>1. PICK i \in 1..calls : c = <<iteration, i>>
      BY <1>6
    <3>2. In(Completed(i), todo')
      BY <1>3 DEF In
    <3> QED
      BY <1>5, <3>1, <3>2 DEF Completed
  <2>6. ProposalInv'
    BY <1>1, <1>6, <1>8, <2>2, <2>4, <2>5 DEF ProposalInv
  <2> QED
    BY <1>1, <1>5, <1>8, <2>6 DEF ReportsInv, ReportInv
<1> QED
  BY <1>2, <1>7, <1>8

\* The next round has reported nothing yet.
LEMMA RoundBegins ==
  ASSUME ReportsInv, RunTypeOK', NextIteration
  PROVE  ReportsInv'
<1>1. /\ log' = log /\ iteration' = iteration + 1 /\ iteration \in Nat
      /\ pc' = "llm" /\ proposed' = {} /\ todo' = <<>>
  BY OrchestratorAssumption DEF NextIteration, log, ReportsInv, ProposalInv, RunTypeOK
<1>2. \A i \in 1..Len(log) :
        log[i][1] \in {"started", "completed"} => log[i][2][1] <= iteration
  BY DEF ReportsInv, ReportInv
<1>3. \A i \in 1..Len(log) :
        log[i][1] \in {"started", "completed"} =>
          log[i][2][1] <= iteration + 1 /\ log[i][2][1] # iteration + 1
  <2> SUFFICES ASSUME NEW i \in 1..Len(log), log[i][1] \in {"started", "completed"}
               PROVE  log[i][2][1] <= iteration + 1 /\ log[i][2][1] # iteration + 1
    OBVIOUS
  <2>1. log \in Seq(ProgressEvent)
    BY LogGrows DEF ReportsInv
  <2>2. log[i][2] \in Calls
    BY <2>1 DEF ProgressEvent
  <2>3. log[i][2][1] \in Nat
    BY <2>2, OrchestratorAssumption DEF Calls
  <2> QED
    BY <1>1, <1>2, <2>3
<1>4. OnlyAnnounced({})'
  BY <1>1, <1>3 DEF OnlyAnnounced, In, Started, Completed
<1> QED
  BY <1>1, <1>3, <1>4 DEF ReportsInv, ReportInv, ProposalInv

\* No step of a run disturbs what it reports.
LEMMA RunKeepsReports ==
  ASSUME ReportsInv, RunStep
  PROVE  ReportsInv'
<1>t. RunTypeOK'
  BY RunKeepsTypes DEF ReportsInv
<1>1. CASE SendEvent
  <2>1. log' = log /\ UNCHANGED <<pc, iteration, announced, calls, proposed>> /\ pc \in Running
    BY <1>t, <1>1, LogGrows DEF ReportsInv, SendEvent, turn
  <2>2. ReportInv'
    BY <2>1 DEF ReportsInv, ReportInv, OnlyAnnounced, Started, Completed
  <2>3. ProposalInv'
    BY <2>1 DEF ReportsInv, ProposalInv, Running
  <2> QED
    BY <1>t, <2>2, <2>3 DEF ReportsInv
<1>2. CASE OpenStream \/ OpenFails \/ Delta \/ RoundFails \/ RoundEnds \/ TooManyIterations \/ Return
  BY <1>t, <1>2, QuietSteps
<1>3. CASE ToolUseStart
  BY <1>t, <1>3, BlockOpens
<1>4. CASE \E n \in 1..MaxCalls : ToolUse(n)
  BY <1>t, <1>4, FallbackAnnounces
<1>5. CASE \E refused \in SUBSET (1..MaxCalls) : Dispatch(refused)
  BY <1>t, <1>5, CallsAreMade
<1>6. CASE ToolsReturned
  BY <1>t, <1>6, ResultsAreReported
<1>7. CASE NextIteration
  BY <1>t, <1>7, RoundBegins
<1> QED
  BY <1>1, <1>2, <1>3, <1>4, <1>5, <1>6, <1>7 DEF RunStep, OutsideStep, OwnStep

\* Nor does anything around it, which can at most abort the run.
LEMMA OthersKeepReports ==
  ASSUME ReportsInv, RunTypeOK',
         UNCHANGED <<iteration, turn, todo, proposed, sent>>, pc' \in {pc, "aborted"}
  PROVE  ReportsInv'
<1>1. UNCHANGED <<iteration, announced, calls, todo, proposed, log>>
  BY DEF turn, log
<1>2. ReportInv'
  BY <1>1 DEF ReportsInv, ReportInv, OnlyAnnounced, Started, Completed
<1>3. ProposalInv'
  BY <1>1 DEF ReportsInv, ProposalInv
<1> QED
  BY <1>2, <1>3 DEF ReportsInv

\* What the streaming run has reported of its calls fits the stage it is at, and
\* proposals are only made in its last round.
THEOREM ReportsInvariance == Spec => []ReportsInv
<1>1. StreamInv /\ StreamInv' /\ ReportsInv /\ [Next]_vars => ReportsInv'
  <2> SUFFICES ASSUME StreamInv', ReportsInv, [Next]_vars
               PROVE  ReportsInv'
    OBVIOUS
  <2>t. RunTypeOK'
    BY DEF StreamInv, StreamTypes
  <2>1. CASE OrchestratorStep(RunStep)
    BY <2>1, RunKeepsReports DEF OrchestratorStep
  <2>2. CASE ~OrchestratorStep(RunStep)
    <3>1. UNCHANGED <<iteration, turn, todo, proposed, sent>> /\ pc' \in {pc, "aborted"}
      BY <2>2 DEF Next, ForwarderStep, Cut, Recv, RecvNone, Forward, Join, PublishCompleted, Remember,
         Read, Leave, Elapse, Shutdown, vars, run_vars
    <3> QED
      BY <2>t, <3>1, OthersKeepReports
  <2> QED
    BY <2>1, <2>2
<1> QED
  BY <1>1, ReportsInitInv, StreamInvariance, PTL DEF Spec

\* The events sent are the first of those reported.
LEMMA SentComesFirst ==
  ASSUME RunTypeOK
  PROVE  /\ Len(sent) \in Nat /\ Len(sent) <= Len(log)
         /\ \A i \in 1..Len(sent) : i \in 1..Len(log) /\ log[i] = sent[i]
<1>1. todo \in Seq(ProgressEvent) /\ sent \in Seq(ProgressEvent)
  BY DEF RunTypeOK
<1> QED
  BY <1>1, ConcatProperties, LenProperties DEF log

\* The client can pair them: in a turn of any length each call is announced once,
\* before its result, and has one result at most.
THEOREM EachCallIsPaired == Spec => []CallsPairUp
<1>1. ReportsInv => CallsPairUp
  <2> SUFFICES ASSUME ReportsInv, NEW i \in 1..Len(sent)
               PROVE  /\ sent[i][1] = "completed" =>
                           \E j \in 1..(i - 1) : sent[j] = <<"started", sent[i][2]>>
                      /\ sent[i][1] \in {"started", "completed"} =>
                           \A j \in 1..(i - 1) : sent[j] # sent[i]
    BY DEF CallsPairUp
  <2>1. /\ i \in 1..Len(log) /\ log[i] = sent[i]
        /\ \A j \in 1..(i - 1) : log[j] = sent[j]
    BY SentComesFirst DEF ReportsInv
  <2> QED
    BY <2>1 DEF ReportsInv, ReportInv, PairedUp
<1> QED
  BY <1>1, ReportsInvariance, PTL

\* A proposal ends the turn, whatever round it comes in.
THEOREM ProposalEndsTheTurn == Spec => []ProposalsEndTheTurn
<1>1. ReportsInv => ProposalsEndTheTurn
  <2> SUFFICES ASSUME ReportsInv PROVE ProposalsEndTheTurn
    OBVIOUS
  <2>1. \A c \in proposed : c[1] = iteration
    BY DEF ReportsInv, ProposalInv
  <2>2. ASSUME pc = "returned_ok", NEW ev, In(ev, log)
        PROVE  Contains(sent, ev)
    <3>1. todo = <<>> /\ sent \in Seq(ProgressEvent)
      BY <2>2 DEF ReportsInv, ProposalInv, RunTypeOK
    <3>2. log = sent
      BY <3>1, ConcatEmptySeq DEF log
    <3> QED
      BY <2>2, <3>2 DEF In, Contains
  <2>3. pc = "returned_ok" =>
          /\ \A c \in proposed : Contains(sent, <<"completed", c>>)
          /\ proposed # {} => \E c \in proposed : Contains(sent, <<"pending", c>>)
    BY <2>2 DEF ReportsInv, ProposalInv
  <2> QED
    BY <2>1, <2>3 DEF ProposalsEndTheTurn
<1> QED
  BY <1>1, ReportsInvariance, PTL

-----------------------------------------------------------------------------
(* The record of the turn                                                  *)

\* The events that have left the channel are the first of those sent.
taken == Len(sent) - Len(orch_chan)

\* What was taken is in the record; and a forwarder that can still call the turn a
\* success has taken all there was of a run that returned Ok.
RecordInv ==
  /\ Len(orch_chan) <= Len(sent)
  /\ \A i \in 1..Len(orch_chan) : orch_chan[i] = sent[taken + i]
  /\ Recorded(sent, taken)
  /\ done_seen <=> \E i \in 1..taken : sent[i] = Done
  /\ cut # "no" => ~succeeded
  /\ pc = "aborted" \/ fwd = "cutting" => cut # "no"
  /\ fwd = "joining" => orch_chan = <<>> /\ pc \in Finished /\ cut = "no"
  /\ fwd \in Over /\ succeeded => orch_chan = <<>> /\ pc = "returned_ok"
  /\ fwd = "remembering" => succeeded

\* A run that ends well has told so, or is bound to.
EndInv == pc \in {"ending", "returned_ok"} => In(Done, log)

\* Counting results from one event to the next.
LEMMA OneMoreEvent ==
  ASSUME NEW events, NEW n \in Nat
  PROVE  /\ ResultsAmong(events, 0) = 0
         /\ ResultsAmong(events, n) \in Nat
         /\ ResultsAmong(events, n + 1) =
              ResultsAmong(events, n) + (IF events[n + 1][1] = "completed" THEN 1 ELSE 0)
         /\ \A i \in 1..n : events[i][1] = "completed" =>
              ResultsAmong(events, i) \in 1..ResultsAmong(events, n)
<1> DEFINE At(k) == {j \in 1..k : events[j][1] = "completed"}
<1>1. \A k \in Nat : IsFiniteSet(At(k)) /\ Cardinality(At(k)) \in Nat
  <2> SUFFICES ASSUME NEW k \in Nat PROVE IsFiniteSet(At(k)) /\ Cardinality(At(k)) \in Nat
    OBVIOUS
  <2>1. IsFiniteSet(1..k) /\ At(k) \in SUBSET (1..k)
    BY FS_Interval
  <2> QED
    BY <2>1, FS_Subset, FS_CardinalityType
<1>2. At(0) = {}
  OBVIOUS
<1>3. n + 1 \notin At(n)
  OBVIOUS
<1>4. At(n + 1) = IF events[n + 1][1] = "completed" THEN At(n) \cup {n + 1} ELSE At(n)
  OBVIOUS
<1>5. Cardinality(At(n) \cup {n + 1}) = Cardinality(At(n)) + 1
  BY <1>1, <1>3, FS_AddElement
<1>6. ASSUME NEW i \in 1..n, events[i][1] = "completed"
      PROVE  Cardinality(At(i)) \in 1..Cardinality(At(n))
  <2>1. At(i) \in SUBSET At(n) /\ i \in At(i) /\ i \in Nat
    BY <1>6
  <2>2. Cardinality(At(i)) <= Cardinality(At(n)) /\ Cardinality(At(i)) # 0
    BY <1>1, <2>1, FS_Subset, FS_EmptySet
  <2> QED
    <3>1. Cardinality(At(i)) \in Nat /\ Cardinality(At(n)) \in Nat
      BY <1>1, <2>1
    <3> HIDE DEF At
    <3> QED
      BY <2>2, <3>1
<1>7. \A k : ResultsAmong(events, k) = Cardinality(At(k))
  BY DEF ResultsAmong
<1> HIDE DEF At
<1> QED
  BY <1>1, <1>2, <1>4, <1>5, <1>6, <1>7, FS_EmptySet

\* An event more at the end changes nothing before it.
LEMMA RecordedOfLonger ==
  ASSUME NEW S, NEW s \in Seq(S), NEW e \in S, NEW n \in 0..Len(s)
  PROVE  Recorded(Append(s, e), n) <=> Recorded(s, n)
<1>1. Len(s) \in Nat /\ \A i \in 1..Len(s) : Append(s, e)[i] = s[i]
  BY AppendProperties, LenProperties
<1>2. \A i \in 0..n :
        {j \in 1..i : Append(s, e)[j][1] = "completed"} = {j \in 1..i : s[j][1] = "completed"}
  BY <1>1
<1>3. \A i \in 0..n : ResultsAmong(Append(s, e), i) = ResultsAmong(s, i)
  BY <1>2 DEF ResultsAmong
<1>4. n \in 0..n /\ \A i \in 1..n : i \in 0..n /\ Append(s, e)[i] = s[i]
  BY <1>1
<1> QED
  BY <1>3, <1>4 DEF Recorded

\* An event that is noted is recorded.
LEMMA RecordedOfNext ==
  ASSUME NEW S, NEW s \in Seq(S), NEW n \in 0..(Len(s) - 1), trace \in Seq(Calls), Recorded(s, n),
         s[n + 1][1] = "completed" => s[n + 1][2] \in Calls,
         trace' = IF s[n + 1][1] = "completed" THEN Append(trace, s[n + 1][2]) ELSE trace
  PROVE  /\ Len(trace') = ResultsAmong(s, n + 1)
         /\ \A i \in 1..(n + 1) : s[i][1] = "completed" => trace'[ResultsAmong(s, i)] = s[i][2]
<1>1. n \in Nat /\ n + 1 \in Nat
  BY LenProperties
<1>2. /\ Len(trace) = ResultsAmong(s, n) /\ Len(trace) \in Nat
      /\ ResultsAmong(s, n + 1) = Len(trace) + (IF s[n + 1][1] = "completed" THEN 1 ELSE 0)
      /\ \A i \in 1..n : s[i][1] = "completed" => ResultsAmong(s, i) \in 1..Len(trace)
  BY <1>1, OneMoreEvent DEF Recorded
<1>3. CASE s[n + 1][1] = "completed"
  <2>1. /\ Len(trace') = Len(trace) + 1 /\ trace'[Len(trace) + 1] = s[n + 1][2]
        /\ \A k \in 1..Len(trace) : trace'[k] = trace[k]
    BY <1>3, AppendProperties
  <2>2. ASSUME NEW i \in 1..(n + 1), s[i][1] = "completed"
        PROVE  trace'[ResultsAmong(s, i)] = s[i][2]
    <3>1. CASE i = n + 1
      BY <1>2, <1>3, <2>1, <3>1
    <3>2. CASE i \in 1..n
      BY <1>2, <2>1, <2>2, <3>2 DEF Recorded
    <3> QED
      <4>1. i \in Nat /\ 1 <= i /\ i <= n + 1
        BY <1>1, <2>2
      <4>2. i = n + 1 \/ i \in 1..n
        BY <1>1, <4>1
      <4> QED
        BY <3>1, <3>2, <4>2
  <2> QED
    BY <1>2, <1>3, <2>1, <2>2
<1>4. CASE s[n + 1][1] # "completed"
  <2>1. trace' = trace /\ Len(trace') = ResultsAmong(s, n + 1)
    BY <1>2, <1>4
  <2>2. \A i \in 1..(n + 1) : s[i][1] = "completed" => i \in 1..n
    BY <1>1, <1>4
  <2> QED
    BY <2>1, <2>2 DEF Recorded
<1> QED
  BY <1>3, <1>4

\* Initially nothing has been taken, noted or ended.
LEMMA RecordInitInv == Init => RecordInv /\ EndInv
<1> SUFFICES ASSUME Init PROVE RecordInv /\ EndInv
  OBVIOUS
<1>1. Len(sent) = 0 /\ Len(orch_chan) = 0 /\ Len(trace) = 0 /\ taken = 0
  BY DEF Init, RunInit, taken
<1>2. Recorded(sent, taken)
  BY <1>1, OneMoreEvent DEF Recorded
<1> QED
  BY <1>1, <1>2 DEF Init, RunInit, RecordInv, EndInv, Over

\* What a run sends has not been taken.
LEMMA RunKeepsRecord ==
  ASSUME StreamInv, RecordInv, OrchestratorStep(RunStep)
  PROVE  RecordInv'
<1>1. /\ sent \in Seq(ProgressEvent) /\ orch_chan \in Seq(ProgressEvent)
      /\ Len(sent) \in Nat /\ Len(orch_chan) \in Nat
      /\ taken \in 0..Len(sent) /\ taken + Len(orch_chan) = Len(sent)
  BY LenProperties DEF StreamInv, StreamTypes, RunTypeOK, RecordInv, taken
<1>2. pc \in Running /\ cut = "no" /\ UNCHANGED <<fwd, trace, done_seen, succeeded, cut>>
  BY RunStepSends
     DEF OrchestratorStep, record, StreamInv, ForwardInv, Running, Finished
<1>3. pc' # "aborted"
  BY <1>2 DEF OrchestratorStep, RunStep, OutsideStep, OwnStep, OpenStream, OpenFails, Delta,
     ToolUseStart, RoundFails, RoundEnds, ToolUse, ToolsReturned, Dispatch, NextIteration,
     TooManyIterations, Return, SendEvent, Go, Running
<1>4. /\ taken' = taken /\ Len(orch_chan') <= Len(sent')
      /\ \A i \in 1..Len(orch_chan') : orch_chan'[i] = sent'[taken + i]
      /\ \A i \in 1..taken : sent'[i] = sent[i]
      /\ Recorded(sent, taken)'
  <2>1. CASE UNCHANGED <<orch_chan, sent>>
    BY <1>2, <2>1 DEF RecordInv, taken, Recorded
  <2>2. CASE SendEvent
    <3> DEFINE e == Head(todo)
    <3>1. /\ orch_chan' = Append(orch_chan, e) /\ sent' = Append(sent, e)
          /\ e \in ProgressEvent
      BY <2>2, HeadTailProperties DEF SendEvent, StreamInv, StreamTypes, RunTypeOK
    <3> HIDE DEF e
    <3>2. /\ Len(orch_chan') = Len(orch_chan) + 1 /\ Len(sent') = Len(sent) + 1
          /\ orch_chan'[Len(orch_chan) + 1] = e /\ sent'[Len(sent) + 1] = e
          /\ \A i \in 1..Len(orch_chan) : orch_chan'[i] = orch_chan[i]
          /\ \A i \in 1..Len(sent) : sent'[i] = sent[i]
      BY <1>1, <3>1, AppendProperties
    <3>3. taken' = taken
      BY <1>1, <3>2 DEF taken
    <3>4. ASSUME NEW i \in 1..Len(orch_chan') PROVE orch_chan'[i] = sent'[taken + i]
      <4>1. CASE i = Len(orch_chan) + 1
        BY <1>1, <3>2, <4>1
      <4>2. CASE i \in 1..Len(orch_chan)
        <5>1. taken + i \in 1..Len(sent) /\ orch_chan[i] = sent[taken + i]
          BY <1>1, <4>2 DEF RecordInv
        <5> QED
          BY <3>2, <4>2, <5>1
      <4> QED
        BY <1>1, <3>2, <3>4, <4>1, <4>2
    <3>5. Recorded(sent', taken)
      BY <1>1, <3>1, RecordedOfLonger DEF RecordInv
    <3>6. Recorded(sent, taken)'
      BY <1>2, <3>3, <3>5 DEF Recorded
    <3> QED
      BY <1>1, <3>2, <3>3, <3>4, <3>6
  <2> QED
    BY <2>1, <2>2, RunStepSends DEF OrchestratorStep
<1> QED
  BY <1>2, <1>3, <1>4 DEF RecordInv, Over, Running, Finished

\* The event that is taken is the next of those sent, and is noted.
LEMMA RecvKeepsRecord ==
  ASSUME TypeOK, StreamInv, RecordInv, Recv
  PROVE  RecordInv'
<1> DEFINE e == Head(orch_chan)
<1>1. /\ sent \in Seq(ProgressEvent) /\ orch_chan \in Seq(ProgressEvent) /\ orch_chan # <<>>
      /\ trace \in Seq(Calls)
  BY DEF TypeOK, RunTypeOK, Recv
<1>2. /\ Len(sent) \in Nat /\ Len(orch_chan) \in Nat \ {0}
      /\ taken \in 0..(Len(sent) - 1) /\ taken + Len(orch_chan) = Len(sent)
  BY <1>1, LenProperties, EmptySeq DEF RecordInv, taken
<1>3. /\ e = orch_chan[1] /\ e \in ProgressEvent
      /\ Len(orch_chan') = Len(orch_chan) - 1
      /\ \A i \in 1..Len(orch_chan') : orch_chan'[i] = orch_chan[i + 1]
  BY <1>1, <1>2, HeadTailProperties DEF Recv
<1> HIDE DEF e
<1>4. /\ sent' = sent /\ pc' = pc /\ cut' = cut /\ fwd' = "forwarding" /\ fwd = "selecting"
      /\ trace' = IF e[1] = "completed" THEN Append(trace, e[2]) ELSE trace
      /\ done_seen' = (done_seen \/ e = Done)
      /\ succeeded' = (succeeded /\ e # Error)
  BY DEF Recv, Noted, e
<1>5. e = sent[taken + 1] /\ taken' = taken + 1
  BY <1>1, <1>2, <1>3, <1>4 DEF RecordInv, taken
<1>6. e[1] = "completed" => e[2] \in Calls
  BY <1>3 DEF ProgressEvent
<1>7. Recorded(sent, taken)'
  <2>1. /\ Len(trace') = ResultsAmong(sent, taken + 1)
        /\ \A i \in 1..(taken + 1) :
             sent[i][1] = "completed" => trace'[ResultsAmong(sent, i)] = sent[i][2]
    BY <1>1, <1>2, <1>4, <1>5, <1>6, RecordedOfNext DEF RecordInv
  <2> QED
    BY <1>4, <1>5, <2>1 DEF Recorded
<1>8. \A i \in 1..Len(orch_chan') : orch_chan'[i] = sent'[taken' + i]
  <2> SUFFICES ASSUME NEW i \in 1..Len(orch_chan') PROVE orch_chan'[i] = sent[taken + 1 + i]
    BY <1>4, <1>5
  <2>1. i + 1 \in 1..Len(orch_chan) /\ taken + (i + 1) = taken + 1 + i
    BY <1>2, <1>3
  <2> QED
    BY <1>3, <2>1 DEF RecordInv
<1>9. done_seen' <=> \E i \in 1..(taken + 1) : sent[i] = Done
  <2>1. \A i : i \in 1..(taken + 1) <=> i \in 1..taken \/ i = taken + 1
    BY <1>2
  <2> QED
    BY <1>4, <1>5, <2>1 DEF RecordInv
<1>10. /\ Len(orch_chan') <= Len(sent')
       /\ done_seen' <=> \E i \in 1..taken' : sent'[i] = Done
  BY <1>2, <1>3, <1>4, <1>5, <1>9
<1>11. /\ cut' # "no" => ~succeeded'
       /\ pc' = "aborted" \/ fwd' = "cutting" => cut' # "no"
       /\ fwd' \notin {"joining", "remembering"} \cup Over
  BY <1>4 DEF RecordInv, Over
<1> QED
  BY <1>7, <1>8, <1>10, <1>11 DEF RecordInv, Over

\* Everything else leaves the record and the channel as they are; what the forwarder
\* makes of them is its own.
LEMMA OthersKeepRecord ==
  ASSUME StreamInv, RecordInv, [Next]_vars, ~OrchestratorStep(RunStep), ~Recv
  PROVE  RecordInv'
<1> USE DEF record, signals, response, run_vars
<1>1. UNCHANGED <<orch_chan, sent, trace, done_seen>>
  BY DEF Next, ForwarderStep, Cut, RecvNone, Forward, Join, PublishCompleted, Remember, Read, Leave,
     Elapse, Shutdown, vars
<1>2. /\ Len(orch_chan') <= Len(sent') /\ taken' = taken
      /\ \A i \in 1..Len(orch_chan') : orch_chan'[i] = sent'[taken' + i]
      /\ Recorded(sent, taken)'
      /\ done_seen' <=> \E i \in 1..taken' : sent'[i] = Done
  BY <1>1 DEF RecordInv, Recorded, taken
<1>3. /\ cut' # "no" => ~succeeded'
      /\ pc' = "aborted" \/ fwd' = "cutting" => cut' # "no"
      /\ fwd' = "joining" => orch_chan = <<>> /\ pc' \in Finished /\ cut' = "no"
      /\ fwd' \in Over /\ succeeded' => orch_chan = <<>> /\ pc' = "returned_ok"
      /\ fwd' = "remembering" => succeeded'
  <2>1. CASE Cut
    BY <2>1 DEF Cut, Over
  <2>2. CASE RecvNone
    BY <2>2 DEF RecvNone, RecordInv, StreamInv, ForwardInv, Over
  <2>3. CASE Forward
    BY <2>3 DEF Forward, RecordInv, Over
  <2>4. CASE Join
    BY <2>4 DEF Join, RecordInv, Finished, Over
  <2>5. CASE PublishCompleted \/ Remember
    BY <2>5 DEF PublishCompleted, Remember, RecordInv, Over
  <2>6. CASE Read \/ Leave \/ Elapse \/ Shutdown \/ UNCHANGED vars
    BY <2>6 DEF Read, Leave, Elapse, Shutdown, vars, RecordInv
  <2> QED
    BY <2>1, <2>2, <2>3, <2>4, <2>5, <2>6 DEF Next, ForwarderStep
<1> QED
  BY <1>1, <1>2, <1>3 DEF RecordInv

\* The record is at every moment that of the events taken, and no forwarder joins a
\* run, or calls it a success, with an event of it left.
THEOREM RecordInvariance == Spec => []RecordInv
<1>1. TypeOK /\ StreamInv /\ RecordInv /\ [Next]_vars => RecordInv'
  BY RunKeepsRecord, RecvKeepsRecord, OthersKeepRecord
<1>2. Init => RecordInv
  BY RecordInitInv
<1> QED
  BY <1>1, <1>2, StreamInvariance, StreamTypeCorrect, PTL DEF Spec

\* A run that ends has reported Done, or will before it returns.
LEMMA RunKeepsEnd ==
  ASSUME RunTypeOK, RunTypeOK', EndInv, RunStep
  PROVE  EndInv'
<1>1. CASE pc' \notin {"ending", "returned_ok"}
  BY <1>1 DEF EndInv
<1>2. CASE pc' \in {"ending", "returned_ok"}
  <2>1. CASE SendEvent
    <3>1. log' = log /\ pc' = pc
      BY <2>1, LogGrows DEF SendEvent
    <3> QED
      BY <1>2, <3>1 DEF EndInv
  <2>2. CASE Return
    <3>1. pc = "ending" /\ todo = <<>> /\ todo' = <<>> /\ sent' = sent
      BY <1>2, <2>2 DEF Return, Go
    <3> QED
      BY <3>1 DEF EndInv, log
  <2>3. CASE RoundEnds \/ ToolsReturned
    <3>1. todo = <<>> /\ sent' = sent
      BY <2>3 DEF RoundEnds, ToolsReturned, Go
    <3>2. In(Done, todo')
      <4>1. CASE RoundEnds
        <5>1. \/ Len(todo') = 1 /\ todo'[1] = Done
              \/ Len(todo') = 2 /\ todo'[2] = Done
          BY <4>1 DEF RoundEnds, Go
        <5> QED
          BY <5>1 DEF In
      <4>2. CASE ToolsReturned
        <5>1. PICK first \in PendingCalls :
                todo' = [i \in 1..calls |-> Completed(i)] \o <<Pending(first), Done>>
          BY <1>2, <4>2 DEF ToolsReturned, Go
        <5>2. calls \in Nat
          BY OrchestratorAssumption DEF RunTypeOK
        <5>3. calls + 2 \in 1..Len(todo') /\ todo'[calls + 2] = Done
          BY <5>1, <5>2
        <5> QED
          BY <5>3 DEF In
      <4> QED
        BY <2>3, <4>1, <4>2
    <3>3. log \in Seq(ProgressEvent) /\ todo' \in Seq(ProgressEvent) /\ log' = log \o todo'
      BY <3>1, LogGrows DEF RunTypeOK
    <3> QED
      BY <3>2, <3>3, InGrown DEF EndInv
  <2> QED
    BY <1>2, <2>1, <2>2, <2>3
       DEF RunStep, OutsideStep, OwnStep, OpenStream, OpenFails, Delta, ToolUseStart, RoundFails,
           ToolUse, Dispatch, NextIteration, TooManyIterations, Go
<1> QED
  BY <1>1, <1>2

\* chat_completed tells the truth of a turn of any length: what it calls a success is a
\* run that returned Ok, with its Done seen and every result it reported in the record.
THEOREM TheRecordTellsTheTruth == Spec => []RecordTellsTheTruth
<1>1. StreamInv /\ StreamInv' /\ EndInv /\ [Next]_vars => EndInv'
  <2> SUFFICES ASSUME StreamInv, StreamInv', EndInv, [Next]_vars
               PROVE  EndInv'
    OBVIOUS
  <2>1. RunTypeOK /\ RunTypeOK'
    BY DEF StreamInv, StreamTypes
  <2>2. CASE OrchestratorStep(RunStep)
    BY <2>1, <2>2, RunKeepsEnd DEF OrchestratorStep
  <2>3. CASE ~OrchestratorStep(RunStep)
    <3>1. UNCHANGED <<todo, sent>> /\ pc' \in {pc, "aborted"}
      BY <2>3 DEF Next, ForwarderStep, Cut, Recv, RecvNone, Forward, Join, PublishCompleted, Remember,
         Read, Leave, Elapse, Shutdown, vars, run_vars
    <3> QED
      BY <3>1 DEF EndInv, log
  <2> QED
    BY <2>2, <2>3
<1>2. ReportsInv /\ RecordInv /\ EndInv => RecordTellsTheTruth
  <2> SUFFICES ASSUME ReportsInv, RecordInv, EndInv,
                      fwd \in Over, succeeded \/ fwd = "remembering"
               PROVE  pc = "returned_ok" /\ done_seen /\ succeeded /\ Recorded(sent, Len(sent))
    BY DEF RecordTellsTheTruth
  <2>1. succeeded /\ pc = "returned_ok" /\ orch_chan = <<>>
    BY DEF RecordInv
  <2>2. sent \in Seq(ProgressEvent) /\ todo = <<>> /\ Len(orch_chan) = 0
    BY <2>1 DEF ReportsInv, ProposalInv, RunTypeOK
  <2>3. taken = Len(sent) /\ log = sent
    BY <2>2, LenProperties, ConcatEmptySeq DEF taken, log
  <2>4. \E i \in 1..taken : sent[i] = Done
    BY <2>1, <2>3 DEF EndInv, In
  <2> QED
    BY <2>1, <2>3, <2>4 DEF RecordInv
<1> QED
  BY <1>1, <1>2, RecordInitInv, RecordInvariance, ReportsInvariance, StreamInvariance, PTL DEF Spec
=============================================================================
