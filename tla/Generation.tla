----------------------------- MODULE Generation -----------------------------
(***************************************************************************)
(* One execution on the runtime thread: ModelRuntime::load() and execute() *)
(* (runtime/internal/host/model_runtime.cpp), the split of a translation   *)
(* that is too long, and the generation loop of LocalRuntime.              *)
(*                                                                         *)
(* ModelHost calls this with a sink for deltas and a predicate that says   *)
(* whether to stop; there it is GenerateDelta, GenerateStopped and         *)
(* GenerateReturns.  The language model is a library: any piece of output  *)
(* may follow, and the call may fail.                                      *)
(***************************************************************************)
EXTENDS TextPieces, FiniteSets

CONSTANTS
    SourceText,      \* bound: the texts to translate
    Piece,           \* bound: the pieces of output, sequences of bytes
    TrainContext,    \* bound: the context sizes models were trained with
    ProfileContext,  \* context_tokens of the prompt profile
    ProfileOutput,   \* its default_output_tokens
    MaxRequested     \* bound: max_output_tokens of a request, 0 for the default

ProfileAssumption == ProfileOutput < ProfileContext /\ ProfileOutput > 0

VARIABLES
    pc,         \* where the execution is
    profile,    \* profile_: context and output tokens
    request,    \* text, overflow policy and effective output tokens
    stop,       \* what should_stop() answers
    chunks,     \* the texts still to be generated for, the one in hand first
    gen,        \* generate(): the response, the stream buffer, what it let out
    result,     \* RuntimeExecution
    failure,    \* the Failure returned
    delivered   \* history: the deltas handed to the host, put together

vars == <<pc, profile, request, stop, chunks, gen, result, failure, delivered>>

Step == {"unloaded", "ready", "prompt", "decode", "sample", "sampled", "end", "done"}

\* Conversation stands for a ConversationInput, which is never split.
Overflow == {"Split", "Reject", "Conversation"}

NewGen == [response |-> <<>>, pending |-> <<>>, emitted |-> <<>>, tokens |-> 0]

NoResult == [output |-> <<>>, tokens |-> 0, reachedLength |-> FALSE]

Init ==
    /\ pc = "unloaded"
    /\ profile = [context |-> ProfileContext, output |-> ProfileOutput]
    /\ request = [text |-> <<>>, overflow |-> "Reject", output |-> 0]
    /\ stop = FALSE
    /\ chunks = <<>> /\ gen = NewGen /\ result = NoResult /\ failure = "None"
    /\ delivered = <<>>

-----------------------------------------------------------------------------
Least(a, b) == IF a < b THEN a ELSE b

\* LocalRuntime::load(): a model trained with a smaller context narrows the
\* profile's; one that does not say has context 0.
Context(train) == IF train > 0 THEN Least(train, ProfileContext) ELSE ProfileContext

\* ModelRuntime::load().  A load that fails changes nothing that is used.
Load(train) ==
    /\ pc = "unloaded"
    /\ pc' = "ready"
    /\ profile' = [context |-> Context(train), output |-> Least(ProfileOutput, Context(train) - 1)]
    /\ UNCHANGED <<request, stop, chunks, gen, result, failure, delivered>>

Fits(text, output) == TokenCount(text) + output <= profile.context

\* PromptProfile::render(), for a text or a conversation without content.
Renders(text) == text # <<>>

Fails(f) == pc' = "done" /\ failure' = f

\* ModelRuntime::execute() up to the first prompt.
Execute(text, overflow, requested) ==
    LET output == IF requested = 0 THEN profile.output ELSE requested
        budget == profile.context - output
        parts  == IF Fits(text, output) THEN <<text>> ELSE Chunks(text, budget)
    IN
    /\ pc = "ready"
    /\ request' = [text |-> text, overflow |-> overflow, output |-> output]
    /\ CASE ~Renders(text) ->
              Fails("InvalidRequest") /\ UNCHANGED chunks
         [] Renders(text) /\ (\/ output <= 0 \/ output >= profile.context
                              \/ ~Fits(text, output) /\ (overflow # "Split" \/ parts = NoSplit)) ->
              Fails("ContextLimit") /\ UNCHANGED chunks
         [] OTHER ->
              pc' = "prompt" /\ chunks' = parts /\ UNCHANGED failure
    /\ UNCHANGED <<profile, stop, gen, result, delivered>>

\* The stop reason is raised by another thread, once the invocation is begun.
RaiseStop ==
    /\ pc \notin {"unloaded", "ready", "done"}
    /\ ~stop /\ stop' = TRUE
    /\ UNCHANGED <<pc, profile, request, chunks, gen, result, failure, delivered>>

-----------------------------------------------------------------------------
(* execute_prompt() and generate(), for the chunk in hand.                 *)

\* retain_partial(), and the part added to the result.
Retained == [result EXCEPT !.output = @ \o gen.emitted, !.tokens = @ + gen.tokens]

\* An exception leaves generate(): what was let out is kept.
Aborts(f) == Fails(f) /\ result' = Retained /\ UNCHANGED <<chunks, gen>>

\* The memory is cleared and the prompt tokenized, with a check for stop.
BeginPrompt ==
    /\ pc = "prompt"
    /\ IF ~Fits(Head(chunks), request.output)
         THEN Fails("ContextLimit") /\ UNCHANGED <<result, chunks, gen>>
         ELSE IF stop THEN Aborts("Cancelled")
         ELSE /\ pc' = "decode"
              /\ gen' = NewGen
              /\ UNCHANGED <<chunks, result, failure>>
    /\ UNCHANGED <<profile, request, stop, delivered>>

MaxGen == Least(request.output, profile.context - TokenCount(Head(chunks)))

\* llama_decode(): the last of the checks for stop around it decides.
Decode(ok) ==
    /\ pc = "decode"
    /\ IF stop THEN Aborts("Cancelled")
       ELSE IF ~ok THEN Aborts("Runtime")
       ELSE pc' = "sample" /\ UNCHANGED <<chunks, gen, result, failure>>
    /\ UNCHANGED <<profile, request, stop, delivered>>

SampleEnd ==
    /\ pc = "sample"
    /\ pc' = "end"
    /\ UNCHANGED <<profile, request, stop, chunks, gen, result, failure, delivered>>

\* The piece goes through the stream buffer; complete characters become a delta.
Sample(piece) ==
    LET d == Drained(gen.pending \o piece) IN
    /\ pc = "sample"
    /\ pc' = "sampled"
    /\ gen' = [response |-> gen.response \o piece,
               pending  |-> d.rest,
               emitted  |-> gen.emitted \o d.out,
               tokens   |-> gen.tokens + 1]
    /\ delivered' = delivered \o d.out
    /\ UNCHANGED <<profile, request, stop, chunks, result, failure>>

\* The check behind the delta, and the head of the loop.
Sampled ==
    /\ pc = "sampled"
    /\ IF stop THEN Aborts("Cancelled")
       ELSE /\ pc' = IF gen.tokens < MaxGen THEN "decode" ELSE "end"
            /\ UNCHANGED <<chunks, gen, result, failure>>
    /\ UNCHANGED <<profile, request, stop, delivered>>

\* Mistake: the response is returned as it was sampled.
Mut_EndPrompt ==
    /\ pc = "end"
    /\ result' = [result EXCEPT !.output = @ \o gen.response, !.tokens = @ + gen.tokens,
                                !.reachedLength = @ \/ gen.tokens >= MaxGen]
    /\ gen' = NewGen
    /\ chunks' = Tail(chunks)
    /\ pc' = IF Tail(chunks) = <<>> THEN "done" ELSE "prompt"
    /\ UNCHANGED <<profile, request, stop, failure, delivered>>

\* The end of generate(): the unfinished character of the buffer is dropped.
EndPrompt ==
    /\ pc = "end"
    /\ result' = [Retained EXCEPT !.reachedLength = @ \/ gen.tokens >= MaxGen]
    /\ gen' = NewGen
    /\ chunks' = Tail(chunks)
    /\ pc' = IF Tail(chunks) = <<>> THEN "done" ELSE "prompt"
    /\ UNCHANGED <<profile, request, stop, failure, delivered>>

-----------------------------------------------------------------------------
Next ==
    \/ \E train \in TrainContext : Load(train)
    \/ \E text \in SourceText, overflow \in Overflow, n \in 0 .. MaxRequested :
          Execute(text, overflow, n)
    \/ RaiseStop
    \/ BeginPrompt
    \/ \E ok \in BOOLEAN : Decode(ok)
    \/ SampleEnd \/ \E piece \in Piece : Sample(piece)
    \/ Sampled \/ EndPrompt

Spec == Init /\ [][Next]_vars

-----------------------------------------------------------------------------
\* A translation that was begun is not refused for its length any more: only
\* one that may be split is, its chunks put together are the text, each of them
\* leaves room for its output, and the model's context is never exceeded.
SplitFits ==
    /\ failure = "ContextLimit" => delivered = <<>> /\ result = NoResult
    /\ pc = "prompt" => \A i \in DOMAIN chunks : Fits(chunks[i], request.output)
    /\ pc \in {"decode", "sample", "sampled"} =>
          /\ TokenCount(Head(chunks)) + gen.tokens <= profile.context
          /\ gen.tokens <= request.output
    /\ Len(chunks) > 1 => request.overflow = "Split"
    /\ LET all == FlattenSeq(chunks)
       IN  all = SubSeq(request.text, Len(request.text) - Len(all) + 1, Len(request.text))

\* The response so far, which may still be in the middle of a character.
Unbroken(b) == WellFormed(b) \/ (b # <<>> /\ WellFormed(Append(b, "cont")))

\* The observer has been sent what the result says was the output, however the
\* execution ends: complete characters only, and every one the model produced
\* as long as it produces characters, the unfinished one at the end excepted.
OutputIsDelivered ==
    /\ delivered = result.output \o (IF pc = "done" THEN <<>> ELSE gen.emitted)
    /\ WellFormed(delivered)
    /\ Unbroken(gen.response) =>
          gen.emitted \o gen.pending = gen.response /\ Len(gen.pending) <= 1
=============================================================================
