---------------------------- MODULE StreamRunner ----------------------------
(***************************************************************************)
(* One request of a runner: the HTTP stream runner with its event stream   *)
(* and line formats (internal/protocol/httpstream), the WebSocket runner   *)
(* (internal/protocol/websocket) and the gRPC server stream runner         *)
(* (internal/protocol/grpc/runner_stream.go), which measure a stream by    *)
(* the same rules and end it by rules of their own; and the two that wait  *)
(* for one answer, the plain HTTP runner (internal/protocol/http) and the  *)
(* gRPC unary runner (internal/protocol/grpc/runner_unary.go).             *)
(*                                                                         *)
(* A line, a frame or a message keeps what the rules tell apart: of how    *)
(* many words its text is, how many tokens it reports and whether it ends  *)
(* the stream.                                                             *)
(***************************************************************************)
EXTENDS Integers, Sequences, FiniteSets, FiniteSetsExt, SequencesExt

CONSTANTS Kinds,     \* the runners to check: "sse", "lines", "ws", "grpc", "http", "unary"
          Headers,   \* the X-Loadgen and x-ai headers a response may carry
          MaxInput,  \* bound on what is read
          MaxTime    \* the clock stops here

ASSUME KindsAssumption == Kinds \subseteq {"sse", "lines", "ws", "grpc", "http", "unary"}
ASSUME HeadersAssumption ==
    Headers \subseteq [ttft : Nat, gen : Nat, tokens : Nat, rate : Nat, aborted : BOOLEAN,
                       aiTTFT : Nat, aiTokens : Nat]
ASSUME BoundsAssumption == MaxInput \in Nat /\ MaxTime \in Nat

VARIABLES kind,        \* the runner and the format it detected
          header,      \* the headers of the response, if one comes
          statusOK,    \* its status code is below 400
          now,         \* time.Now(); the request was sent at 0
          eventLines,  \* lines of an event that is not complete
          acc,         \* what the loop has accumulated
          pc,          \* "request", "read" or "returned"
          result,      \* the result, once returned
          input,       \* everything read
          ended        \* how the stream ended: "no", "eof", "cut", "close", "error"

vars == <<kind, header, statusOK, now, eventLines, acc, pc, result, input, ended>>

start == 0
HTTP == kind \in {"sse", "lines", "http"}

NoHeader == [ttft |-> 0, gen |-> 0, tokens |-> 0, rate |-> 0, aborted |-> FALSE,
             aiTTFT |-> 0, aiTokens |-> 0]
Pending == [success |-> FALSE, aborted |-> FALSE, latency |-> 0, ttft |-> 0, gen |-> 0,
            tokens |-> 0, estimated |-> FALSE, rate |-> <<0, 1>>, itl |-> << >>]

\* The zero value of a chunk time means that there was none.
Init ==
    /\ kind \in Kinds
    /\ header \in IF HTTP THEN Headers ELSE {NoHeader}
    /\ statusOK \in IF HTTP THEN BOOLEAN ELSE {TRUE}
    /\ now = start
    /\ eventLines = << >>
    /\ acc = [first |-> 0, last |-> 0, itl |-> << >>, chunks |-> 0, words |-> 0,
              tokens |-> 0, done |-> FALSE]
    /\ pc = "request"
    /\ result = Pending
    /\ input = << >>
    /\ ended = "no"

-----------------------------------------------------------------------------
(* Chunks.                                                                 *)

\* What extractChunk finds in a payload: the done marker, a text of one word or
\* of more, a token count, and an object with text, a count and a finish reason.
Chunk == [done   |-> [words |-> 0, tokens |-> 0, done |-> TRUE],
          text   |-> [words |-> 1, tokens |-> 0, done |-> FALSE],
          phrase |-> [words |-> 2, tokens |-> 0, done |-> FALSE],
          usage  |-> [words |-> 0, tokens |-> 2, done |-> FALSE],
          last   |-> [words |-> 1, tokens |-> 1, done |-> TRUE]]
Payloads == DOMAIN Chunk

\* The spaces in a payload as it stands on its line, the JSON around it included.
Spaces == [done |-> 0, text |-> 0, phrase |-> 2, usage |-> 1, last |-> 1]

\* A line of an event stream may also be blank or have no "data:" prefix.
Lines == Payloads \cup {"blank", "other"}

NoChunk == [words |-> 0, tokens |-> 0, done |-> FALSE]

\* Where the lines of an event have a payload.
DataLines(lines) == {i \in DOMAIN lines : lines[i] # "other"}

\* Mutant: the marker is looked for in the first line only.
EventChunkHead(lines) ==
    IF DataLines(lines) = {} THEN NoChunk ELSE Chunk[lines[Min(DataLines(lines))]]

\* Several payloads, joined with nothing between them, are no JSON any more but
\* plain text, of as many words as they look.
Joined(lines) ==
    LET spaces == [i \in DataLines(lines) |-> Spaces[lines[i]]]
    IN  [words |-> 1 + MapThenSumSet(LAMBDA i : spaces[i], DataLines(lines)),
         tokens |-> 0, done |-> FALSE]

\* extractSSEChunk: a done marker ends it, whatever came before.
EventChunk(lines) ==
    LET at == DataLines(lines)
        i  == CHOOSE n \in at : TRUE
    IN  IF \E n \in at : lines[n] = "done" THEN Chunk.done
        ELSE IF at = {} THEN NoChunk
        ELSE IF at = {i} THEN Chunk[lines[i]]
        ELSE Joined(lines)

\* Mutant: latencies are measured from the first chunk.
MarkFromFirst(a, t) ==
    [a EXCEPT !.first = IF @ = 0 THEN t ELSE @,
              !.itl = IF a.first = 0 THEN @ ELSE Append(@, t - a.first),
              !.last = t, !.chunks = @ + 1]

\* A chunk arrives: the first sets the time to first token, every other one
\* adds an inter-token latency.
Mark(a, t) ==
    [a EXCEPT !.first = IF @ = 0 THEN t ELSE @,
              !.itl = IF a.first = 0 THEN @ ELSE Append(@, t - a.last),
              !.last = t, !.chunks = @ + 1]

\* Mutant: a later token count replaces an earlier one.
TakeLatest(a, chunk, t) ==
    LET timed == IF chunk.words > 0 THEN Mark(a, t) ELSE a
    IN  [timed EXCEPT !.words = @ + chunk.words, !.tokens = IF chunk.tokens > 0 THEN chunk.tokens ELSE @,
                      !.done = @ \/ chunk.done]

\* The HTTP loop counts a chunk as one only if it has text.  The words are those
\* that the collected text will be found to have: a space follows each chunk.
Take(a, chunk, t) ==
    LET timed == IF chunk.words > 0 THEN Mark(a, t) ELSE a
    IN  [timed EXCEPT !.words = @ + chunk.words, !.tokens = @ + chunk.tokens, !.done = @ \/ chunk.done]

\* A blank line, or the end of the input, completes the event.
Flush(a, lines, t) == IF lines = << >> THEN a ELSE Take(a, EventChunk(lines), t)

-----------------------------------------------------------------------------
(* Results.                                                                *)

NoRate == <<0, 1>>
Rate(tokens, time) == IF tokens > 0 /\ time > 0 THEN <<tokens, time>> ELSE NoRate

TTFT(a) == IF a.first = 0 THEN 0 ELSE a.first - start
GenerationTime(a) == a.last - a.first

\* The X-Loadgen headers.  They are read before what was measured is filled in,
\* except for the tokens, so a rate may come from the header's generation time.
EnrichInferenceMetrics(a) ==
    LET reported == IF a.tokens > 0 THEN a.tokens ELSE header.tokens
    IN  [ttft |-> header.ttft, gen |-> header.gen, tokens |-> reported,
         rate |-> IF header.rate > 0 THEN <<header.rate, 1>> ELSE Rate(reported, header.gen),
         aborted |-> header.aborted]

\* The x-ai headers come last and fill in what is still missing.
EnrichAIHeaders(r) ==
    [r EXCEPT !.ttft = IF @ = 0 THEN header.aiTTFT ELSE @,
              !.tokens = IF @ = 0 THEN header.aiTokens ELSE @]

\* Mutant: the rate divides by the latency.
HTTPResultByLatency(a, t) ==
    LET tokens == IF a.tokens > 0 THEN a.tokens ELSE header.tokens
    IN  [success |-> statusOK, aborted |-> ~a.done, latency |-> t - start,
         ttft |-> TTFT(a), gen |-> GenerationTime(a),
         tokens |-> IF tokens = 0 THEN a.words ELSE tokens,
         estimated |-> tokens = 0 /\ a.words > 0,
         rate |-> Rate(tokens, t - start), itl |-> a.itl]

\* What was measured replaces the times of the headers, but not a rate that was
\* computed with them.  Words stand in for tokens that nothing reports.
HTTPResult(a, t) ==
    LET h         == EnrichInferenceMetrics(a)
        gen       == IF a.first = 0 THEN h.gen ELSE GenerationTime(a)
        estimated == h.tokens = 0 /\ a.words > 0
        tokens    == IF estimated THEN a.words ELSE h.tokens
    IN  EnrichAIHeaders(
            [success |-> statusOK, aborted |-> h.aborted \/ ~a.done,
             latency |-> t - start,
             ttft |-> IF a.first = 0 THEN h.ttft ELSE TTFT(a), gen |-> gen,
             tokens |-> tokens, estimated |-> estimated,
             rate |-> IF h.rate = NoRate THEN Rate(tokens, gen) ELSE h.rate, itl |-> a.itl])

\* Plain HTTP: what the headers say.  The x-ai tokens come after the rate.
PlainResult(t) ==
    LET h == EnrichInferenceMetrics(acc)
    IN  EnrichAIHeaders(
            [success |-> statusOK, aborted |-> h.aborted, latency |-> t - start, ttft |-> h.ttft,
             gen |-> h.gen, tokens |-> h.tokens, estimated |-> FALSE, rate |-> h.rate,
             itl |-> << >>])

\* A unary call measures nothing but its latency.
UnaryResult(t) == [Pending EXCEPT !.success = TRUE, !.latency = t - start]

\* WebSocket: tokens are always the words of the text frames.
WSResult(a, t) ==
    [success |-> TRUE, aborted |-> ~a.done, latency |-> t - start,
     ttft |-> TTFT(a), gen |-> GenerationTime(a), tokens |-> a.words,
     estimated |-> a.words > 0, rate |-> Rate(a.words, GenerationTime(a)), itl |-> a.itl]

\* gRPC: messages stand in for tokens that none of them reports, after the
\* rate has been computed.
GRPCResult(a, t) ==
    [success |-> TRUE, aborted |-> FALSE, latency |-> t - start,
     ttft |-> TTFT(a), gen |-> GenerationTime(a),
     tokens |-> IF a.tokens > 0 THEN a.tokens ELSE a.chunks,
     estimated |-> a.tokens = 0 /\ a.chunks > 0,
     rate |-> Rate(a.tokens, GenerationTime(a)), itl |-> a.itl]

\* What a message of a gRPC stream reports in its token field.
MessageTokens(m) == Chunk[m].tokens

\* A read or write error: nothing of what was measured is kept.  The HTTP
\* runner does not mark the stream as aborted.
FailedResult(t) == [Pending EXCEPT !.latency = t - start, !.aborted = kind \in {"ws", "grpc"}]

-----------------------------------------------------------------------------
(* The request, and then turns of the read loop, each at a moment not      *)
(* before the last one.                                                    *)

Return(r, how) == pc' = "returned" /\ result' = r /\ ended' = how

\* The response, or the connection with the request sent on it.
Connected(t) ==
    /\ pc = "request" /\ pc' = "read"
    /\ t > start /\ now' = t
    /\ UNCHANGED <<kind, header, statusOK, eventLines, acc, result, input, ended>>

\* There is none.  Only a request that could not be sent on a connection, or
\* on a stream, that was there counts as an aborted stream.
RequestFails(sending, t) ==
    /\ pc = "request" /\ now' = t
    /\ sending => kind \in {"ws", "grpc"}
    /\ Return([Pending EXCEPT !.latency = t - start, !.aborted = sending], "error")
    /\ UNCHANGED <<kind, header, statusOK, eventLines, acc, input>>

Read(t) ==
    /\ pc = "read" /\ Len(input) < MaxInput
    /\ t \in now..MaxTime /\ now' = t
    /\ UNCHANGED <<kind, header, statusOK>>

Continue(x, a) ==
    /\ acc' = a
    /\ input' = Append(input, x)
    /\ UNCHANGED <<pc, result, ended>>

\* A line that ends in a newline.
ReadEventLine(l, t) ==
    /\ kind = "sse" /\ Read(t)
    /\ IF l = "blank"
       THEN Continue(l, Flush(acc, eventLines, t)) /\ eventLines' = << >>
       ELSE Continue(l, acc) /\ eventLines' = Append(eventLines, l)

ReadPlainLine(l, t) ==
    /\ kind = "lines" /\ Read(t)
    /\ Continue(l, IF l = "blank" THEN acc ELSE Take(acc, Chunk[l], t))
    /\ UNCHANGED eventLines

\* The body ends after a newline.  In the line formats that is a normal end.
EndOfBody(t) ==
    /\ kind \in {"sse", "lines"} /\ Read(t)
    /\ acc' = IF kind = "sse" THEN Flush(acc, eventLines, t) ELSE [acc EXCEPT !.done = TRUE]
    /\ Return(HTTPResult(acc', t), "eof")
    /\ eventLines' = << >>
    /\ UNCHANGED input

\* The body ends in the middle of a line: an event is dropped, a line counts.
EndInLine(l, t) ==
    /\ kind \in {"sse", "lines"} /\ Read(t)
    /\ acc' = IF kind = "sse" THEN acc ELSE [Take(acc, Chunk[l], t) EXCEPT !.done = TRUE]
    /\ input' = Append(input, l)
    /\ Return(HTTPResult(acc', t), "cut")
    /\ UNCHANGED eventLines

\* Every frame is timed, also a ping; a ping that cannot be answered is an error.
ReadFrame(f, t) ==
    /\ kind = "ws" /\ Read(t)
    /\ Continue(f, [Mark(acc, t) EXCEPT !.words = IF f \in Payloads THEN @ + Chunk[f].words ELSE @])
    /\ UNCHANGED eventLines

\* A close frame is timed too.  The end of the connection counts as a close.
CloseFrame(t) ==
    /\ kind = "ws" /\ Read(t)
    /\ acc' = [Mark(acc, t) EXCEPT !.done = TRUE]
    /\ input' = Append(input, "close")
    /\ Return(WSResult(acc', t), "close")
    /\ UNCHANGED eventLines

EndOfConnection(t) ==
    /\ kind = "ws" /\ Read(t)
    /\ acc' = [acc EXCEPT !.done = TRUE]
    /\ Return(WSResult(acc', t), "eof")
    /\ UNCHANGED <<eventLines, input>>

\* The connection ends inside a frame.  readFrame reads a frame field by field:
\* an end between two of them looks like the end of the connection.
EndInFrame(betweenFields, t) ==
    /\ kind = "ws" /\ Read(t)
    /\ IF betweenFields
       THEN acc' = [acc EXCEPT !.done = TRUE] /\ Return(WSResult(acc', t), "cut")
       ELSE UNCHANGED acc /\ Return(FailedResult(t), "error")
    /\ UNCHANGED <<eventLines, input>>

\* A message of the stream, with the tokens its token field reports.
ReadMessage(m, t) ==
    /\ kind = "grpc" /\ Read(t)
    /\ Continue(m, [Mark(acc, t) EXCEPT !.tokens = @ + MessageTokens(m)])
    /\ UNCHANGED eventLines

EndOfStream(t) ==
    /\ kind = "grpc" /\ Read(t)
    /\ Return(GRPCResult(acc, t), "eof")
    /\ UNCHANGED <<eventLines, acc, input>>

\* The whole body, which is not looked at.
ReadBody(t) ==
    /\ kind = "http" /\ Read(t)
    /\ Return(PlainResult(t), "eof")
    /\ UNCHANGED <<eventLines, acc, input>>

UnaryAnswer(t) ==
    /\ kind = "unary" /\ Read(t)
    /\ Return(UnaryResult(t), "eof")
    /\ UNCHANGED <<eventLines, acc, input>>

\* The connection breaks, the request times out, the run is cancelled.
ReadError(t) ==
    /\ Read(t)
    /\ Return(FailedResult(t), "error")
    /\ UNCHANGED <<eventLines, acc, input>>

Next ==
    \E t \in now..MaxTime :
        \/ Connected(t)
        \/ \E sending \in BOOLEAN : RequestFails(sending, t)
        \/ \E l \in Lines : ReadEventLine(l, t)
        \/ \E l \in Payloads \cup {"blank"} : ReadPlainLine(l, t)
        \/ \E l \in Payloads : EndInLine(l, t)
        \/ \E f \in {"text", "phrase", "ping", "binary"} : ReadFrame(f, t)
        \/ \E m \in {"text", "usage"} : ReadMessage(m, t)
        \/ \E betweenFields \in BOOLEAN : EndInFrame(betweenFields, t)
        \/ ReadBody(t) \/ UnaryAnswer(t)
        \/ EndOfBody(t) \/ CloseFrame(t) \/ EndOfConnection(t) \/ EndOfStream(t) \/ ReadError(t)

Spec == Init /\ [][Next]_vars

-----------------------------------------------------------------------------
(* Properties.  The reference looks at the whole input at once.            *)

Finished == pc = "returned" /\ ended # "error"

\* The complete events of an event stream: maximal runs of lines between blank
\* ones, the last of them only if the input ended after a newline.
Events ==
    {e \in (1..Len(input)) \X (1..Len(input)) :
        /\ e[1] <= e[2]
        /\ \A i \in e[1]..e[2] : input[i] # "blank"
        /\ e[1] > 1 => input[e[1] - 1] = "blank"
        /\ IF e[2] < Len(input) THEN input[e[2] + 1] = "blank" ELSE ended = "eof"}

\* What the lines of an event say together: more than one payload is text,
\* whatever it would say alone, and the done marker silences the rest.
Says(lines) ==
    LET at     == {n \in 1..Len(lines) : lines[n] # "other"}
        marked == \E n \in at : lines[n] = "done"
        alone  == {Chunk[lines[n]] : n \in {m \in at : at = {m}}}
    IN  [words  |-> CASE marked \/ at = {} -> 0
                      [] ~marked /\ alone # {} -> (CHOOSE c \in alone : TRUE).words
                      [] OTHER -> Joined(lines).words,
         tokens |-> IF alone = {} THEN 0 ELSE (CHOOSE c \in alone : TRUE).tokens,
         done   |-> marked \/ \E c \in alone : c.done]

Items ==
    CASE kind = "sse"   -> Events
      [] kind = "lines" -> {<<i, i>> : i \in {k \in 1..Len(input) : input[k] # "blank"}}
      [] OTHER          -> {}

Said(e) == Says(SubSeq(input, e[1], e[2]))

Reported ==
    LET tokens == [e \in Items |-> Said(e).tokens]
    IN  MapThenSumSet(LAMBDA e : tokens[e], Items)
Words ==
    LET words == [e \in Items |-> Said(e).words]
    IN  MapThenSumSet(LAMBDA e : words[e], Items)

\* No event is counted twice and none is missed: the tokens of an HTTP stream
\* are those its complete events report or, failing that, the X-Loadgen header's,
\* the words of all their text or the x-ai header's, in this order, and they are
\* marked as estimated exactly when words were counted
\* (TestRunnerParsesSSEStream, TestRunnerParsesJSONLStream).
TokensExact ==
    Finished /\ HTTP =>
        LET reported == IF Reported > 0 THEN Reported ELSE header.tokens
        IN  /\ result.tokens = CASE reported > 0 -> reported
                                 [] reported = 0 /\ Words > 0 -> Words
                                 [] OTHER -> header.aiTokens
            /\ result.estimated <=> reported = 0 /\ Words > 0

\* An event stream is reported as aborted exactly when it ended without a
\* complete event that says it is done (TestRunnerMarksAbortedSSEWithoutDone),
\* or when the server's header says so; in the other formats of HTTP, which have
\* no end of their own, only the header says it.
AbortedExact ==
    /\ Finished /\ kind = "sse" =>
          (result.aborted <=> header.aborted \/ \A e \in Items : ~Said(e).done)
    /\ Finished /\ kind \in {"lines", "http"} => result.aborted = header.aborted

\* The times agree: the inter-token latencies add up to the generation time,
\* there is one fewer than timed chunks, and the last chunk came within the latency.
WithText == Cardinality({e \in Items : Said(e).words > 0})
Timed == CASE HTTP -> WithText [] OTHER -> Len(input)

TimingAddsUp ==
    Finished /\ Timed > 0 =>
        /\ Len(result.itl) = Timed - 1
        /\ FoldSeq(+, 0, result.itl) = result.gen
        /\ result.ttft + result.gen <= result.latency

\* A rate is the header's if it gives one; otherwise it is that of the tokens and
\* the generation time reported beside it, except that tokens which were reported,
\* not estimated, may have been divided by the header's generation time although
\* the one reported was measured.
RateAgrees ==
    Finished =>
        IF header.rate > 0 THEN result.rate = <<header.rate, 1>>
        ELSE \/ result.rate \in {NoRate, <<result.tokens, result.gen>>}
             \/ /\ header.gen > 0 /\ ~result.estimated
                /\ result.rate = <<result.tokens, header.gen>>
=============================================================================
