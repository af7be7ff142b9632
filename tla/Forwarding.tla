------------------------------ MODULE Forwarding ------------------------------
(***************************************************************************)
(* One exchange: a handler resolves the model, acquires a slot, forwards   *)
(* the request to the instance's backend, and gives the client an error,   *)
(* a whole response or a stream.  The slot is held until the exchange is   *)
(* over, so every wait for the backend is a wait of the model's queue.     *)
(*                                                                         *)
(* Nothing is assumed of the backend: it may stop sending at any point.    *)
(* What a handler waits for the backend with, and how long, differs from   *)
(* endpoint to endpoint; an endpoint is a set of ways to forward.          *)
(***************************************************************************)
EXTENDS StubBackend

CONSTANTS
  TotalSecs, \* the timeout of a whole response; 0 disables it
  Hangs      \* <<kind, wait>>: where the backend may fall silent for good

Kinds  == {"sse", "json", "audio", "voices"}
Waits  == {"headers", "errorbody", "body"}
Phases == {"resolve", "acquire"} \cup Waits \cup {"errorevent", "stream", "over"}

ASSUME ForwardingAssumption ==
  TotalSecs \in Nat /\ Hangs \subseteq Kinds \X (Waits \cup {"stream"})

VARIABLES
  via,    \* how this request is forwarded
  phase,  \* where its handler, or its response, is
  held,   \* the slot guard exists
  answer, \* what a handler that does not stream returned
  record  \* the entry in the model's ring of completions

vars == <<sseVars, via, phase, held, answer, record>>

-----------------------------------------------------------------------------
(* Ways to forward: the timeout that bounds the wait for the headers, for  *)
(* the body of an error, and for the body; and what is kept of it.         *)

NoDebug == {FALSE}

\* Mutant: a silent backend is waited for.
StreamUnbounded(s, debugs) ==
  [kind |-> "sse", headers |-> "none", errorbody |-> "none", body |-> "none",
   records |-> FALSE, streams |-> s, debugs |-> debugs]

\* build_sse_stream: only the headers are waited for.
Stream(s, debugs) ==
  [kind |-> "sse", headers |-> "idle", errorbody |-> "none", body |-> "none",
   records |-> FALSE, streams |-> s, debugs |-> debugs]

\* forward_request_aggregate: one timeout for all of it.
Aggregate(records) ==
  [kind |-> "json", headers |-> "total", errorbody |-> "total", body |-> "total",
   records |-> records, streams |-> {<<>>}, debugs |-> NoDebug]

\* forward_audio_post: the backend's content type decides.
Audio(s) ==
  [kind |-> "audio", headers |-> "idle", errorbody |-> "none", body |-> "total",
   records |-> FALSE, streams |-> s, debugs |-> NoDebug]

\* What each handler does with the request.
ChatCompletions      == {Stream({ChatStream, PingingStream}, BOOLEAN), Aggregate(TRUE)}
Responses            == {Stream({ResponsesStream}, BOOLEAN), Aggregate(TRUE)}
ResponsesInputTokens == {Aggregate(TRUE)}
Completions          == {Stream({ChatStream}, NoDebug), Aggregate(FALSE)}
Embeddings           == {Aggregate(FALSE)}
Rerank               == {Aggregate(TRUE)}
AudioSpeech          == {Audio({SpeechStream})}
AudioTranscriptions  == {Audio({TranscriptStream})}

\* Only the headers of the list of voices are waited for with a time limit.
AudioVoices == {[Aggregate(FALSE) EXCEPT !.kind = "voices", !.errorbody = "none", !.body = "none"]}

Ways == ChatCompletions \cup Responses \cup ResponsesInputTokens \cup Completions
          \cup Embeddings \cup Rerank \cup AudioSpeech \cup AudioTranscriptions
          \cup AudioVoices

TypeOK ==
  /\ SseTypeOK
  /\ via \in Ways
  /\ phase \in Phases
  /\ held \in BOOLEAN
  /\ answer \in {"none", "response", "error", "gone"}
  /\ record \in {"none", "empty", "tokens"}

Init ==
  /\ SseInit
  /\ via \in Ways
  /\ script \in via.streams
  /\ debug \in via.debugs
  /\ phase = "resolve"
  /\ held = FALSE
  /\ answer = "none"
  /\ record = "none"

-----------------------------------------------------------------------------
\* The handler returns: what it owns is dropped.
Return(a) ==
  /\ phase' = "over"
  /\ held' = FALSE
  /\ answer' = a
  /\ UNCHANGED <<sseVars, via>>

\* An unknown model, a body without a model field, a bad multipart form.
Refuse ==
  /\ phase = "resolve"
  /\ Return("error")
  /\ UNCHANGED record

\* The name is an alias or a model's, and there is such a model.
Resolve ==
  /\ phase = "resolve"
  /\ phase' = "acquire"
  /\ UNCHANGED <<sseVars, via, held, answer, record>>

AcquireFails ==
  /\ phase = "acquire"
  /\ Return("error")
  /\ UNCHANGED record

\* With the guard comes the port of the instance; the request is sent.
Acquire ==
  /\ phase = "acquire"
  /\ phase' = "headers"
  /\ held' = TRUE
  /\ UNCHANGED <<sseVars, via, answer, record>>

-----------------------------------------------------------------------------
(* The backend answers, ... *)

IsStream == via.kind \in {"sse", "audio"}

\* ... with a status that is no success, ...
HeadersError ==
  /\ phase = "headers"
  /\ phase' = "errorbody"
  /\ UNCHANGED <<sseVars, via, held, answer, record>>

\* ... with a body to aggregate, or with a stream.
HeadersBody ==
  /\ phase = "headers"
  /\ via.kind # "sse"
  /\ phase' = "body"
  /\ UNCHANGED <<sseVars, via, held, answer, record>>

HeadersStream ==
  /\ phase = "headers"
  /\ IsStream
  /\ phase' = "stream"
  /\ inner' = "open"
  /\ UNCHANGED <<script, got, taken, out, chunks, sawDone, debug,
                 via, held, answer, record>>

\* A handler that has promised a stream tells the client of an error in one; a
\* body it could not read is an "unknown error".
ErrorBody ==
  /\ phase = "errorbody"
  /\ \/ /\ via.kind = "sse"
        /\ phase' = "errorevent"
        /\ UNCHANGED <<sseVars, via, held, answer>>
     \/ via.kind # "sse" /\ Return("error")
  /\ UNCHANGED record

\* The ring takes an entry if the handler keeps one.
Body ==
  /\ phase = "body"
  /\ Return("response")
  /\ record' = IF via.records THEN "tokens" ELSE "none"

\* The connection is refused or breaks, or the body is no JSON.
BackendFails ==
  /\ phase \in {"headers", "body"}
  /\ Return("error")
  /\ UNCHANGED record

Secs(bound) == CASE bound = "idle" -> IdleSecs
                 [] bound = "total" -> TotalSecs
                 [] bound = "none" -> 0

\* The timeout of the wait runs out.
BoundExpires ==
  /\ phase \in Waits
  /\ Secs(via[phase]) > 0
  /\ \/ /\ via.kind = "sse"
        /\ phase' = "errorevent"
        /\ UNCHANGED <<sseVars, via, held, answer>>
     \/ via.kind # "sse" /\ Return("error")
  /\ UNCHANGED record

-----------------------------------------------------------------------------
(* The client reads. *)

\* StreamWithGuard: one event, then the end, which drops the guard.
ErrorEvent ==
  /\ phase = "errorevent"
  /\ out' = Append(out, "backend_error")
  /\ phase' = "over"
  /\ held' = FALSE
  /\ UNCHANGED <<script, inner, got, taken, chunks, sawDone, debug, via, answer, record>>

\* SseForwarder::drop keeps a record of what the backend completed.
StreamRecord ==
  IF ~sawDone THEN "none" ELSE IF TokensKept THEN "tokens" ELSE "empty"

\* The stream has ended.
StreamOver ==
  /\ phase = "stream"
  /\ inner = "none"
  /\ record' = StreamRecord
  /\ phase' = "over"
  /\ held' = FALSE
  /\ UNCHANGED <<sseVars, via, answer>>

Read ==
  /\ phase = "stream"
  /\ ForwardEvent \/ PollPending
  /\ UNCHANGED <<via, phase, held, answer, record>>

BackendSends ==
  /\ phase = "stream"
  /\ ReceiveChunk \/ StreamEnd \/ StreamError
  /\ UNCHANGED <<via, phase, held, answer, record>>

StreamIdles ==
  /\ phase = "stream"
  /\ IdleTimeout
  /\ UNCHANGED <<via, phase, held, answer, record>>

\* The client hangs up: the handler is dropped where it awaits, or its stream is.
Disconnect ==
  /\ phase \in {"acquire", "errorevent", "stream"} \cup Waits
  /\ phase' = "over"
  /\ held' = FALSE
  /\ answer' = "gone"
  /\ record' = IF phase = "stream" THEN StreamRecord ELSE record
  /\ UNCHANGED <<sseVars, via>>

-----------------------------------------------------------------------------
Over == phase = "over" /\ UNCHANGED vars

Answers == HeadersError \/ HeadersBody \/ HeadersStream \/ BackendFails

Next ==
  \/ Refuse \/ Resolve \/ AcquireFails \/ Acquire
  \/ Answers \/ ErrorBody \/ Body \/ BackendSends
  \/ BoundExpires \/ StreamIdles
  \/ ErrorEvent \/ Read \/ StreamOver
  \/ Disconnect \/ Over

\* Timers fire, the runtime runs the handler, and a client that stays reads.
\* The backend goes on only where it does not hang.
Fairness ==
  /\ WF_vars(Resolve \/ Refuse) /\ WF_vars(Acquire \/ AcquireFails)
  /\ WF_vars(BoundExpires) /\ WF_vars(StreamIdles)
  /\ WF_vars(ErrorEvent) /\ WF_vars(StreamOver)
  /\ WF_vars(Read)
  /\ \A h \in (Kinds \X (Waits \cup {"stream"})) \ Hangs :
       WF_vars(<<via.kind, phase>> = h /\ (Answers \/ ErrorBody \/ Body \/ BackendSends))

Spec == Init /\ [][Next]_vars /\ Fairness

-----------------------------------------------------------------------------
(* Properties. *)

\* Wherever chunks break the stream, and whatever comments are in it, the client
\* gets the backend's events in order, none lost, none twice, and nothing after
\* an error event (poll_next, extract_sse_event).
ForwardedInOrder ==
  /\ \E n \in 0..Len(script) : Conveyed(n)
  /\ \A k \in 1..Len(out) : out[k] \in Errors => k = Len(out)

\* A stream that ended under a client that stayed shows how: the whole answer and
\* [DONE], or an error event ("never a synthetic [DONE] that would make partial
\* output look complete").
NeverSilentlyTruncated ==
  phase = "over" /\ IsStream /\ answer = "none" =>
    /\ out # <<>>
    /\ out[Len(out)] = Done => ConveyedInFull
    /\ out[Len(out)] \in Errors \cup {Done}

\* No phantom records: what the ring shows was answered in full, and its token
\* counts are those of the backend although only one chunk is kept of a stream.
RecordIsTrue ==
  record # "none" =>
    \/ answer = "response" /\ via.records
    \/ /\ ConveyedInFull
       /\ record = "tokens" <=> \E k \in 1..Len(script) : script[k] = Usage

\* A hung backend does not hold the slot for good: neither a handler that waits
\* nor a stream does.
SlotReturned == held ~> ~held

-----------------------------------------------------------------------------
(* What comments of the code say, and the code does not do. *)

\* handlers.rs, responses: a thin pass-through.  A response stream that the backend
\* has sent in full ends without an error.
CompleteIsClean ==
  phase = "over" /\ ConveyedInFull /\ answer = "none" /\ out # <<>>
    => out[Len(out)] # "truncated"
===============================================================================
