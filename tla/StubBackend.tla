------------------------------ MODULE StubBackend ------------------------------
(***************************************************************************)
(* What the stub backend of the integration tests streams, endpoint by     *)
(* endpoint, and what a backend that sends keep-alive comments streams.    *)
(***************************************************************************)
EXTENDS SseForwarder

CONSTANT Chunks  \* content blocks per stream

ASSUME ChunksAssumption == Chunks \in Nat

Content == [k \in 1..Chunks |-> "text"]

\* N content chunks, a usage chunk, [DONE].
ChatStream == Content \o <<Usage, Done>>

\* created, N deltas, completed with the usage inside it, and no [DONE].
ResponsesStream == <<"text">> \o Content \o <<"completed">>

\* N deltas, done, [DONE]; no usage at all.
SpeechStream == Content \o <<"text", Done>>
TranscriptStream == Content \o <<"text", Done>>

\* Keep-alive comments in front of, and between, the events.
PingingStream == <<Comment>> \o Content \o <<Usage, Comment, Done>>
===============================================================================
