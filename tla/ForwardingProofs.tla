---------------------------- MODULE ForwardingProofs ----------------------------
(* Theorems about Forwarding, for streams of any length and any timeouts.       *)
EXTENDS Forwarding, FiniteSetTheorems, TLAPS

-----------------------------------------------------------------------------
(* The events of a stream, and those the client has. *)

Streamed == script \in Seq(Blocks) /\ out \in Seq(Blocks \cup Errors)

LEMMA EventsAreFinite ==
  ASSUME NEW n \in Nat
  PROVE  /\ IsFiniteSet(EventsOf(n)) /\ Cardinality(EventsOf(n)) \in Nat
         /\ \A k \in EventsOf(n) : /\ Cardinality(EventsOf(k)) \in Nat
                                   /\ Cardinality(EventsOf(k)) <= Cardinality(EventsOf(n))
                                   /\ Cardinality(EventsOf(k)) >= 1
<1>1. \A k \in Nat : IsFiniteSet(EventsOf(k)) /\ Cardinality(EventsOf(k)) \in Nat
  <2>. SUFFICES ASSUME NEW k \in Nat
       PROVE  IsFiniteSet(EventsOf(k)) /\ Cardinality(EventsOf(k)) \in Nat
    OBVIOUS
  <2>1. IsFiniteSet(1..k)
    BY FS_Interval
  <2>2. EventsOf(k) \subseteq 1..k
    BY DEF EventsOf
  <2>. QED
    BY <2>1, <2>2, FS_Subset, FS_CardinalityType
<1>2. ASSUME NEW k \in EventsOf(n)
      PROVE  /\ Cardinality(EventsOf(k)) <= Cardinality(EventsOf(n))
             /\ Cardinality(EventsOf(k)) >= 1
  <2>1. k \in Nat /\ EventsOf(k) \subseteq EventsOf(n) /\ k \in EventsOf(k)
    BY <1>2 DEF EventsOf
  <2>2. Cardinality(EventsOf(k)) # 0
    BY <1>1, <2>1, FS_EmptySet
  <2>. QED
    BY <1>1, <2>1, <2>2, FS_Subset
<1>3. \A k \in EventsOf(n) : k \in Nat
  BY DEF EventsOf
<1>. QED
  BY <1>1, <1>2, <1>3

\* One block more is one event more, or none if it is a comment.
LEMMA NextBlock ==
  ASSUME NEW n \in Nat
  PROVE  /\ script[n + 1] = Comment => EventsOf(n + 1) = EventsOf(n)
         /\ script[n + 1] # Comment =>
              /\ EventsOf(n + 1) = EventsOf(n) \cup {n + 1}
              /\ Cardinality(EventsOf(n + 1)) = Cardinality(EventsOf(n)) + 1
<1>1. script[n + 1] = Comment => EventsOf(n + 1) = EventsOf(n)
  BY DEF EventsOf
<1>2. script[n + 1] # Comment => EventsOf(n + 1) = EventsOf(n) \cup {n + 1}
  BY DEF EventsOf
<1>3. n + 1 \notin EventsOf(n)
  BY DEF EventsOf
<1>. QED
  BY <1>1, <1>2, <1>3, EventsAreFinite, FS_AddElement

LEMMA NothingConveyed ==
  ASSUME out = <<>> PROVE Conveyed(0) /\ Given = 0
<1>1. EventsOf(0) = {}
  BY DEF EventsOf
<1>. QED
  BY <1>1, FS_EmptySet DEF Conveyed, Given

LEMMA ConveyComment ==
  ASSUME NEW n \in Nat, Conveyed(n), script[n + 1] = Comment
  PROVE  Conveyed(n + 1)
BY NextBlock DEF Conveyed

LEMMA ConveyEvent ==
  ASSUME Streamed, NEW n \in Nat, n < Len(script), Conveyed(n), Given = Len(out),
         script[n + 1] # Comment, UNCHANGED script, out' = Append(out, script[n + 1])
  PROVE  Conveyed(n + 1)' /\ Given' = Len(out')
<1>0. \A k : EventsOf(k)' = EventsOf(k)
  BY DEF EventsOf
<1>1. script[n + 1] \in Blocks /\ script[n + 1] \notin Errors
  BY DEF Streamed, Blocks, Errors, Comment, Usage, Done
<1>2. /\ Len(out) \in Nat /\ Len(out') = Len(out) + 1 /\ out'[Len(out')] = script[n + 1]
      /\ \A j \in 1..Len(out) : out'[j] = out[j]
  BY <1>1 DEF Streamed
<1>3. Given' = Len(out')
  BY <1>1, <1>2 DEF Given
<1>4. Cardinality(EventsOf(n + 1)) = Len(out')
  BY <1>2, NextBlock DEF Conveyed
<1>5. ASSUME NEW k \in EventsOf(n + 1) PROVE out'[Cardinality(EventsOf(k))] = script[k]
  <2>1. CASE k = n + 1
    BY <1>2, <1>4, <2>1
  <2>2. CASE k # n + 1
    <3>1. k \in EventsOf(n)
      BY <1>5, <2>2, NextBlock
    <3>2. Cardinality(EventsOf(k)) \in 1..Len(out)
      <4>1. Cardinality(EventsOf(n)) = Len(out)
        BY DEF Conveyed
      <4>2. /\ Cardinality(EventsOf(k)) \in Nat /\ Cardinality(EventsOf(k)) >= 1
            /\ Cardinality(EventsOf(k)) <= Cardinality(EventsOf(n))
        BY <3>1, EventsAreFinite
      <4>. QED
        BY <1>2, <4>1, <4>2
    <3>. QED
      BY <1>2, <3>1, <3>2 DEF Conveyed
  <2>. QED
    BY <2>1, <2>2
<1>. QED
  BY <1>0, <1>3, <1>4, <1>5 DEF Conveyed

LEMMA ConveyError ==
  ASSUME Streamed, NEW n \in Nat, Conveyed(n), Given = Len(out),
         NEW e \in Errors, UNCHANGED script, out' = Append(out, e)
  PROVE  Conveyed(n)'
<1>0. \A k : EventsOf(k)' = EventsOf(k)
  BY DEF EventsOf
<1>1. /\ Len(out) \in Nat /\ Len(out') = Len(out) + 1 /\ out'[Len(out')] = e /\ out' # <<>>
      /\ \A j \in 1..Len(out) : out'[j] = out[j]
  BY DEF Streamed
<1>2. Given' = Len(out)
  BY <1>1 DEF Given, Streamed
<1>3. ASSUME NEW k \in EventsOf(n) PROVE out'[Cardinality(EventsOf(k))] = script[k]
  <2>1. Cardinality(EventsOf(k)) \in 1..Len(out)
    <3>1. Cardinality(EventsOf(n)) = Len(out)
      BY DEF Conveyed
    <3>2. /\ Cardinality(EventsOf(k)) \in Nat /\ Cardinality(EventsOf(k)) >= 1
          /\ Cardinality(EventsOf(k)) <= Cardinality(EventsOf(n))
      BY <1>3, EventsAreFinite
    <3>. QED
      BY <1>1, <3>1, <3>2
  <2>. QED
    BY <1>1, <1>3, <2>1 DEF Conveyed
<1>. QED
  BY <1>0, <1>2, <1>3 DEF Conveyed

-----------------------------------------------------------------------------
(* Scripts end with their terminator, and no event but it follows the usage. *)

ScriptInv ==
  /\ script \in Seq(Blocks)
  /\ \A k \in 1..Len(script) : script[k] = Done => k = Len(script)
  /\ \A j, k \in 1..Len(script) : script[j] = Usage /\ j < k => script[k] \in {Comment, Done}

LEMMA ScriptsEnd == Init => ScriptInv
<1>. SUFFICES ASSUME Init PROVE ScriptInv
  OBVIOUS
<1>. USE ChunksAssumption DEF Blocks, Comment, Usage, Done
<1>1. /\ Content \in Seq(Blocks) /\ Len(Content) = Chunks
      /\ \A k \in 1..Chunks : Content[k] = "text"
  BY DEF Content
<1>. HIDE DEF Blocks
<1>. DEFINE All == {ChatStream, PingingStream, ResponsesStream, SpeechStream, TranscriptStream, <<>>}
<1>2. script \in All
  <2>1. \A s \in SUBSET All : \A d : Stream(s, d).streams \subseteq All /\ Audio(s).streams \subseteq All
    BY DEF Stream, Audio
  <2>2. \A r : Aggregate(r).streams \subseteq All
    BY DEF Aggregate
  <2>3. \A w \in AudioVoices : w.streams \subseteq All
    <3>. \A w \in AudioVoices : w.streams = {<<>>}
      BY DEF AudioVoices, Aggregate
    <3>. QED
      OBVIOUS
  <2>4. via \in Ways => via.streams \subseteq All
    BY <2>1, <2>2, <2>3
    DEF Ways, ChatCompletions, Responses, ResponsesInputTokens, Completions, Embeddings, Rerank,
        AudioSpeech, AudioTranscriptions
  <2>. QED
    BY <2>4 DEF Init
<1>3. CASE script = ChatStream
  <2>1. /\ script \in Seq(Blocks) /\ Len(script) = Chunks + 2
        /\ \A k \in 1..Chunks : script[k] = "text"
        /\ script[Chunks + 1] = Usage /\ script[Chunks + 2] = Done
    BY <1>1, <1>3 DEF ChatStream, Blocks
  <2>. QED
    BY <2>1 DEF ScriptInv
<1>4. CASE script = ResponsesStream
  <2>1. /\ script \in Seq(Blocks) /\ Len(script) = Chunks + 2
        /\ \A k \in 1..(Chunks + 1) : script[k] = "text"
        /\ script[Chunks + 2] = "completed"
    BY <1>1, <1>4 DEF ResponsesStream, Blocks
  <2>. QED
    BY <2>1 DEF ScriptInv
<1>5. CASE script = Content \o <<"text", Done>>
  <2>1. /\ script \in Seq(Blocks) /\ Len(script) = Chunks + 2
        /\ \A k \in 1..(Chunks + 1) : script[k] = "text"
        /\ script[Chunks + 2] = Done
    BY <1>1, <1>5 DEF Blocks
  <2>. QED
    BY <2>1 DEF ScriptInv
<1>6. CASE script = PingingStream
  <2>1. /\ script \in Seq(Blocks) /\ Len(script) = Chunks + 4
        /\ script[1] = Comment
        /\ \A k \in 2..(Chunks + 1) : script[k] = "text"
        /\ script[Chunks + 2] = Usage /\ script[Chunks + 3] = Comment /\ script[Chunks + 4] = Done
    BY <1>1, <1>6 DEF PingingStream, Blocks
  <2>. QED
    BY <2>1 DEF ScriptInv
<1>7. CASE script = <<>>
  BY <1>7 DEF ScriptInv
<1>. QED
  BY <1>2, <1>3, <1>4, <1>5, <1>6, <1>7 DEF SpeechStream, TranscriptStream

-----------------------------------------------------------------------------
(* Types. *)

\* What reads from the backend, one way or the other.
StreamStep == Read \/ BackendSends \/ StreamIdles

LEMMA OneMore ==
  ASSUME NEW S, NEW s \in Seq(S), NEW x \in S PROVE Append(s, x) \in Seq(S)
OBVIOUS

LEMMA PassedKept ==
  ASSUME SseTypeOK PROVE Passed \in 0..got /\ got \in 0..Items /\ Items \in Nat
BY DEF SseTypeOK, Passed, HasBlock, Drained, Items

LEMMA StreamTypes ==
  ASSUME TypeOK, StreamStep
  PROVE  /\ TypeOK' /\ phase = "stream" /\ inner = "open"
         /\ UNCHANGED <<script, debug, via, phase, held, answer, record>>
<1>. USE DEF TypeOK
<1>1. /\ phase = "stream" /\ inner = "open"
      /\ UNCHANGED <<script, debug, via, phase, held, answer, record>>
  BY DEF StreamStep, Read, BackendSends, StreamIdles, ForwardEvent, PollPending, ReceiveChunk,
     StreamEnd, StreamError, IdleTimeout
<1>2. got \in Nat /\ taken \in Nat /\ Items \in Nat /\ Items' = Items /\ got \in 0..Items
  BY <1>1 DEF SseTypeOK, Items
<1>3. CASE ForwardEvent
  <2>1. Block \in Blocks
    BY <1>2, <1>3 DEF ForwardEvent, HasEvent, HasBlock, Block, SseTypeOK, Items
  <2>2. taken' = taken + 2 /\ got' = got /\ got >= taken + 2 /\ out' = Append(out, Block)
    BY <1>3 DEF ForwardEvent, HasEvent, HasBlock, Drained
  <2>3. chunks' \in Seq(Blocks) /\ sawDone' \in BOOLEAN
    <3>1. <<Block>> \in Seq(Blocks) /\ Append(chunks, Block) \in Seq(Blocks)
      BY <2>1, OneMore DEF SseTypeOK
    <3>. QED
      BY <1>3, <3>1 DEF ForwardEvent, Kept, SseTypeOK
  <2>4. out' \in Seq(Blocks \cup Errors) /\ inner' = inner
    BY <1>3, <2>1, <2>2, OneMore DEF ForwardEvent, SseTypeOK
  <2>. QED
    BY <1>1, <1>2, <2>2, <2>3, <2>4 DEF SseTypeOK
<1>4. CASE ReceiveChunk
  BY <1>1, <1>2, <1>4, PassedKept DEF ReceiveChunk, SseTypeOK
<1>5. CASE PollPending \/ StreamError \/ IdleTimeout \/ StreamEnd
  <2>1. taken' \in 0..got /\ UNCHANGED <<got, chunks, sawDone>> /\ inner' \in {"none", "open"}
    BY <1>1, <1>2, <1>5, PassedKept
    DEF PollPending, StreamError, IdleTimeout, StreamEnd, GiveUp
  <2>2. out' = out \/ \E e \in Errors : out' = Append(out, e)
    BY <1>5 DEF PollPending, StreamError, IdleTimeout, StreamEnd, GiveUp, Errors
  <2>3. out' \in Seq(Blocks \cup Errors)
    <3>1. CASE out' = out
      BY <3>1 DEF SseTypeOK
    <3>2. ASSUME NEW e \in Errors, out' = Append(out, e) PROVE out' \in Seq(Blocks \cup Errors)
      BY <3>2, OneMore DEF SseTypeOK
    <3>. QED
      BY <2>2, <3>1, <3>2
  <2>. QED
    BY <1>1, <1>2, <2>1, <2>3 DEF SseTypeOK
<1>. QED
  BY <1>3, <1>4, <1>5 DEF StreamStep, Read, BackendSends, StreamIdles

LEMMA TypesStep ==
  ASSUME TypeOK, [Next]_vars PROVE TypeOK'
<1>1. CASE StreamStep
  BY <1>1, StreamTypes
<1>2. CASE UNCHANGED sseVars
  <2>1. SseTypeOK'
    BY <1>2 DEF TypeOK, SseTypeOK, sseVars, Items
  <2>. QED
    BY <1>2, <2>1
    DEF TypeOK, Phases, Waits, Next, Return, Refuse, Resolve, AcquireFails, Acquire, Answers,
        HeadersError, HeadersBody, BackendFails, ErrorBody, Body, BoundExpires, StreamOver, StreamRecord,
        Disconnect, Over, vars, sseVars, HeadersStream, ErrorEvent, Read, BackendSends, StreamIdles,
        StreamStep
<1>3. CASE HeadersStream
  BY <1>3 DEF HeadersStream, TypeOK, SseTypeOK, Phases, Items
<1>4. CASE ErrorEvent
  <2>1. out' \in Seq(Blocks \cup Errors)
    BY <1>4 DEF ErrorEvent, TypeOK, SseTypeOK, Errors
  <2>. QED
    BY <1>4, <2>1 DEF ErrorEvent, TypeOK, SseTypeOK, Phases, Items
<1>. QED
  BY <1>1, <1>2, <1>3, <1>4
  DEF Next, Return, Refuse, Resolve, AcquireFails, Acquire, Answers, HeadersError, HeadersBody,
      BackendFails, ErrorBody, Body, BoundExpires, StreamOver, Disconnect, Over, vars, StreamStep

LEMMA TypesInit == Init => TypeOK
<1>. SUFFICES ASSUME Init PROVE TypeOK
  OBVIOUS
<1>1. \A w \in Ways : w.debugs \subseteq BOOLEAN
  <2>1. \A w \in AudioVoices : w.debugs = {FALSE}
    BY DEF AudioVoices, Aggregate, NoDebug
  <2>2. \A s : \A d \in SUBSET BOOLEAN : Stream(s, d).debugs \subseteq BOOLEAN
    BY DEF Stream
  <2>3. \A s : Aggregate(s).debugs = {FALSE} /\ Audio(s).debugs = {FALSE}
    BY DEF Aggregate, Audio, NoDebug
  <2>4. ASSUME NEW w \in Ways
        PROVE  \/ \E s : \E d \in SUBSET BOOLEAN : w = Stream(s, d)
               \/ \E s : w = Aggregate(s) \/ w = Audio(s)
               \/ w \in AudioVoices
    BY DEF Ways, ChatCompletions, Responses, ResponsesInputTokens, Completions, Embeddings, Rerank,
       AudioSpeech, AudioTranscriptions, NoDebug
  <2>. QED
    BY <2>1, <2>2, <2>3, <2>4
<1>2. script \in Seq(Blocks) /\ debug \in BOOLEAN
  BY <1>1, ScriptsEnd DEF Init, ScriptInv
<1>3. Items \in Nat
  BY <1>2 DEF Items
<1>4. SseTypeOK
  <2>1. got = 0 /\ taken = 0 /\ out = <<>> /\ chunks = <<>> /\ inner = "none" /\ sawDone = FALSE
    BY DEF Init, SseInit
  <2>2. chunks \in Seq(Blocks) /\ out \in Seq(Blocks \cup Errors)
    BY <2>1
  <2>3. got \in 0..Items /\ taken \in 0..got
    BY <1>3, <2>1
  <2>4. inner \in {"none", "open"} /\ sawDone \in BOOLEAN
    BY <2>1
  <2>. QED
    BY <1>2, <2>2, <2>3, <2>4 DEF SseTypeOK
<1>. QED
  BY <1>4 DEF Init, TypeOK, Phases

-----------------------------------------------------------------------------
(* What the client has, what was taken from the buffer and what is kept, all   *)
(* speak of the same prefix of the stream.                                     *)

UsageIn(n) == \E k \in 1..n : script[k] = Usage

\* No stream yet: nothing of it is there.
BeforeStream ==
  /\ phase \notin {"stream", "over"} =>
       inner = "none" /\ got = 0 /\ taken = 0 /\ out = <<>> /\ chunks = <<>> /\ ~sawDone
  /\ phase # "over" => record = "none" /\ answer = "none"

\* Of an open stream the first n blocks have been given to the client.
At(n) ==
  /\ taken = 2 * n
  /\ Conveyed(n) /\ Given = Len(out)
  /\ sawDone <=> \E k \in 1..n : script[k] = Done
  /\ TokensKept <=> UsageIn(n)

OpenInv == phase = "stream" /\ inner = "open" => \E n \in 0..Len(script) : At(n)

\* [DONE] comes last, with all that is recorded of the stream.
DoneInv == sawDone => ConveyedInFull /\ (TokensKept <=> UsageIn(Len(script)))

\* A stream that has ended says how.
Signed ==
  /\ out # <<>> /\ out[Len(out)] \in Errors \cup {Done}
  /\ out[Len(out)] = Done => ConveyedInFull

EndedInv == phase = "stream" /\ inner = "none" => Signed

StreamInv ==
  /\ TypeOK /\ ScriptInv /\ BeforeStream
  /\ OpenInv /\ DoneInv /\ EndedInv
  /\ ForwardedInOrder /\ NeverSilentlyTruncated /\ RecordIsTrue

LEMMA StreamInit == Init => StreamInv
<1>. SUFFICES ASSUME Init PROVE StreamInv
  OBVIOUS
<1>1. TypeOK /\ ScriptInv
  BY TypesInit, ScriptsEnd
<1>2. phase = "resolve" /\ out = <<>> /\ ~sawDone /\ record = "none" /\ answer = "none"
  BY DEF Init, SseInit
<1>3. BeforeStream
  BY DEF Init, SseInit, BeforeStream
<1>4. ForwardedInOrder
  <2>1. Len(script) \in Nat
    BY <1>1 DEF ScriptInv
  <2>. QED
    BY <1>2, <2>1, NothingConveyed DEF ForwardedInOrder
<1>. QED
  BY <1>1, <1>2, <1>3, <1>4
  DEF StreamInv, OpenInv, DoneInv, EndedInv, NeverSilentlyTruncated, RecordIsTrue

\* [DONE] among the first n blocks is the last of all: the client has everything.
LEMMA AllAtDone ==
  ASSUME TypeOK, ScriptInv, NEW n \in 0..Len(script), At(n), sawDone
  PROVE  /\ n = Len(script) /\ ConveyedInFull /\ out # <<>> /\ out[Len(out)] = Done
<1>1. PICK k \in 1..n : script[k] = Done
  BY DEF At
<1>2. n = Len(script) /\ k = n /\ n \in Nat
  BY <1>1 DEF ScriptInv
<1>3. n \in EventsOf(n)
  BY <1>1, <1>2 DEF EventsOf, Comment, Done
<1>4. Cardinality(EventsOf(n)) = Len(out) /\ Cardinality(EventsOf(n)) >= 1
  BY <1>2, <1>3, EventsAreFinite DEF At, Conveyed
<1>5. out[Len(out)] = Done /\ out # <<>>
  BY <1>1, <1>2, <1>3, <1>4 DEF At, Conveyed
<1>. QED
  BY <1>2, <1>5 DEF At, ConveyedInFull

\* A block that leaves the buffer without becoming an event is a comment.
LEMMA AtPassed ==
  ASSUME TypeOK, ScriptInv, NEW n \in 0..Len(script), At(n), ~HasEvent
  PROVE  \E m \in 0..Len(script) :
           /\ Passed = 2 * m /\ Conveyed(m)
           /\ (\E k \in 1..n : script[k] = Done) <=> (\E k \in 1..m : script[k] = Done)
           /\ UsageIn(n) <=> UsageIn(m)
<1>1. Len(script) \in Nat /\ got \in 0..(2 * Len(script)) /\ taken = 2 * n /\ n \in Nat
  BY DEF ScriptInv, TypeOK, SseTypeOK, Items, At
<1>2. CASE ~HasBlock
  BY <1>1, <1>2 DEF Passed, At
<1>3. CASE HasBlock
  <2>1. n + 1 \in 0..Len(script) /\ Passed = 2 * (n + 1) /\ script[n + 1] = Comment
    BY <1>1, <1>3 DEF HasBlock, HasEvent, Block, Passed, Drained
  <2>2. Conveyed(n + 1)
    BY <1>1, <2>1, ConveyComment DEF At
  <2>3. /\ (\E k \in 1..n : script[k] = Done) <=> (\E k \in 1..(n + 1) : script[k] = Done)
        /\ UsageIn(n) <=> UsageIn(n + 1)
    <3>1. \A k \in 1..(n + 1) : k \in 1..n \/ k = n + 1
      BY <1>1
    <3>2. \A k \in 1..n : k \in 1..(n + 1)
      BY <1>1
    <3>. QED
      BY <2>1, <3>1, <3>2 DEF UsageIn, Comment, Done, Usage
  <2>. QED
    BY <2>1, <2>2, <2>3
<1>. QED
  BY <1>2, <1>3

\* One event more: the prefix grows by a block.
LEMMA AtEvent ==
  ASSUME TypeOK, ScriptInv, NEW n \in 0..Len(script), At(n), ForwardEvent
  PROVE  n + 1 \in 0..Len(script) /\ At(n + 1)'
<1>. USE DEF ForwardEvent
<1>1. Len(script) \in Nat /\ got \in 0..(2 * Len(script)) /\ taken = 2 * n /\ n \in Nat
  BY DEF ScriptInv, TypeOK, SseTypeOK, Items, At
<1>2. n + 1 \in 1..Len(script) /\ taken' = 2 * (n + 1) /\ Block = script[n + 1]
  BY <1>1 DEF HasBlock, HasEvent, Block, Drained
<1>3. Conveyed(n + 1)' /\ Given' = Len(out')
  <2>1. Streamed
    BY DEF TypeOK, SseTypeOK, Streamed
  <2>2. script[n + 1] # Comment /\ out' = Append(out, script[n + 1]) /\ n < Len(script)
    BY <1>1, <1>2 DEF HasEvent
  <2>. QED
    BY <1>1, <2>1, <2>2, ConveyEvent DEF At
<1>4. \A k : k \in 1..(n + 1) <=> k \in 1..n \/ k = n + 1
  BY <1>1
<1>5. sawDone' <=> \E k \in 1..(n + 1) : script[k] = Done
  BY <1>2, <1>4 DEF At
<1>6. TokensKept' <=> UsageIn(n + 1)
  <2>. USE DEF TokensKept, UsageIn
  <2>1. CASE Block = Done
    BY <1>2, <1>4, <2>1 DEF At, Usage, Done
  <2>2. CASE Block # Done /\ debug
    <3>1. chunks' = Append(chunks, Block) /\ chunks \in Seq(Blocks)
      BY <2>2 DEF Kept, TypeOK, SseTypeOK
    <3>2. TokensKept' <=> TokensKept \/ Block = Usage
      <4>1. /\ DOMAIN chunks = 1..Len(chunks) /\ Len(chunks) \in Nat
            /\ DOMAIN chunks' = 1..(Len(chunks) + 1) /\ chunks'[Len(chunks) + 1] = Block
            /\ \A k \in 1..Len(chunks) : chunks'[k] = chunks[k]
        BY <3>1
      <4>2. \A k : k \in DOMAIN chunks' <=> k \in DOMAIN chunks \/ k = Len(chunks) + 1
        BY <4>1
      <4>. QED
        BY <4>1, <4>2
    <3>. QED
      BY <1>2, <1>4, <3>2 DEF At
  <2>3. CASE Block # Done /\ ~debug
    <3>1. chunks' = <<Block>>
      BY <2>3 DEF Kept
    <3>2. TokensKept' <=> Block = Usage
      BY <3>1
    <3>3. ~UsageIn(n)
      <4>. SUFFICES ASSUME NEW j \in 1..n, script[j] = Usage PROVE FALSE
        OBVIOUS
      <4>1. j \in 1..Len(script) /\ j < n + 1
        BY <1>1, <1>2
      <4>2. script[n + 1] \in {Comment, Done}
        BY <1>2, <4>1 DEF ScriptInv
      <4>. QED
        BY <1>2, <2>3, <4>2 DEF HasEvent
    <3>. QED
      BY <1>2, <1>4, <3>2, <3>3
  <2>. QED
    BY <2>1, <2>2, <2>3
<1>7. UsageIn(n + 1)' <=> UsageIn(n + 1)
  BY DEF UsageIn
<1>. QED
  BY <1>1, <1>2, <1>3, <1>5, <1>6, <1>7 DEF At

\* Any other step of an open stream, which gives the client an error or nothing.
Unread == PollPending \/ ReceiveChunk \/ StreamError \/ IdleTimeout \/ StreamEnd

LEMMA UnreadStep ==
  ASSUME TypeOK, ScriptInv, Unread, NEW n \in 0..Len(script), At(n)
  PROVE  /\ inner' = "open" => \E m \in 0..Len(script) : At(m)'
         /\ inner' = "none" =>
              \/ \E e \in Errors : out' = Append(out, e)
              \/ sawDone /\ out' = out
         /\ out' = out \/ \E e \in Errors : out' = Append(out, e)
         /\ UNCHANGED <<script, chunks, sawDone>>
<1>. USE DEF Unread, PollPending, ReceiveChunk, StreamError, IdleTimeout, StreamEnd, GiveUp
<1>1. UNCHANGED <<script, chunks, sawDone>>
  OBVIOUS
<1>2. out' = out \/ \E e \in Errors : out' = Append(out, e)
  BY DEF Errors
<1>3. inner' = "none" => (\E e \in Errors : out' = Append(out, e)) \/ (sawDone /\ out' = out)
  BY DEF Errors
<1>4. ASSUME inner' = "open" PROVE \E m \in 0..Len(script) : At(m)'
  <2>1. out' = out /\ taken' = Passed /\ ~HasEvent
    BY <1>4
  <2>2. PICK m \in 0..Len(script) :
           /\ Passed = 2 * m /\ Conveyed(m)
           /\ (\E k \in 1..n : script[k] = Done) <=> (\E k \in 1..m : script[k] = Done)
           /\ UsageIn(n) <=> UsageIn(m)
    BY <2>1, AtPassed
  <2>3. (Conveyed(m)' <=> Conveyed(m)) /\ Given' = Given
    BY <1>1, <2>1 DEF Conveyed, Given, EventsOf
  <2>4. (TokensKept' <=> TokensKept) /\ (UsageIn(m)' <=> UsageIn(m))
    BY <1>1 DEF TokensKept, UsageIn
  <2>. QED
    BY <1>1, <2>1, <2>2, <2>3, <2>4 DEF At
<1>. QED
  BY <1>1, <1>2, <1>3, <1>4

\* Errors come last, once.
LEMMA ErrorsLast ==
  ASSUME Streamed, Given = Len(out), NEW x \in Blocks \cup Errors, out' = Append(out, x),
         \A k \in 1..Len(out) : out[k] \in Errors => k = Len(out)
  PROVE  \A k \in 1..Len(out') : out'[k] \in Errors => k = Len(out')
<1>1. /\ Len(out) \in Nat /\ Len(out') = Len(out) + 1
      /\ \A k \in 1..Len(out) : out'[k] = out[k]
  BY DEF Streamed
<1>2. \A k \in 1..Len(out) : out[k] \notin Errors
  <2>. SUFFICES ASSUME NEW k \in 1..Len(out), out[k] \in Errors PROVE FALSE
    OBVIOUS
  <2>1. k = Len(out) /\ out # <<>>
    OBVIOUS
  <2>2. out[Len(out)] \in Errors
    BY <2>1
  <2>3. Given = Len(out) - 1
    BY <2>1, <2>2 DEF Given
  <2>. QED
    BY <1>1, <2>3
<1>. QED
  BY <1>1, <1>2

-----------------------------------------------------------------------------
(* Every step keeps the invariant. *)

LEMMA StreamStepKept ==
  ASSUME StreamInv, StreamStep PROVE StreamInv'
<1>. USE DEF StreamInv
<1>1. /\ TypeOK' /\ phase = "stream" /\ inner = "open"
      /\ UNCHANGED <<script, debug, via, phase, held, answer, record>>
  BY StreamTypes
<1>2. PICK n \in 0..Len(script) : At(n)
  BY <1>1 DEF OpenInv
<1>3. Streamed /\ Given = Len(out) /\ Conveyed(n)
  BY <1>2 DEF At, TypeOK, SseTypeOK, Streamed
<1>4. \A k \in 1..Len(out) : out[k] \in Errors => k = Len(out)
  BY DEF ForwardedInOrder
<1>5. BeforeStream' /\ ScriptInv' /\ NeverSilentlyTruncated' /\ RecordIsTrue'
  <2>1. record' = "none" /\ phase' = "stream" /\ answer' = "none"
    BY <1>1 DEF BeforeStream
  <2>. QED
    BY <1>1, <2>1 DEF BeforeStream, ScriptInv, NeverSilentlyTruncated, RecordIsTrue
<1>6. CASE ForwardEvent
  <2>1. n + 1 \in 0..Len(script) /\ At(n + 1)'
    BY <1>2, <1>6, AtEvent
  <2>2. inner' = "open"
    BY <1>1, <1>6 DEF ForwardEvent
  <2>3. OpenInv' /\ EndedInv'
    BY <1>1, <2>1, <2>2 DEF OpenInv, EndedInv
  <2>4. ForwardedInOrder'
    <3>1. Block \in Blocks /\ out' = Append(out, Block)
      BY <1>2, <1>6 DEF ForwardEvent, HasEvent, HasBlock, Block, At, TypeOK, SseTypeOK, Items
    <3>2. Conveyed(n + 1)'
      BY <2>1 DEF At
    <3>3. \A k \in 1..Len(out') : out'[k] \in Errors => k = Len(out')
      BY <1>3, <1>4, <3>1, ErrorsLast
    <3>. QED
      BY <1>1, <2>1, <3>2, <3>3 DEF ForwardedInOrder
  <2>5. DoneInv'
    <3>. SUFFICES ASSUME sawDone' PROVE ConveyedInFull' /\ (TokensKept' <=> UsageIn(Len(script))')
      BY DEF DoneInv
    <3>1. n + 1 = Len(script)
      <4>1. PICK k \in 1..(n + 1) : script[k] = Done
        BY <1>1, <2>1 DEF At
      <4>. QED
        BY <2>1, <4>1 DEF ScriptInv
    <3>. QED
      BY <1>1, <2>1, <3>1 DEF At, ConveyedInFull
  <2>. QED
    BY <1>1, <1>5, <2>3, <2>4, <2>5
<1>7. CASE Unread
  <2>1. /\ inner' = "open" => \E m \in 0..Len(script) : At(m)'
        /\ inner' = "none" =>
             \/ \E e \in Errors : out' = Append(out, e)
             \/ sawDone /\ out' = out
        /\ out' = out \/ \E e \in Errors : out' = Append(out, e)
        /\ UNCHANGED <<script, chunks, sawDone>>
    BY <1>2, <1>7, UnreadStep
  <2>2. OpenInv'
    BY <1>1, <2>1 DEF OpenInv
  <2>3. ASSUME NEW m \in 0..Len(script), Conveyed(m) PROVE Conveyed(m)'
    <3>1. CASE out' = out
      BY <1>1, <2>3, <3>1 DEF Conveyed, Given, EventsOf
    <3>2. CASE \E e \in Errors : out' = Append(out, e)
      <4>1. m \in Nat
        BY <2>3
      <4>. QED
        BY <1>1, <1>3, <2>3, <3>2, <4>1, ConveyError
    <3>. QED
      BY <2>1, <3>1, <3>2
  <2>4. ForwardedInOrder'
    <3>1. \A k \in 1..Len(out') : out'[k] \in Errors => k = Len(out')
      BY <1>3, <1>4, <2>1, ErrorsLast
    <3>. QED
      BY <1>1, <1>2, <1>3, <2>3, <3>1 DEF ForwardedInOrder
  <2>5. DoneInv'
    <3>. SUFFICES ASSUME sawDone' PROVE ConveyedInFull' /\ (TokensKept' <=> UsageIn(Len(script))')
      BY DEF DoneInv
    <3>1. ConveyedInFull /\ (TokensKept <=> UsageIn(Len(script))) /\ Len(script) \in 0..Len(script)
      BY <2>1 DEF DoneInv, ScriptInv
    <3>. QED
      BY <1>1, <2>1, <2>3, <3>1 DEF ConveyedInFull, TokensKept, UsageIn
  <2>6. EndedInv'
    <3>. SUFFICES ASSUME inner' = "none" PROVE Signed'
      BY DEF EndedInv
    <3>1. ASSUME NEW e \in Errors, out' = Append(out, e) PROVE Signed'
      <4>1. out' # <<>> /\ out'[Len(out')] = e
        BY <1>3, <3>1 DEF Streamed
      <4>2. e # Done
        BY DEF Errors, Done
      <4>. QED
        BY <4>1, <4>2 DEF Signed
    <3>2. CASE sawDone /\ out' = out
      <4>1. ConveyedInFull /\ out # <<>> /\ out[Len(out)] = Done
        BY <1>2, <3>2, AllAtDone
      <4>. QED
        BY <1>1, <3>2, <4>1 DEF Signed, ConveyedInFull, Conveyed, Given, EventsOf
    <3>. QED
      BY <2>1, <3>1, <3>2
  <2>. QED
    BY <1>1, <1>5, <2>2, <2>4, <2>5, <2>6
<1>. QED
  BY <1>6, <1>7 DEF StreamStep, Unread, Read, BackendSends, StreamIdles

\* The stream, and what was given of it, stay as they are.
LEMMA StreamKept ==
  ASSUME UNCHANGED sseVars
  PROVE  /\ \A n : At(n)' <=> At(n)
         /\ ScriptInv' = ScriptInv /\ DoneInv' = DoneInv /\ (Signed' <=> Signed)
         /\ ForwardedInOrder' = ForwardedInOrder /\ (ConveyedInFull' <=> ConveyedInFull)
         /\ Len(script)' = Len(script)
<1>. USE DEF sseVars
<1>1. \A n : (Conveyed(n)' <=> Conveyed(n)) /\ (UsageIn(n)' <=> UsageIn(n))
  BY DEF Conveyed, Given, EventsOf, UsageIn
<1>2. (TokensKept' <=> TokensKept) /\ (ConveyedInFull' <=> ConveyedInFull) /\ Given' = Given
  BY <1>1 DEF TokensKept, ConveyedInFull, Given
<1>3. \A n : At(n)' <=> At(n)
  BY <1>1, <1>2 DEF At
<1>4. (Signed' <=> Signed) /\ (DoneInv' <=> DoneInv) /\ (ScriptInv' <=> ScriptInv)
  BY <1>1, <1>2 DEF Signed, DoneInv, ScriptInv
<1>5. ForwardedInOrder' <=> ForwardedInOrder
  BY <1>1 DEF ForwardedInOrder
<1>. QED
  BY <1>2, <1>3, <1>4, <1>5 DEF DoneInv, ScriptInv, ForwardedInOrder

\* A handler's own steps, and the end of a stream: nothing is read any more.
LEMMA QuietKept ==
  ASSUME StreamInv, [Next]_vars, UNCHANGED sseVars PROVE StreamInv'
<1>. USE DEF StreamInv
<1>1. TypeOK' /\ ScriptInv' /\ DoneInv' /\ ForwardedInOrder'
  BY TypesStep, StreamKept
<1>2. /\ phase' = "stream" => phase = "stream"
      /\ phase' \notin {"stream", "over"} => phase \notin {"stream", "over"}
      /\ phase' # "over" => record' = record /\ answer' = answer /\ phase # "over"
  <2>. USE DEF Return, Refuse, Resolve, AcquireFails, Acquire, Answers, HeadersError, HeadersBody,
       BackendFails, ErrorBody, Body, BoundExpires, StreamOver, Disconnect, Over, vars,
       Read, BackendSends, StreamIdles, HeadersStream, ErrorEvent, Waits
  <2>1. ~HeadersStream
    BY DEF BeforeStream, sseVars
  <2>. QED
    BY <2>1 DEF Next
<1>3. BeforeStream'
  BY <1>2 DEF BeforeStream, sseVars
<1>4. OpenInv' /\ EndedInv'
  BY <1>2, StreamKept DEF OpenInv, EndedInv, sseVars
<1>5. CASE phase' # "over"
  <2>1. record' = "none"
    BY <1>3, <1>5 DEF BeforeStream
  <2>2. NeverSilentlyTruncated' /\ RecordIsTrue'
    BY <1>5, <2>1 DEF NeverSilentlyTruncated, RecordIsTrue
  <2>. QED
    BY <1>1, <1>3, <1>4, <2>2
<1>6. CASE phase' = "over" /\ phase = "over"
  <2>1. UNCHANGED vars
    BY <1>6 DEF Next, Return, Refuse, Resolve, AcquireFails, Acquire, Answers, HeadersError, HeadersBody,
       HeadersStream, BackendFails, ErrorBody, Body, BoundExpires, StreamOver, Disconnect, Over, vars,
       ErrorEvent, Read, BackendSends, StreamIdles, Waits
  <2>2. NeverSilentlyTruncated' /\ RecordIsTrue'
    BY <2>1, StreamKept DEF NeverSilentlyTruncated, RecordIsTrue, vars, IsStream, Signed, sseVars
  <2>. QED
    BY <1>1, <1>3, <1>4, <2>2
<1>7. CASE phase' = "over" /\ phase # "over"
  <2>0. record = "none" /\ answer = "none"
    BY <1>7 DEF BeforeStream
  <2>1. \/ phase = "stream" /\ inner = "none" /\ answer' = answer /\ record' = StreamRecord /\ via' = via
        \/ phase = "stream" /\ answer' = "gone" /\ record' = StreamRecord /\ via' = via
        \/ answer' = "response" /\ record' \in {"none", "tokens"} /\ via' = via
             /\ (record' # "none" => via.records)
        \/ answer' \in {"error", "gone"} /\ record' = record
    BY <1>7
    DEF Next, Return, Refuse, Resolve, AcquireFails, Acquire, Answers, HeadersError, HeadersBody,
        HeadersStream, BackendFails, ErrorBody, Body, BoundExpires, StreamOver, Disconnect, Over, vars,
        ErrorEvent, Read, BackendSends, StreamIdles, Waits, sseVars, BeforeStream
  <2>2. NeverSilentlyTruncated'
    <3>. SUFFICES ASSUME answer' = "none" PROVE Signed'
      BY DEF NeverSilentlyTruncated, Signed
    <3>1. phase = "stream" /\ inner = "none"
      BY <2>1
    <3>. QED
      BY <3>1, StreamKept DEF EndedInv
  <2>3. RecordIsTrue'
    <3>1. CASE record' = StreamRecord /\ record' # "none"
      <4>1. sawDone /\ (record' = "tokens" <=> TokensKept)
        BY <3>1 DEF StreamRecord
      <4>2. ConveyedInFull' /\ (TokensKept <=> \E k \in 1..Len(script) : script[k] = Usage)
        BY <4>1, StreamKept DEF DoneInv, UsageIn
      <4>. QED
        BY <4>1, <4>2 DEF RecordIsTrue, sseVars
    <3>. QED
      BY <2>0, <2>1, <3>1 DEF RecordIsTrue
  <2>. QED
    BY <1>1, <1>3, <1>4, <2>2, <2>3
<1>. QED
  BY <1>5, <1>6, <1>7

LEMMA StreamNext == StreamInv /\ [Next]_vars => StreamInv'
<1>. SUFFICES ASSUME StreamInv, [Next]_vars PROVE StreamInv'
  OBVIOUS
<1>0. TypeOK'
  BY TypesStep DEF StreamInv
<1>1. CASE StreamStep
  BY <1>1, StreamStepKept
<1>2. CASE UNCHANGED sseVars
  BY <1>2, QuietKept
<1>3. CASE HeadersStream
  <2>. USE DEF HeadersStream, StreamInv
  <2>1. /\ UNCHANGED <<script, got, taken, out, chunks, sawDone, debug, via, held, answer, record>>
        /\ phase' = "stream" /\ inner' = "open" /\ taken = 0 /\ out = <<>> /\ chunks = <<>>
        /\ ~sawDone /\ record = "none" /\ answer = "none"
    BY <1>3 DEF BeforeStream
  <2>2. /\ (Conveyed(0)' <=> Conveyed(0)) /\ Given' = Given /\ (TokensKept' <=> TokensKept)
        /\ ScriptInv' /\ ForwardedInOrder'
    BY <2>1 DEF Conveyed, Given, EventsOf, TokensKept, ScriptInv, ForwardedInOrder
  <2>3. At(0)' /\ 0 \in 0..Len(script)'
    BY <2>1, <2>2, NothingConveyed DEF At, TokensKept, UsageIn, ScriptInv
  <2>. QED
    BY <1>0, <2>1, <2>2, <2>3
    DEF BeforeStream, OpenInv, DoneInv, EndedInv, NeverSilentlyTruncated, RecordIsTrue
<1>4. CASE ErrorEvent
  <2>. USE DEF ErrorEvent, StreamInv
  <2>1. /\ UNCHANGED <<script, inner, got, taken, chunks, sawDone, debug, via, answer, record>>
        /\ phase' = "over" /\ out = <<>> /\ out' = <<"backend_error">>
        /\ ~sawDone /\ record = "none"
    BY <1>4 DEF BeforeStream
  <2>2. "backend_error" \in Errors /\ Done \notin Errors /\ 0 \in 0..Len(script) /\ 0 \in Nat
    BY DEF Errors, Done, ScriptInv
  <2>3. Conveyed(0)'
    <3>1. Streamed /\ out' = Append(out, "backend_error")
      BY <1>4 DEF Streamed, TypeOK, SseTypeOK
    <3>. QED
      BY <2>1, <2>2, <3>1, NothingConveyed, ConveyError
  <2>4. ForwardedInOrder'
    BY <2>1, <2>2, <2>3 DEF ForwardedInOrder
  <2>5. NeverSilentlyTruncated'
    BY <2>1, <2>2 DEF NeverSilentlyTruncated
  <2>. QED
    BY <1>0, <2>1, <2>4, <2>5 DEF BeforeStream, OpenInv, DoneInv, EndedInv, RecordIsTrue, ScriptInv
<1>. QED
  BY <1>1, <1>2, <1>3, <1>4
  DEF Next, Return, Refuse, Resolve, AcquireFails, Acquire, Answers, HeadersError, HeadersBody,
      BackendFails, ErrorBody, Body, BoundExpires, StreamOver, Disconnect, Over, vars, StreamStep

-----------------------------------------------------------------------------
(* The theorems. *)

\* Whatever a backend sends, and however it is cut into chunks, the forwarder's
\* counters stay within the stream and its events within the protocol.
THEOREM TypeCorrect == Spec => []TypeOK
<1>. QED
  BY TypesInit, TypesStep, PTL DEF Spec

LEMMA StreamAlways == Spec => []StreamInv
<1>. QED
  BY StreamInit, StreamNext, PTL DEF Spec

\* The client has been given the events of a prefix of the backend's stream, each
\* once and in order, and at most one error event behind them (poll_next).
THEOREM InOrder == Spec => []ForwardedInOrder
<1>1. StreamInv => ForwardedInOrder
  BY DEF StreamInv
<1>. QED
  BY <1>1, StreamAlways, PTL

\* A stream of any length that ended under a client that stayed ended with the
\* backend's own [DONE] behind all of its events, or with an error event.
THEOREM NoSilentTruncation == Spec => []NeverSilentlyTruncated
<1>1. StreamInv => NeverSilentlyTruncated
  BY DEF StreamInv
<1>. QED
  BY <1>1, StreamAlways, PTL

\* A record in the ring is of a response the client was given in full, and shows
\* token counts exactly if the backend sent them (SseForwarder::drop).
THEOREM RecordsAreTrue == Spec => []RecordIsTrue
<1>1. StreamInv => RecordIsTrue
  BY DEF StreamInv
<1>. QED
  BY <1>1, StreamAlways, PTL
=============================================================================
