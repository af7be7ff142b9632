----------------------------- MODULE SseForwarder -----------------------------
(***************************************************************************)
(* The stream wrapper that turns a backend's byte stream into the client's *)
(* SSE events.  A stream is a script of blocks, each followed by a blank   *)
(* line; chunks break it anywhere, so the network delivers it in items:    *)
(* item 2k-1 is the text of block k and item 2k the blank line behind it.  *)
(***************************************************************************)
EXTENDS Integers, Sequences, FiniteSets

CONSTANT IdleSecs  \* the idle timeout; 0 disables it

ASSUME IdleAssumption == IdleSecs \in Nat

\* Blocks: one without a data line, content, the usage of a chat completion,
\* the end of a response with the usage inside, and the terminator.
Comment == "comment"
Usage   == "usage"
Done    == "[DONE]"
Blocks  == {Comment, "text", Usage, "completed", Done}

VARIABLES
  script,   \* what this backend sends
  inner,    \* "none" before and after, "open" while the byte stream is polled
  got,      \* items received
  taken,    \* items drained from the buffer: taken+1..got are in it
  out,      \* events given to the client
  chunks,   \* SSE data kept for the completion record
  sawDone,  \* the backend sent its own terminator
  debug     \* a debug log keeps every chunk

sseVars == <<script, inner, got, taken, out, chunks, sawDone, debug>>

Items == 2 * Len(script)

Errors == {"stream_error", "truncated", "idle_timeout", "backend_error"}

SseTypeOK ==
  /\ script \in Seq(Blocks)
  /\ inner \in {"none", "open"}
  /\ got \in 0..Items /\ taken \in 0..got
  /\ out \in Seq(Blocks \cup Errors)
  /\ chunks \in Seq(Blocks)
  /\ sawDone \in BOOLEAN /\ debug \in BOOLEAN

\* Nothing has been sent yet; new makes inner "open".
SseInit ==
  /\ inner = "none"
  /\ got = 0 /\ taken = 0
  /\ out = <<>> /\ chunks = <<>>
  /\ sawDone = FALSE

-----------------------------------------------------------------------------
\* find_double_newline: the buffer holds a block and the blank line behind it.
HasBlock == got >= taken + 2

Block == script[taken \div 2 + 1]

\* extract_sse_event finds an event: a whole block with a data line.
HasEvent == HasBlock /\ Block # Comment

\* Mutant: the blank line is left in the buffer.
DrainedShort == taken + 1

\* The block and its blank line leave the buffer.
Drained == taken + 2

\* Mutant: two items are drained whether they are there or not.
PassedBlindly == Drained

\* A block without a data line is drained, too, but nothing else is looked for
\* before the byte stream is polled.
Passed == IF HasBlock THEN Drained ELSE taken

\* Mutant: the first chunk is kept, not the newest.
KeptStale(b) == IF chunks = <<>> THEN <<b>> ELSE chunks

\* Without a debug log only the newest chunk is kept.
Kept(b) == IF debug THEN Append(chunks, b) ELSE <<b>>

\* poll_next gives the client the first event of the buffer.
ForwardEvent ==
  /\ inner = "open"
  /\ HasEvent
  /\ taken' = Drained
  /\ out' = Append(out, Block)
  /\ IF Block = Done
     THEN sawDone' = TRUE /\ UNCHANGED chunks
     ELSE chunks' = Kept(Block) /\ UNCHANGED sawDone
  /\ UNCHANGED <<script, inner, got, debug>>

\* Otherwise it polls the byte stream: a chunk of any length is there, ...
ReceiveChunk ==
  /\ inner = "open"
  /\ ~HasEvent
  /\ got < Items
  /\ got' \in (got + 1)..Items
  /\ taken' = Passed
  /\ UNCHANGED <<script, inner, out, chunks, sawDone, debug>>

\* ... or nothing is, for now.
PollPending ==
  /\ inner = "open"
  /\ ~HasEvent
  /\ HasBlock
  /\ taken' = Passed
  /\ UNCHANGED <<script, inner, got, out, chunks, sawDone, debug>>

\* An error event, and nothing behind it.
GiveUp(e) == inner' = "none" /\ out' = Append(out, e)

\* The connection breaks in the middle of the response, ...
StreamError ==
  /\ inner = "open"
  /\ ~HasEvent
  /\ taken' = Passed
  /\ GiveUp("stream_error")
  /\ UNCHANGED <<script, got, chunks, sawDone, debug>>

\* Mutant: the end of the byte stream is the end of the response.
StreamEndQuiet ==
  /\ inner = "open"
  /\ ~HasEvent
  /\ taken' = got
  /\ inner' = "none"
  /\ UNCHANGED <<script, got, out, chunks, sawDone, debug>>

\* ... or it ends: what is left in the buffer is discarded, and only a stream
\* whose [DONE] was seen ends without an error event.
StreamEnd ==
  /\ inner = "open"
  /\ ~HasEvent
  /\ taken' = got
  /\ IF sawDone THEN inner' = "none" /\ UNCHANGED out ELSE GiveUp("truncated")
  /\ UNCHANGED <<script, got, chunks, sawDone, debug>>

\* No chunk within the idle timeout.
IdleTimeout ==
  /\ IdleSecs > 0
  /\ inner = "open"
  /\ ~HasEvent
  /\ taken' = Passed
  /\ GiveUp("idle_timeout")
  /\ UNCHANGED <<script, got, chunks, sawDone, debug>>

-----------------------------------------------------------------------------
\* Drop looks for the newest chunk with token counts.
TokensKept == \E k \in DOMAIN chunks : chunks[k] = Usage

\* The blocks that become events, among the first n of the script.
EventsOf(n) == {k \in 1..n : script[k] # Comment}

\* An error event has no successor: how many events of the backend are in out.
Given == IF out # <<>> /\ out[Len(out)] \in Errors THEN Len(out) - 1 ELSE Len(out)

\* The client has been given the events of the first n blocks, in order, each once.
Conveyed(n) ==
  /\ Given = Cardinality(EventsOf(n))
  /\ \A k \in EventsOf(n) : out[Cardinality(EventsOf(k))] = script[k]

ConveyedInFull == Conveyed(Len(script))
===============================================================================
