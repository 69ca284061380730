------------------------------- MODULE BodyReader -------------------------------
(***************************************************************************)
(* The two readers of a response body in src/src/exec.rs: the loop of      *)
(* read_response_with_limit, and the stream of read_body_streaming, which  *)
(* reports progress chunk by chunk.  They are written separately and must  *)
(* agree, since finalize_http_summary presents their results as the same.  *)
(*                                                                         *)
(* Bytes are counted.  Of their meaning only the length of the string they *)
(* are converted to is told, which is not their number (Lossy).  The       *)
(* upstream decides on the chunks, and may end the body or break it off at *)
(* any time; a timeout breaks it off.                                      *)
(***************************************************************************)
EXTENDS Naturals

CONSTANTS
    Limit,      \* max_response_bytes
    ChunkSize,  \* sizes of the chunks the upstream sends
    MaxTotal    \* bound: bytes the upstream sends at most

ASSUME ReaderAssumption ==
    Limit \in Nat /\ ChunkSize \subseteq Nat /\ MaxTotal \in Nat

VARIABLES
    upstream,      \* external: "sending", then "ended" or "broken"
    utf8,          \* external: whether the body it sends is UTF-8
    received,      \* history: bytes it has sent
    reader,        \* which of the two readers this response is given to
    state,         \* "reading"; "finished": the loop returned, State::Finished
    buf,           \* buf.len()
    truncated,
    done_emitted,
    item,          \* streaming: the item the last poll yielded
    result         \* what was returned, or the item that ended the stream

upstreamVars == <<upstream, utf8, received>>
readerVars ==
    <<upstreamVars, reader, state, buf, truncated, done_emitted, item, result>>

Nothing == [kind |-> "nothing"]
Progress(bytes) == [kind |-> "progress", bytes |-> bytes]
Err == [kind |-> "err"]

\* A body: bytes of the buffer, and the length of the string made of them.
Done(bytes, text) ==
    [kind |-> "body", bytes |-> bytes, text |-> text, truncated |-> truncated]

ReaderInit ==
    /\ upstream = "sending"
    /\ utf8 \in BOOLEAN
    /\ received = 0
    /\ reader \in {"buffered", "streaming"}
    /\ state = "reading"
    /\ buf = 0
    /\ truncated = FALSE
    /\ done_emitted = FALSE
    /\ item = Nothing
    /\ result = Nothing

-----------------------------------------------------------------------------
\* The upstream ends the body, or breaks it off.
UpstreamStops ==
    /\ upstream = "sending"
    /\ upstream' \in {"ended", "broken"}
    /\ UNCHANGED <<utf8, received, reader, state, buf, truncated, done_emitted, item, result>>

\* This reader asks for the next chunk of a body.
Polls(r) == reader = r /\ state = "reading" /\ ~done_emitted

\* A chunk of n bytes arrives for this reader.
Chunk(r, n) ==
    /\ Polls(r)
    /\ upstream = "sending"
    /\ received + n <= MaxTotal
    /\ received' = received + n
    /\ UNCHANGED <<upstream, utf8, reader, state, done_emitted, result>>

\* Mutant: the room left is not subtracted before the comparison.
BufferedChunkWhole(n) ==
    /\ Chunk("buffered", n)
    /\ IF buf >= Limit
       THEN truncated' = TRUE /\ UNCHANGED buf
       ELSE buf' = buf + n /\ UNCHANGED truncated
    /\ UNCHANGED item

\* Mutant: a chunk that is not smaller than the room left is dropped, not cut.
BufferedChunkDropped(n) ==
    /\ Chunk("buffered", n)
    /\ IF n >= Limit - buf
       THEN truncated' = TRUE /\ UNCHANGED buf
       ELSE buf' = buf + n /\ UNCHANGED truncated
    /\ UNCHANGED item

\* read_response_with_limit: the body of its while loop.
BufferedChunk(n) ==
    /\ Chunk("buffered", n)
    /\ IF buf >= Limit
       THEN truncated' = TRUE /\ UNCHANGED buf
       ELSE IF n > Limit - buf
       THEN buf' = Limit /\ truncated' = TRUE
       ELSE buf' = buf + n /\ UNCHANGED truncated
    /\ UNCHANGED item

\* Mutant: a chunk that is cut does not set the flag.
StreamedChunkUnflagged(n) ==
    /\ Chunk("streaming", n)
    /\ IF buf < Limit
       THEN /\ buf' = IF n > Limit - buf THEN Limit ELSE buf + n
            /\ UNCHANGED truncated
       ELSE truncated' = TRUE /\ UNCHANGED buf
    /\ item' = Progress(buf')

\* Mutant: progress counts what arrived, not what is kept.
StreamedChunkUncapped(n) ==
    /\ Chunk("streaming", n)
    /\ IF buf < Limit
       THEN /\ buf' = IF n > Limit - buf THEN Limit ELSE buf + n
            /\ truncated' = (truncated \/ n > Limit - buf)
       ELSE truncated' = TRUE /\ UNCHANGED buf
    /\ item' = Progress(received')

\* async_stream_body: one poll that finds a chunk.
StreamedChunk(n) ==
    /\ Chunk("streaming", n)
    /\ IF buf < Limit
       THEN /\ buf' = IF n > Limit - buf THEN Limit ELSE buf + n
            /\ truncated' = (truncated \/ n > Limit - buf)
       ELSE truncated' = TRUE /\ UNCHANGED buf
    /\ item' = Progress(buf')

-----------------------------------------------------------------------------
\* Mutant: every chunk is converted by itself, and a character two chunks
\* share becomes replacement characters.
LossyByChunk(n) == n .. 3 * n

\* The lengths String::from_utf8_lossy can give the first n bytes: what is not
\* UTF-8, up to three bytes of it, becomes U+FFFD, which has three.  The limit
\* may leave up to three bytes of a character.
Lossy(n) ==
    IF ~utf8 THEN n .. 3 * n
    ELSE IF n < received THEN {n} \cup {n + 3 - k : k \in (1 .. 3) \cap (1 .. n)}
    ELSE {n}

\* Ok((buf, truncated)), which read_body_with_limit converts.
BufferedEnd ==
    /\ Polls("buffered")
    /\ upstream = "ended"
    /\ state' = "finished"
    /\ \E text \in Lossy(buf) : result' = Done(buf, text)
    /\ UNCHANGED <<upstreamVars, reader, buf, truncated, done_emitted, item>>

\* Mutant: done_emitted is not set.
StreamedEndUnmarked ==
    /\ Polls("streaming")
    /\ upstream = "ended"
    /\ \E text \in Lossy(buf) : item' = Done(buf, text) /\ result' = Done(buf, text)
    /\ buf' = 0
    /\ UNCHANGED <<upstreamVars, reader, state, truncated, done_emitted>>

\* The stream stays in Reading, its buffer given away.
StreamedEnd ==
    /\ Polls("streaming")
    /\ upstream = "ended"
    /\ \E text \in Lossy(buf) : item' = Done(buf, text) /\ result' = Done(buf, text)
    /\ buf' = 0
    /\ done_emitted' = TRUE
    /\ UNCHANGED <<upstreamVars, reader, state, truncated>>

\* Mutant: the loop runs while there is an Ok chunk, and what was read before
\* a break is returned.
BufferedErrorAsEnd ==
    /\ Polls("buffered")
    /\ upstream = "broken"
    /\ state' = "finished"
    /\ \E text \in Lossy(buf) : result' = Done(buf, text)
    /\ UNCHANGED <<upstreamVars, reader, buf, truncated, done_emitted, item>>

\* `?` drops the buffer.
BufferedError ==
    /\ Polls("buffered")
    /\ upstream = "broken"
    /\ state' = "finished"
    /\ result' = Err
    /\ UNCHANGED <<upstreamVars, reader, buf, truncated, done_emitted, item>>

StreamedError ==
    /\ Polls("streaming")
    /\ upstream = "broken"
    /\ state' = "finished"
    /\ item' = Err /\ result' = Err
    /\ UNCHANGED <<upstreamVars, reader, buf, truncated, done_emitted>>

\* A poll after the last item.
PollAfterEnd ==
    /\ reader = "streaming"
    /\ state = "finished" \/ done_emitted
    /\ item' = Nothing
    /\ UNCHANGED <<upstreamVars, reader, state, buf, truncated, done_emitted, result>>

ReaderNext ==
    \/ UpstreamStops
    \/ \E n \in ChunkSize : BufferedChunk(n) \/ StreamedChunk(n)
    \/ BufferedEnd
    \/ StreamedEnd
    \/ BufferedError
    \/ StreamedError
    \/ PollAfterEnd

ReaderSpec == ReaderInit /\ [][ReaderNext]_readerVars

-----------------------------------------------------------------------------
(***************************************************************************)
(* Properties                                                              *)
(***************************************************************************)

BodyDone ==
    [kind : {"body"}, bytes : 0 .. Limit, text : 0 .. 3 * Limit, truncated : BOOLEAN]

\* Types; neither reader ever holds more than the limit, whatever arrives.
ReaderTypeOK ==
    /\ upstream \in {"sending", "ended", "broken"}
    /\ utf8 \in BOOLEAN
    /\ received \in Nat
    /\ reader \in {"buffered", "streaming"}
    /\ state \in {"reading", "finished"}
    /\ buf \in 0 .. Limit
    /\ truncated \in BOOLEAN
    /\ done_emitted \in BOOLEAN
    /\ item \in {Nothing, Err} \cup {Progress(b) : b \in 0 .. Limit} \cup BodyDone
    /\ result \in {Nothing, Err} \cup BodyDone

\* No byte is lost without the flag, and the bytes kept, and at last returned,
\* are the first ones that arrived: empty chunks may set the flag too early,
\* never too late.
NothingCutSilently ==
    LET kept == IF result.kind = "body" THEN result.bytes ELSE buf
        flag == IF result.kind = "body" THEN result.truncated ELSE truncated
    IN  /\ kept = IF received > Limit THEN Limit ELSE received
        /\ received > Limit => flag
        /\ flag => kept = Limit

\* Progress never goes back and never passes the limit, and tells the length
\* of the body that is finally reported: exactly, if that is UTF-8 and fits,
\* wherever the chunks cut its characters; if it is cut, the string may be
\* up to two bytes longer, and so longer than max_response_bytes.
ProgressTellsTheBody ==
    [][/\ item'.kind = "progress" =>
             item'.bytes <= Limit /\ (item.kind = "progress" => item'.bytes >= item.bytes)
       /\ item.kind = "progress" /\ item'.kind = "body" =>
             /\ item'.text >= item.bytes
             /\ utf8 => item'.text <= item.bytes + 2
             /\ utf8 /\ received <= Limit => item'.text = item.bytes]_readerVars

\* A stream ends once, however often it is polled after its end: nothing else
\* is ever yielded, and the emptied buffer never takes the place of the body.
EndsOnce ==
    [][result # Nothing => item' = Nothing /\ result' = result]_readerVars

Outcome ==
    CASE result.kind = "nothing" -> [kind |-> "reading"]
      [] result.kind = "body" ->
            [kind |-> "body", bytes |-> result.bytes, truncated |-> result.truncated]
      [] result.kind = "err" -> [kind |-> "failed"]

Promise == INSTANCE BodyRead WITH total <- received, outcome <- Outcome

\* Both readers keep the promise of BodyRead, hence agree with each other:
\* the outcome depends on nothing but what the upstream sent.
PromiseKept == Promise!Spec
================================================================================
