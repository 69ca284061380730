----------------------------- MODULE HttpCallProofs -----------------------------
(***************************************************************************)
(* Proofs about HttpCall, for any statuses, headers, limits and bodies:    *)
(* the guidance a caller is given agrees with itself and with what the     *)
(* upstream answered.                                                      *)
(*                                                                         *)
(* The two readers are proved about first: what the buffer, the flag and   *)
(* the items tell of a body of any length.  Then the functions of          *)
(* retry.rs, each as what it leaves in the error slot.  What a call adds   *)
(* is the order of things (Stages).                                        *)
(***************************************************************************)
EXTENDS HttpCall, TLAPS

(***************************************************************************)
(* The two readers of the body, each by itself                             *)
(***************************************************************************)

\* The string made of n bytes is no shorter, and at most three times as long;
\* of UTF-8 it is longer by two at most, and not at all if nothing was cut.
LEMMA LossyBounds ==
    ASSUME NEW n \in Nat, received \in Nat, NEW text \in Lossy(n)
    PROVE  /\ text \in Nat /\ text >= n /\ text <= 3 * n
           /\ utf8 => text <= n + 2
           /\ utf8 /\ n >= received => text = n
<1>1. CASE ~utf8
    BY <1>1 DEF Lossy
<1>2. CASE utf8 /\ n >= received
    BY <1>2 DEF Lossy
<1>3. CASE utf8 /\ n < received
    <2>1. text = n \/ \E k \in (1 .. 3) \cap (1 .. n) : text = n + 3 - k
        BY <1>3 DEF Lossy
    <2>2. ASSUME NEW k \in (1 .. 3) \cap (1 .. n), text = n + 3 - k
          PROVE  text \in Nat /\ text >= n /\ text <= n + 2 /\ text <= 3 * n
        <3>1. k \in 1 .. 3 /\ k <= n
            OBVIOUS
        <3> QED BY <2>2, <3>1
    <2> QED BY <1>3, <2>1, <2>2
<1> QED BY <1>1, <1>2, <1>3

\* So what is made of a buffer within the limit is a body of the right type.
LEMMA DoneType ==
    ASSUME ReaderTypeOK, NEW text \in Lossy(buf)
    PROVE  Done(buf, text) \in BodyDone
<1>1. buf \in 0 .. Limit /\ Limit \in Nat /\ received \in Nat /\ truncated \in BOOLEAN
    BY ReaderAssumption DEF ReaderTypeOK
<1>2. text \in Nat /\ text <= 3 * buf
    BY <1>1, LossyBounds
<1>3. text \in 0 .. 3 * Limit
    BY <1>1, <1>2
<1> QED BY <1>1, <1>3 DEF Done, BodyDone

\* Every step keeps the types; the buffer stays within the limit because a
\* chunk that does not fit is cut before it is appended.
LEMMA ReaderStepType == ReaderTypeOK /\ [ReaderNext]_readerVars => ReaderTypeOK'
<1> SUFFICES ASSUME ReaderTypeOK, [ReaderNext]_readerVars
             PROVE  ReaderTypeOK'
    OBVIOUS
<1> USE ReaderAssumption
<1>1. ASSUME NEW n \in ChunkSize, BufferedChunk(n)
      PROVE  ReaderTypeOK'
    <2>1. n \in Nat
        OBVIOUS
    <2>2. buf' \in 0 .. Limit
        BY <1>1, <2>1 DEF ReaderTypeOK, BufferedChunk
    <2>3. truncated' \in BOOLEAN
        BY <1>1, Zenon DEF ReaderTypeOK, BufferedChunk
    <2>4. /\ received' \in Nat
          /\ UNCHANGED <<upstream, utf8, reader, state, done_emitted, item, result>>
        BY <1>1, <2>1 DEF ReaderTypeOK, BufferedChunk, Chunk
    <2> QED BY <2>2, <2>3, <2>4 DEF ReaderTypeOK, BodyDone
<1>2. ASSUME NEW n \in ChunkSize, StreamedChunk(n)
      PROVE  ReaderTypeOK'
    <2>1. n \in Nat
        OBVIOUS
    <2>2. buf' \in 0 .. Limit
        BY <1>2, <2>1 DEF ReaderTypeOK, StreamedChunk
    <2>3. truncated' \in BOOLEAN
        BY <1>2 DEF ReaderTypeOK, StreamedChunk
    <2>4. item' \in {Progress(b) : b \in 0 .. Limit}
        BY <1>2, <2>2 DEF StreamedChunk
    <2>5. /\ received' \in Nat
          /\ UNCHANGED <<upstream, utf8, reader, state, done_emitted, result>>
        BY <1>2, <2>1 DEF ReaderTypeOK, StreamedChunk, Chunk
    <2> QED BY <2>2, <2>3, <2>4, <2>5 DEF ReaderTypeOK, BodyDone
<1>3. CASE BufferedEnd
    <2>1. result' \in BodyDone
        BY <1>3, DoneType DEF BufferedEnd
    <2> QED BY <1>3, <2>1 DEF ReaderTypeOK, BufferedEnd, BodyDone, upstreamVars
<1>4. CASE StreamedEnd
    <2>1. result' \in BodyDone /\ item' \in BodyDone
        BY <1>4, DoneType DEF StreamedEnd
    <2>2. buf' \in 0 .. Limit
        BY <1>4 DEF StreamedEnd
    <2> QED BY <1>4, <2>1, <2>2 DEF ReaderTypeOK, StreamedEnd, BodyDone, upstreamVars
<1>5. CASE BufferedError \/ StreamedError \/ PollAfterEnd \/ UpstreamStops
    BY <1>5
    DEF ReaderTypeOK, BufferedError, StreamedError, PollAfterEnd, UpstreamStops,
        BodyDone, upstreamVars
<1>6. CASE UNCHANGED readerVars
    BY <1>6 DEF ReaderTypeOK, readerVars, upstreamVars, BodyDone
<1> QED BY <1>1, <1>2, <1>3, <1>4, <1>5, <1>6 DEF ReaderNext

\* Neither reader ever buffers more than max_response_bytes.
THEOREM ReaderTypeCorrect == ReaderSpec => []ReaderTypeOK
<1>1. ReaderInit => ReaderTypeOK
    <2> SUFFICES ASSUME ReaderInit PROVE ReaderTypeOK
        OBVIOUS
    <2>1. buf \in 0 .. Limit /\ received \in Nat
        BY ReaderAssumption DEF ReaderInit
    <2>2. item = Nothing /\ result = Nothing /\ truncated = FALSE /\ done_emitted = FALSE
        BY DEF ReaderInit
    <2> QED BY <2>1, <2>2, Zenon DEF ReaderInit, ReaderTypeOK
<1> QED BY <1>1, ReaderStepType, PTL DEF ReaderSpec

-----------------------------------------------------------------------------
(***************************************************************************)
(* How a body ends, and what was yielded before                            *)
(***************************************************************************)

\* A reader returns once it has seen how the body ends, and tells just that,
\* with a string no shorter than the bytes it was made of; the last item of a stream that is still read is its buffer's length, and
\* after the end it is the end or nothing.
EndTells ==
    /\ result = Nothing <=> state = "reading" /\ ~done_emitted
    /\ result # Nothing => upstream # "sending"
    /\ result # Nothing => (result.kind = "err" <=> upstream = "broken")
    /\ result.kind = "nothing" => result = Nothing
    /\ result.kind = "body" => result.text >= result.bytes
    /\ reader = "buffered" => item = Nothing
    /\ result = Nothing => item = Nothing \/ item = Progress(buf)
    /\ result # Nothing => item = Nothing \/ item = result

\* Every step keeps EndTells.
LEMMA EndStep == ReaderTypeOK /\ EndTells /\ [ReaderNext]_readerVars => EndTells'
<1> SUFFICES ASSUME ReaderTypeOK, EndTells, [ReaderNext]_readerVars
             PROVE  EndTells'
    OBVIOUS
<1> USE DEF Nothing, Err, Done, Progress
<1>1. ASSUME NEW n \in ChunkSize, BufferedChunk(n)
      PROVE  EndTells'
    BY <1>1 DEF BufferedChunk, Chunk, Polls, EndTells
<1>2. ASSUME NEW n \in ChunkSize, StreamedChunk(n)
      PROVE  EndTells'
    BY <1>2 DEF StreamedChunk, Chunk, Polls, EndTells
<1>3. CASE BufferedEnd \/ StreamedEnd
    <2>1. PICK text \in Lossy(buf) : result' = Done(buf, text)
        BY <1>3 DEF BufferedEnd, StreamedEnd
    <2>2. text >= buf
        BY LossyBounds DEF ReaderTypeOK
    <2>3. result'.kind = "body" /\ result'.text >= result'.bytes /\ result' # Nothing
        BY <2>1, <2>2
    <2>4. CASE BufferedEnd
        BY <2>3, <2>4 DEF BufferedEnd, Polls, EndTells, upstreamVars
    <2>5. CASE StreamedEnd
        <3>1. item' = result'
            BY <2>5, Zenon DEF StreamedEnd
        <3> QED BY <2>3, <2>5, <3>1 DEF StreamedEnd, Polls, EndTells, upstreamVars
    <2> QED BY <1>3, <2>4, <2>5
<1>4. CASE BufferedError \/ StreamedError
    BY <1>4 DEF BufferedError, StreamedError, Polls, EndTells, upstreamVars
<1>5. CASE PollAfterEnd \/ UpstreamStops
    BY <1>5 DEF PollAfterEnd, UpstreamStops, EndTells, upstreamVars
<1>6. CASE UNCHANGED readerVars
    BY <1>6 DEF readerVars, upstreamVars, EndTells
<1> QED BY <1>1, <1>2, <1>3, <1>4, <1>5, <1>6 DEF ReaderNext

\* EndTells always holds.
THEOREM EndsTell == ReaderSpec => []EndTells
<1>1. ReaderInit => EndTells
    BY DEF ReaderInit, EndTells, Nothing
<1> QED BY <1>1, EndStep, ReaderTypeCorrect, PTL DEF ReaderSpec

\* A stream that has ended, with a body or with an error, yields no other item
\* for ever, however often it is polled (exec.rs:381-392, 428-434).
THEOREM StreamEndsOnce == ReaderSpec => EndsOnce
<1>1. EndTells /\ [ReaderNext]_readerVars
      => [result # Nothing => item' = Nothing /\ result' = result]_readerVars
    <2> SUFFICES ASSUME EndTells, ReaderNext, result # Nothing
                 PROVE  item' = Nothing /\ result' = result
        BY DEF Nothing
    <2>1. ~Polls("buffered") /\ ~Polls("streaming") /\ upstream # "sending"
        BY DEF EndTells, Polls
    <2>2. PollAfterEnd
        BY <2>1
        DEF ReaderNext, UpstreamStops, BufferedChunk, StreamedChunk, Chunk,
            BufferedEnd, StreamedEnd, BufferedError, StreamedError
    <2> QED BY <2>2 DEF PollAfterEnd
<1> QED BY <1>1, EndsTell, PTL DEF ReaderSpec, EndsOnce

-----------------------------------------------------------------------------
(***************************************************************************)
(* What is kept of a body, and what the flag says of it                    *)
(***************************************************************************)
Kept == IF result.kind = "body" THEN result.bytes ELSE buf
Flag == IF result.kind = "body" THEN result.truncated ELSE truncated

\* Both are of their types, whether the body is still read or returned.
LEMMA KeptType ==
    ASSUME ReaderTypeOK
    PROVE  Kept \in 0 .. Limit /\ Flag \in BOOLEAN
BY DEF ReaderTypeOK, BodyDone, Kept, Flag, Nothing, Err

\* A chunk of n bytes is appended up to the limit, and the flag is set if it
\* does not fit or finds the buffer full.
Appended(n) ==
    /\ received' = received + n
    /\ IF Kept >= Limit
       THEN Kept' = Kept /\ Flag' = TRUE
       ELSE IF n > Limit - Kept
       THEN Kept' = Limit /\ Flag' = TRUE
       ELSE Kept' = Kept + n /\ Flag' = Flag

\* The two loops do the same with a chunk, and all else they do leaves what is
\* kept and the flag alone: the end hands on what was read.
LEMMA KeptStep ==
    ASSUME ReaderTypeOK, EndTells, [ReaderNext]_readerVars
    PROVE  \/ \E n \in ChunkSize : Appended(n)
           \/ UNCHANGED <<Kept, Flag, received>>
<1> USE DEF Kept, Flag
<1>1. ASSUME NEW n \in ChunkSize, BufferedChunk(n) \/ StreamedChunk(n)
      PROVE  Appended(n)
    <2>1. /\ Limit \in Nat /\ n \in Nat /\ buf \in 0 .. Limit /\ truncated \in BOOLEAN
          /\ received' = received + n
        BY <1>1, ReaderAssumption DEF BufferedChunk, StreamedChunk, Chunk, ReaderTypeOK
    <2>2. result.kind # "body" /\ result' = result
        BY <1>1 DEF BufferedChunk, StreamedChunk, Chunk, Polls, EndTells, Nothing
    <2>3. CASE buf >= Limit
        <3>1. buf' = buf /\ truncated' = TRUE
            BY <1>1, <2>1, <2>3 DEF BufferedChunk, StreamedChunk
        <3> QED BY <2>1, <2>2, <2>3, <3>1 DEF Appended
    <2>4. CASE buf < Limit /\ n > Limit - buf
        <3>1. ~(buf >= Limit)
            BY <2>1, <2>4
        <3>2. buf' = Limit
            BY <1>1, <2>4, <3>1 DEF BufferedChunk, StreamedChunk
        <3>3. truncated' = TRUE
            BY <1>1, <2>4, <3>1, Zenon DEF BufferedChunk, StreamedChunk
        <3> QED BY <2>1, <2>2, <2>4, <3>1, <3>2, <3>3 DEF Appended
    <2>5. CASE buf < Limit /\ ~(n > Limit - buf)
        <3>1. ~(buf >= Limit)
            BY <2>1, <2>5
        <3>2. buf' = buf + n
            BY <1>1, <2>5, <3>1 DEF BufferedChunk, StreamedChunk
        <3>3. truncated' = truncated
            <4>1. CASE BufferedChunk(n)
                BY <2>5, <3>1, <4>1 DEF BufferedChunk
            <4>2. CASE StreamedChunk(n)
                BY <2>1, <2>5, <4>2 DEF StreamedChunk
            <4> QED BY <1>1, <4>1, <4>2
        <3> QED BY <2>1, <2>2, <2>5, <3>1, <3>2, <3>3 DEF Appended
    <2> QED BY <2>1, <2>3, <2>4, <2>5
<1>2. CASE BufferedEnd \/ StreamedEnd
    BY <1>2 DEF BufferedEnd, StreamedEnd, Polls, EndTells, Nothing, Done, upstreamVars
<1>3. CASE BufferedError \/ StreamedError
    BY <1>3 DEF BufferedError, StreamedError, Polls, EndTells, Nothing, Err, upstreamVars
<1>4. CASE PollAfterEnd \/ UpstreamStops
    BY <1>4 DEF PollAfterEnd, UpstreamStops, upstreamVars
<1>5. CASE UNCHANGED readerVars
    BY <1>5 DEF readerVars, upstreamVars
<1> QED BY <1>1, <1>2, <1>3, <1>4, <1>5 DEF ReaderNext

\* Neither reader loses a byte without saying so, whatever the chunks, empty
\* ones (exec.rs:266) included.
THEOREM NothingIsCutSilently == ReaderSpec => []NothingCutSilently
<1> USE ReaderAssumption
<1>1. ReaderInit => NothingCutSilently
    BY DEF ReaderInit, NothingCutSilently, Nothing
<1>2. /\ ReaderTypeOK /\ EndTells /\ NothingCutSilently /\ [ReaderNext]_readerVars
      => NothingCutSilently'
    <2> SUFFICES ASSUME ReaderTypeOK, EndTells, NothingCutSilently, [ReaderNext]_readerVars
                 PROVE  NothingCutSilently'
        OBVIOUS
    <2>1. /\ Kept = IF received > Limit THEN Limit ELSE received
          /\ received > Limit => Flag
          /\ Flag => Kept = Limit
        BY DEF NothingCutSilently, Kept, Flag
    <2>2. Kept \in 0 .. Limit /\ Flag \in BOOLEAN /\ received \in Nat
        BY KeptType DEF ReaderTypeOK
    <2>3. /\ Kept' = IF received' > Limit THEN Limit ELSE received'
          /\ received' > Limit => Flag'
          /\ Flag' => Kept' = Limit
        <3> HIDE DEF Kept, Flag
        <3>1. ASSUME NEW n \in ChunkSize, Appended(n)
              PROVE  /\ Kept' = IF received' > Limit THEN Limit ELSE received'
                     /\ received' > Limit => Flag'
                     /\ Flag' => Kept' = Limit
            BY <2>1, <2>2, <3>1 DEF Appended
        <3>2. CASE UNCHANGED <<Kept, Flag, received>>
            BY <2>1, <3>2
        <3> QED BY <3>1, <3>2, KeptStep
    <2> QED BY <2>3 DEF NothingCutSilently, Kept, Flag
<1> QED BY <1>1, <1>2, ReaderTypeCorrect, EndsTell, PTL DEF ReaderSpec

-----------------------------------------------------------------------------
\* What is kept and the flag say exactly what was sent.  A chunk of no bytes
\* is excluded: arriving at a full buffer it would set the flag.
Exact ==
    IF received > Limit
    THEN Kept = Limit /\ Flag = TRUE
    ELSE Kept = received /\ Flag = FALSE

\* Every step of either reader keeps the body and the flag exact.
LEMMA ReaderStepExact ==
    ASSUME 0 \notin ChunkSize
    PROVE  ReaderTypeOK /\ EndTells /\ Exact /\ [ReaderNext]_readerVars => Exact'
<1> SUFFICES ASSUME ReaderTypeOK, EndTells, Exact, [ReaderNext]_readerVars
             PROVE  Exact'
    OBVIOUS
<1>1. received \in Nat /\ Limit \in Nat
    BY ReaderAssumption DEF ReaderTypeOK
<1> HIDE DEF Kept, Flag
<1>2. ASSUME NEW n \in ChunkSize, Appended(n)
      PROVE  Exact'
    <2>1. n \in Nat \ {0}
        BY ReaderAssumption
    <2> QED BY <1>1, <1>2, <2>1 DEF Exact, Appended
<1>3. CASE UNCHANGED <<Kept, Flag, received>>
    BY <1>3 DEF Exact
<1> QED BY <1>2, <1>3, KeptStep

\* Every step of either reader is a step of BodyRead or invisible to it.
LEMMA ReaderStepRefines ==
    ReaderTypeOK /\ EndTells /\ Exact /\ [ReaderNext]_readerVars
    => [Promise!Receive \/ Promise!Finish \/ Promise!Fail]_(Promise!readVars)
<1> SUFFICES ASSUME ReaderTypeOK, EndTells, Exact, [ReaderNext]_readerVars
             PROVE  \/ Promise!Receive \/ Promise!Finish \/ Promise!Fail
                    \/ UNCHANGED Promise!readVars
    OBVIOUS
<1> USE ReaderAssumption
<1>1. ASSUME NEW n \in ChunkSize, BufferedChunk(n) \/ StreamedChunk(n)
      PROVE  Promise!Receive
    <2>1. n \in Nat /\ received' = received + n /\ result = Nothing /\ result' = result
        BY <1>1 DEF BufferedChunk, StreamedChunk, Chunk, Polls, EndTells
    <2>2. Outcome = Promise!Reading /\ Outcome' = Promise!Reading
        BY <2>1 DEF Outcome, Promise!Reading, Nothing
    <2> QED BY <2>1, <2>2 DEF Promise!Receive, ReaderTypeOK
<1>2. CASE BufferedEnd \/ StreamedEnd
    <2>1. result = Nothing /\ UNCHANGED received
        BY <1>2 DEF BufferedEnd, StreamedEnd, Polls, EndTells, upstreamVars
    <2>2. /\ result'.kind = "body"
          /\ result'.bytes = buf /\ result'.truncated = truncated
        BY <1>2 DEF BufferedEnd, StreamedEnd, Done
    <2>3. Outcome = Promise!Reading
        BY <2>1 DEF Outcome, Promise!Reading, Nothing
    <2>4. Outcome' = [kind |-> "body", bytes |-> buf, truncated |-> truncated]
        BY <2>2 DEF Outcome
    <2>5. IF received > Limit THEN buf = Limit /\ truncated = TRUE
                              ELSE buf = received /\ truncated = FALSE
        BY <2>1 DEF Exact, Kept, Flag, Nothing
    <2> QED BY <2>1, <2>3, <2>4, <2>5 DEF Promise!Finish, Promise!Body
<1>3. CASE BufferedError \/ StreamedError
    <2>1. result = Nothing /\ result' = Err /\ UNCHANGED received
        BY <1>3 DEF BufferedError, StreamedError, Polls, EndTells, upstreamVars
    <2>2. Outcome = Promise!Reading /\ Outcome' = Promise!Failed
        BY <2>1 DEF Outcome, Promise!Reading, Promise!Failed, Nothing, Err
    <2> QED BY <2>1, <2>2 DEF Promise!Fail
<1>4. CASE PollAfterEnd \/ UpstreamStops \/ UNCHANGED readerVars
    BY <1>4
    DEF PollAfterEnd, UpstreamStops, readerVars, upstreamVars, Promise!readVars, Outcome
<1> QED BY <1>1, <1>2, <1>3, <1>4 DEF ReaderNext

\* Both readers implement BodyRead: the first Limit bytes and whether there
\* were more, however the body was cut into chunks that are not empty.
THEOREM ReaderKeepsPromise ==
    ASSUME 0 \notin ChunkSize
    PROVE  ReaderSpec => PromiseKept
<1>1. ReaderInit => Exact /\ Promise!Init
    BY ReaderAssumption
    DEF ReaderInit, Exact, Kept, Flag, Nothing, Promise!Init, Promise!Reading, Outcome
<1>2. ReaderTypeOK /\ EndTells /\ Exact /\ [ReaderNext]_readerVars => Exact'
    BY ReaderStepExact
<1> QED
    BY <1>1, <1>2, ReaderStepRefines, ReaderTypeCorrect, EndsTell, PTL
       DEF ReaderSpec, PromiseKept, Promise!Spec

-----------------------------------------------------------------------------
\* A stream yields a progress that is its buffer's length, and a body only
\* when it ends, made of that buffer.
LEMMA ItemStep ==
    ASSUME ReaderTypeOK, EndTells, [ReaderNext]_readerVars
    PROVE  /\ item'.kind = "progress" =>
                 \/ UNCHANGED item
                 \/ item' = Progress(buf') /\ buf' >= buf /\ result = Nothing
           /\ item'.kind = "body" =>
                 \/ UNCHANGED item
                 \/ /\ result = Nothing /\ UNCHANGED upstreamVars
                    /\ \E text \in Lossy(buf) : item' = Done(buf, text)
<1> USE DEF Nothing, Progress, Done, Err
<1>1. ASSUME NEW n \in ChunkSize, StreamedChunk(n)
      PROVE  item' = Progress(buf') /\ buf' >= buf /\ result = Nothing
    <2>1. n \in Nat /\ buf \in 0 .. Limit /\ Limit \in Nat
        BY ReaderAssumption DEF ReaderTypeOK
    <2>2. buf' >= buf
        BY <1>1, <2>1 DEF StreamedChunk
    <2> QED BY <1>1, <2>2 DEF StreamedChunk, Chunk, Polls, EndTells
<1>2. CASE StreamedEnd
    BY <1>2 DEF StreamedEnd, Polls, EndTells
<1>3. CASE StreamedError \/ PollAfterEnd
    BY <1>3 DEF StreamedError, PollAfterEnd
<1>4. CASE UNCHANGED item
    BY <1>4
<1> QED
    BY <1>1, <1>2, <1>3, <1>4
    DEF ReaderNext, BufferedChunk, BufferedEnd, BufferedError, UpstreamStops, readerVars

\* Progress never goes back nor past the limit, and the last one is the length
\* of the body, or of all but the replacement of a character that was cut
\* (exec.rs:393-436).
THEOREM ProgressTells == ReaderSpec => ProgressTellsTheBody
<1>1. /\ ReaderTypeOK /\ ReaderTypeOK' /\ EndTells /\ NothingCutSilently
      /\ [ReaderNext]_readerVars
      => [/\ item'.kind = "progress" =>
               item'.bytes <= Limit /\ (item.kind = "progress" => item'.bytes >= item.bytes)
          /\ item.kind = "progress" /\ item'.kind = "body" =>
               /\ item'.text >= item.bytes
               /\ utf8 => item'.text <= item.bytes + 2
               /\ utf8 /\ received <= Limit => item'.text = item.bytes]_readerVars
    <2> SUFFICES ASSUME ReaderTypeOK, ReaderTypeOK', EndTells, NothingCutSilently,
                        [ReaderNext]_readerVars
                 PROVE  /\ item'.kind = "progress" =>
                             /\ item'.bytes <= Limit
                             /\ item.kind = "progress" => item'.bytes >= item.bytes
                        /\ item.kind = "progress" /\ item'.kind = "body" =>
                             /\ item'.text >= item.bytes
                             /\ utf8 => item'.text <= item.bytes + 2
                             /\ utf8 /\ received <= Limit => item'.text = item.bytes
        OBVIOUS
    <2>1. /\ buf \in 0 .. Limit /\ buf' \in 0 .. Limit /\ Limit \in Nat
          /\ received \in Nat
        BY ReaderAssumption DEF ReaderTypeOK
    <2>2. item.kind = "progress" => item.bytes \in 0 .. Limit
        BY DEF ReaderTypeOK, BodyDone, Nothing, Progress, Err
    <2>3. item.kind = "progress" /\ result = Nothing => item = Progress(buf)
        BY DEF EndTells, Nothing
    <2>4. ASSUME item'.kind = "progress"
          PROVE  /\ item'.bytes <= Limit
                 /\ item.kind = "progress" => item'.bytes >= item.bytes
        BY <2>1, <2>2, <2>3, <2>4, ItemStep DEF Progress
    <2>5. ASSUME item.kind = "progress", item'.kind = "body"
          PROVE  /\ item'.text >= item.bytes
                 /\ utf8 => item'.text <= item.bytes + 2
                 /\ utf8 /\ received <= Limit => item'.text = item.bytes
        <3>1. PICK text \in Lossy(buf) : item' = Done(buf, text)
            BY <2>5, ItemStep
        <3>2. item = Progress(buf)
            BY <2>3, <2>5, ItemStep
        <3>3. received <= Limit => buf = received
            BY <2>1, <2>5, ItemStep DEF NothingCutSilently, Nothing
        <3>4. /\ text >= buf
              /\ utf8 => text <= buf + 2
              /\ utf8 /\ buf >= received => text = buf
            BY <2>1, LossyBounds
        <3> QED BY <2>1, <3>1, <3>2, <3>3, <3>4 DEF Done, Progress
    <2> QED BY <2>4, <2>5
<1> QED
    BY <1>1, ReaderTypeCorrect, EndsTell, NothingIsCutSilently, PTL
    DEF ReaderSpec, ProgressTellsTheBody

-----------------------------------------------------------------------------
(***************************************************************************)
(* The functions of retry.rs                                               *)
(***************************************************************************)

\* An error as it is handed to with_retry_guidance.
Error ==
    [kind       : {"transport_error", "unexpected_status_code"},
     retryable  : BOOLEAN,
     class      : {"do_not_retry", "with_backoff", "after_delay"},
     retryAfter : Nat \cup {None},
     hint       : {"pending"},
     decision   : {"pending"},
     safety     : {"pending", "safe_for_automatic_retry"},
     backoff    : {"pending", "exponential_backoff"},
     minimum    : Nat \cup {None}]

Context == {"ReadOnlyProbe", "PotentiallyNonIdempotentJsonCall"}

\* What the callers of with_retry_guidance have decided before they call it.
Classified(e) ==
    /\ e.class \in {"do_not_retry", "with_backoff", "after_delay"}
    /\ e.retryable <=> e.class # "do_not_retry"
    /\ e.class = "after_delay" <=> e.retryable /\ e.retryAfter # None

\* with_retry_guidance keeps what was decided about the error.
LEMMA GuidanceKeeps ==
    ASSUME NEW e \in Error, NEW c \in Context
    PROVE  /\ with_retry_guidance(e, c).kind = e.kind
           /\ with_retry_guidance(e, c).retryable = e.retryable
           /\ with_retry_guidance(e, c).class = e.class
           /\ with_retry_guidance(e, c).retryAfter = e.retryAfter
BY DEF with_retry_guidance, NotRetryable, Retryable, Error

\* An error that is not retryable says so in every field.
LEMMA RefusedGuidance ==
    ASSUME NEW e \in Error, NEW c \in Context, ~e.retryable
    PROVE  /\ with_retry_guidance(e, c).hint = Hint(c)
           /\ with_retry_guidance(e, c).decision = "do_not_retry"
           /\ with_retry_guidance(e, c).safety = "do_not_retry"
           /\ with_retry_guidance(e, c).backoff = "no_retry"
           /\ with_retry_guidance(e, c).minimum = None
BY DEF with_retry_guidance, NotRetryable, Error

\* One that is retryable gets a delay, and a decision that depends on the
\* method.
LEMMA RetryableGuidance ==
    ASSUME NEW e \in Error, NEW c \in Context, e.retryable
    PROVE  /\ with_retry_guidance(e, c).hint = Hint(c)
           /\ with_retry_guidance(e, c).decision =
                IF c = "ReadOnlyProbe"
                THEN IF e.retryAfter # None THEN "automatic_retry_after_delay"
                                            ELSE "automatic_retry_with_backoff"
                ELSE IF e.retryAfter # None
                     THEN "confirm_idempotency_then_retry_after_delay"
                     ELSE "confirm_idempotency_then_retry_with_backoff"
           /\ with_retry_guidance(e, c).safety =
                IF c = "ReadOnlyProbe" THEN "safe_for_automatic_retry"
                                       ELSE "review_idempotency_before_retry"
           /\ with_retry_guidance(e, c).backoff =
                IF e.retryAfter # None THEN "respect_retry_after"
                                       ELSE "exponential_backoff"
           /\ with_retry_guidance(e, c).minimum =
                IF e.retryAfter # None THEN e.retryAfter ELSE DefaultBackoff
BY DEF with_retry_guidance, Retryable, Error

\* With its guidance a classified error agrees with itself.
LEMMA GuidedAgrees ==
    ASSUME NEW e \in Error, NEW c \in Context, Classified(e),
           error' = with_retry_guidance(e, c)
    PROVE  GuidanceAgrees'
<1> USE GuidanceAssumption DEF GuidanceAgrees, Classified, Automatic, AfterDelay, Hint
<1>1. /\ error'.retryable = e.retryable
      /\ error'.class = e.class
      /\ error'.retryAfter = e.retryAfter
      /\ e.retryable \in BOOLEAN
    BY GuidanceKeeps DEF Error
<1>2. CASE ~e.retryable
    BY <1>1, <1>2, RefusedGuidance DEF Context
<1>3. CASE e.retryable
    BY <1>1, <1>3, RetryableGuidance DEF Context
<1> QED BY <1>1, <1>2, <1>3

-----------------------------------------------------------------------------
\* The classification of a transport error: retryable, with backoff.
LEMMA TransportClassified ==
    /\ TransportPending \in Error
    /\ Classified(TransportPending)
    /\ TransportPending.kind = "transport_error"
    /\ TransportPending.retryable = TRUE
    /\ TransportPending.retryAfter = None
<1> DEFINE p == Pending("transport_error", TRUE, "with_backoff", None)
<1>1. p \in Error
    BY DEF Pending, Error
<1>2. /\ p.retryable = TRUE /\ p.class = "with_backoff" /\ p.retryAfter = None
      /\ p.kind = "transport_error"
    BY DEF Pending
<1>3. TransportPending =
         [p EXCEPT !.safety = "safe_for_automatic_retry",
                   !.backoff = "exponential_backoff",
                   !.minimum = DefaultBackoff]
    BY DEF TransportPending
<1> HIDE DEF p
<1>4. TransportPending \in Error
    BY <1>1, <1>3, GuidanceAssumption DEF Error
<1>5. /\ TransportPending.retryable = TRUE /\ TransportPending.class = "with_backoff"
      /\ TransportPending.retryAfter = None
      /\ TransportPending.kind = "transport_error"
    BY <1>1, <1>2, <1>3 DEF Error
<1>6. Classified(TransportPending)
    BY <1>5 DEF Classified
<1> QED BY <1>4, <1>5, <1>6

\* The classification of a status: the server's fault, or too many requests,
\* is retryable.
LEMMA StatusClassified ==
    ASSUME NEW status \in Nat, NEW after \in Nat \cup {None}, NEW c \in Context,
           validate_expected_status_codes(status, after, c) # None
    PROVE  \E e \in Error :
              /\ Classified(e)
              /\ e.kind = "unexpected_status_code"
              /\ e.retryAfter = after
              /\ validate_expected_status_codes(status, after, c) = with_retry_guidance(e, c)
<1> DEFINE retryable == status = 429 \/ status >= 500
           class == IF ~retryable THEN "do_not_retry"
                    ELSE IF after # None THEN "after_delay" ELSE "with_backoff"
           e == Pending("unexpected_status_code", retryable, class, after)
<1>1. retryable \in BOOLEAN
    BY Zenon
<1>2. class \in {"do_not_retry", "with_backoff", "after_delay"}
    BY Zenon
<1>3. validate_expected_status_codes(status, after, c) = with_retry_guidance(e, c)
    BY DEF validate_expected_status_codes
<1>4. Classified(e)
    <2>1. e.retryable = retryable /\ e.class = class /\ e.retryAfter = after
        BY DEF Pending
    <2>2. /\ retryable <=> class # "do_not_retry"
          /\ class = "after_delay" <=> retryable /\ after # None
        OBVIOUS
    <2> HIDE DEF retryable, class, e
    <2> QED BY <1>2, <2>1, <2>2 DEF Classified
<1> HIDE DEF retryable, class
<1>5. e \in Error /\ e.kind = "unexpected_status_code" /\ e.retryAfter = after
    BY <1>1, <1>2 DEF Pending, Error
<1> HIDE DEF e
<1> QED BY <1>3, <1>4, <1>5

\* A Retry-After header is a multiple of a second, or nothing.
LEMMA RetryAfterShape ==
    ASSUME NEW h \in RetryAfterHeader
    PROVE  /\ parse_retry_after_ms(h) \in Nat \cup {None}
           /\ parse_retry_after_ms(h) # None =>
                 h \in Seconds /\ parse_retry_after_ms(h) = h * 1000
<1>1. h \in Seconds => h * 1000 \in Nat /\ h * 1000 # None
    BY GuidanceAssumption
<1> QED BY <1>1 DEF parse_retry_after_ms

\* What is wrong with a body is the upstream's fault: not retryable, whole.
LEMMA JsonErrorAgrees ==
    ASSUME NEW kind, error' = JsonError(kind)
    PROVE  GuidanceAgrees'
BY GuidanceAssumption DEF GuidanceAgrees, JsonError, Automatic, AfterDelay

-----------------------------------------------------------------------------
\* A call reads its body as BodyReader does, and nothing else touches it.
THEOREM CallReads == CallSpec => ReaderSpec
<1>1. CallInit => ReaderInit
    BY DEF CallInit
<1>2. [CallNext]_callVars => [ReaderNext]_readerVars
    BY DEF CallNext, HeadersRead, SendFails, BodyStep, BodyFails, StatusValidated,
        BodyValidated, callVars
<1> QED BY <1>1, <1>2, PTL DEF CallSpec, ReaderSpec

\* The order of things: no body before an answer, no error before an answer
\* or a failure, and an answer that stays what it was.
Stages ==
    /\ mode \in HttpCallMode
    /\ stage \in {"sent", "answered", "shaped"}
    /\ stage = "sent" => response = None /\ result = Nothing /\ upstream = "sending"
    /\ stage = "answered" => response \in Response
    /\ stage # "shaped" => error = None

\* What the three kinds of error say of the answer.
Reported ==
    /\ TransportMeansIncomplete
    /\ error # None /\ error.kind \in {"invalid_json_body", "invalid_content_type"} =>
          /\ result.kind = "body"
          /\ \/ ~is_json_content_type(response.contentType)
             \/ ~response.parses
             \/ ~utf8
             \/ result.text = 0
             \/ result.bytes < received

CallInv ==
    /\ Stages
    /\ Reported
    /\ GuidanceAgrees
    /\ PostNeverRetriedBlindly
    /\ DelayAsAsked

\* The first state satisfies the invariant: there is no error yet.
LEMMA CallInitInv == CallInit => CallInv
BY DEF CallInit, GuidanceInit, ReaderInit, CallInv, Stages, Reported,
    TransportMeansIncomplete, GuidanceAgrees, PostNeverRetriedBlindly, DelayAsAsked

\* Every step that sets the error slot leaves the rest to what it sets.
LEMMA ShapeInv ==
    ASSUME CallInv, NEW e, Shape(e), UNCHANGED readerVars,
           GuidanceAgrees', PostNeverRetriedBlindly', DelayAsAsked', Reported'
    PROVE  CallInv'
BY DEF CallInv, Stages, Shape

\* The context is one of the two, and that of a POST is never a probe's.
LEMMA ContextShape ==
    ASSUME Stages
    PROVE  /\ context \in Context
           /\ mode = "JsonBody" => context = "PotentiallyNonIdempotentJsonCall"
BY DEF Stages, context, retry_safety_context, HttpCallMode, Context

\* A transport error: no answer, or one that broke off.
LEMMA TransportInv ==
    ASSUME CallInv, Shape(transport_downstream_error(context)), UNCHANGED readerVars,
           response = None \/ upstream = "broken"
    PROVE  CallInv'
<1> DEFINE e == TransportPending
<1>1. /\ e \in Error /\ Classified(e) /\ context \in Context
      /\ e.kind = "transport_error" /\ e.retryable /\ e.retryAfter = None
    BY TransportClassified, ContextShape DEF CallInv
<1>2. /\ error' = with_retry_guidance(e, context)
      /\ UNCHANGED <<mode, response, upstream>>
    BY DEF Shape, transport_downstream_error, readerVars, upstreamVars
<1> HIDE DEF e
<1>3. error'.kind = "transport_error" /\ error'.retryAfter = None
    BY <1>1, <1>2, GuidanceKeeps
<1>4. GuidanceAgrees'
    BY <1>1, <1>2, GuidedAgrees
<1>5. PostNeverRetriedBlindly'
    BY <1>1, <1>2, RetryableGuidance, ContextShape
    DEF CallInv, PostNeverRetriedBlindly, Automatic
<1>6. DelayAsAsked' /\ Reported'
    BY <1>2, <1>3 DEF DelayAsAsked, Reported, TransportMeansIncomplete
<1> QED BY <1>4, <1>5, <1>6, ShapeInv

\* An unexpected status: the call was answered whole.
LEMMA StatusInv ==
    ASSUME CallInv, EndTells, StatusValidated
    PROVE  CallInv'
<1> DEFINE after == parse_retry_after_ms(response.header)
           e == validate_expected_status_codes(response.status, after, context)
<1>1. /\ error' = e
      /\ UNCHANGED <<mode, response, upstream>>
      /\ response \in Response /\ upstream # "broken" /\ response # None
    BY CallAssumption
    DEF StatusValidated, Summarized, Summary, Shape, readerVars, upstreamVars, CallInv,
        Stages, EndTells, Nothing
<1>2. CASE e = None
    BY <1>1, <1>2, ShapeInv
    DEF StatusValidated, GuidanceAgrees, PostNeverRetriedBlindly, DelayAsAsked,
        Reported, TransportMeansIncomplete
<1>3. CASE e # None
    <2>1. /\ response.status \in Nat /\ after \in Nat \cup {None}
          /\ after # None => response.header \in Seconds /\ after = response.header * 1000
        <3>1. response.status \in Status /\ response.header \in RetryAfterHeader
            BY <1>1 DEF Response
        <3>2. /\ after \in Nat \cup {None}
              /\ after # None =>
                    response.header \in Seconds /\ after = response.header * 1000
            BY <3>1, RetryAfterShape
        <3> QED BY <3>1, <3>2, GuidanceAssumption
    <2>2. context \in Context
        BY ContextShape DEF CallInv
    <2> HIDE DEF after
    <2>3. PICK f \in Error :
             /\ Classified(f)
             /\ f.kind = "unexpected_status_code"
             /\ f.retryAfter = after
             /\ e = with_retry_guidance(f, context)
        BY <1>3, <2>1, <2>2, StatusClassified
    <2> HIDE DEF e
    <2>4. error'.kind = "unexpected_status_code" /\ error'.retryAfter = after
        BY <1>1, <2>2, <2>3, GuidanceKeeps
    <2>5. GuidanceAgrees'
        BY <1>1, <2>2, <2>3, GuidedAgrees
    <2>6. PostNeverRetriedBlindly'
        BY <1>1, <2>2, <2>3, RefusedGuidance, RetryableGuidance, ContextShape
        DEF CallInv, PostNeverRetriedBlindly, Automatic, Error
    <2>7. DelayAsAsked'
        BY <1>1, <2>1, <2>4 DEF DelayAsAsked
    <2>8. Reported'
        BY <1>1, <2>4 DEF Reported, TransportMeansIncomplete
    <2> QED BY <2>5, <2>6, <2>7, <2>8, ShapeInv DEF StatusValidated
<1> QED BY <1>2, <1>3

\* A body that is not the JSON it had to be: of what was kept, not of what
\* was sent.
LEMMA BodyInv ==
    ASSUME CallInv, EndTells, BodyValidated
    PROVE  CallInv'
<1>1. PICK p \in Parses :
         Shape(parse_and_validate_json_response([response EXCEPT !.parses = p]))
    BY DEF BodyValidated
<1> DEFINE r == [response EXCEPT !.parses = p]
           e == parse_and_validate_json_response(r)
<1>2. /\ error' = e
      /\ UNCHANGED <<mode, response, upstream, utf8, received, result>>
      /\ response \in Response /\ response # None
      /\ result.kind = "body" /\ upstream # "broken"
    BY <1>1, CallAssumption
    DEF BodyValidated, Summarized, Shape, readerVars, upstreamVars, CallInv, Stages,
        EndTells, Nothing
<1>3. r.contentType = response.contentType /\ r.parses = p
    BY <1>2 DEF Response
<1> HIDE DEF r
<1>4. CASE e = None
    BY <1>1, <1>2, <1>4, ShapeInv
    DEF BodyValidated, GuidanceAgrees, PostNeverRetriedBlindly, DelayAsAsked,
        Reported, TransportMeansIncomplete
<1>5. CASE e # None
    <2>1. PICK kind \in {"invalid_json_body", "invalid_content_type"} :
             e = JsonError(kind) /\ ~(is_json_content_type(r.contentType) /\ r.parses)
        BY <1>5 DEF parse_and_validate_json_response
    <2>2. GuidanceAgrees'
        BY <1>2, <2>1, JsonErrorAgrees
    <2>3. PostNeverRetriedBlindly' /\ DelayAsAsked'
        BY <1>2, <2>1 DEF PostNeverRetriedBlindly, DelayAsAsked, JsonError, Automatic
    <2>4. Reported'
        <3>1. error'.kind # "transport_error"
            BY <1>2, <2>1 DEF JsonError
        <3>2. TransportMeansIncomplete'
            BY <1>2, <3>1 DEF TransportMeansIncomplete
        <3>3. \/ ~is_json_content_type(response.contentType)
              \/ ~response.parses \/ ~utf8
              \/ result.text = 0 \/ result.bytes < received
            BY <1>3, <2>1 DEF Parses, Summary
        <3> QED BY <1>2, <3>2, <3>3 DEF Reported
    <2> QED BY <1>1, <2>2, <2>3, <2>4, ShapeInv DEF BodyValidated
<1> QED BY <1>4, <1>5

\* Every step keeps the invariant.
LEMMA CallStepInv == CallInv /\ EndTells /\ [CallNext]_callVars => CallInv'
<1> SUFFICES ASSUME CallInv, EndTells, [CallNext]_callVars
             PROVE  CallInv'
    OBVIOUS
<1>1. CASE HeadersRead
    BY <1>1 DEF HeadersRead, Answered, readerVars, upstreamVars, CallInv, Stages, Reported,
        TransportMeansIncomplete, GuidanceAgrees, PostNeverRetriedBlindly, DelayAsAsked
<1>2. CASE SendFails
    BY <1>2, TransportInv DEF SendFails, TransportFailed, context, CallInv, Stages
<1>3. CASE BodyStep
    BY <1>3 DEF BodyStep, guidanceVars, CallInv, Stages, Reported,
        TransportMeansIncomplete, GuidanceAgrees, PostNeverRetriedBlindly, DelayAsAsked
<1>4. CASE BodyFails
    <2>1. upstream = "broken"
        BY <1>4 DEF BodyFails, EndTells, Nothing
    <2> QED BY <1>4, <2>1, TransportInv DEF BodyFails
<1>5. CASE StatusValidated
    BY <1>5, StatusInv
<1>6. CASE BodyValidated
    BY <1>6, BodyInv
<1>7. CASE UNCHANGED callVars
    BY <1>7 DEF callVars, guidanceVars, readerVars, upstreamVars, CallInv, Stages,
        Reported, TransportMeansIncomplete, GuidanceAgrees, PostNeverRetriedBlindly,
        DelayAsAsked
<1> QED BY <1>1, <1>2, <1>3, <1>4, <1>5, <1>6, <1>7 DEF CallNext

\* The invariant holds in every reachable state.
THEOREM CallInvariance == CallSpec => []CallInv
BY CallInitInv, CallStepInv, CallReads, EndsTell, PTL DEF CallSpec

-----------------------------------------------------------------------------
\* The fields of downstreamError never contradict each other and none is
\* left pending: with_retry_guidance and its callers in retry.rs.
THEOREM GuidanceAgreesAlways == CallSpec => []GuidanceAgrees
<1>1. CallInv => GuidanceAgrees
    BY DEF CallInv
<1> QED BY <1>1, CallInvariance, PTL

\* No POST is reported as safe to repeat without looking.
THEOREM PostsAreReviewed == CallSpec => []PostNeverRetriedBlindly
<1>1. CallInv => PostNeverRetriedBlindly
    BY DEF CallInv
<1> QED BY <1>1, CallInvariance, PTL

\* A delay is one the upstream asked for, to the millisecond.
THEOREM DelaysAreAsked == CallSpec => []DelayAsAsked
<1>1. CallInv => DelayAsAsked
    BY DEF CallInv
<1> QED BY <1>1, CallInvariance, PTL

\* transport_error exactly when the answer did not arrive whole, which the
\* upstream decides and the readers report (exec.rs:206-209, 222, 265, 420).
THEOREM TransportErrorsAreIncomplete == CallSpec => []TransportMeansIncomplete
<1>1. CallInv => TransportMeansIncomplete
    BY DEF CallInv, Reported
<1> QED BY <1>1, CallInvariance, PTL

\* A JSON document that fits is accepted by either reader, however it is cut
\* into chunks, empty ones included: no byte of it is lost.
THEOREM WholeJsonIsAccepted == CallSpec => []WholeJsonAccepted
<1>1. CallInv /\ ReaderTypeOK /\ EndTells /\ NothingCutSilently => WholeJsonAccepted
    <2> SUFFICES ASSUME CallInv, ReaderTypeOK, EndTells, NothingCutSilently,
                        error # None,
                        error.kind \in {"invalid_json_body", "invalid_content_type"},
                        is_json_content_type(response.contentType),
                        response.parses, utf8
                 PROVE  received = 0 \/ received > Limit
        BY DEF WholeJsonAccepted
    <2>1. result.kind = "body" /\ (result.text = 0 \/ result.bytes < received)
        BY DEF CallInv, Reported
    <2>2. /\ result.bytes = IF received > Limit THEN Limit ELSE received
          /\ result.text >= result.bytes
        BY <2>1 DEF NothingCutSilently, EndTells
    <2>3. received \in Nat /\ Limit \in Nat
        BY ReaderAssumption DEF ReaderTypeOK
    <2> QED BY <2>1, <2>2, <2>3
<1> QED
    BY <1>1, CallInvariance, CallReads, ReaderTypeCorrect, EndsTell,
       NothingIsCutSilently, PTL

\* The body a call reports, by either reader, is the one BodyRead promises.
THEOREM CallKeepsPromise ==
    ASSUME 0 \notin ChunkSize
    PROVE  CallSpec => PromiseKept
BY CallReads, ReaderKeepsPromise, PTL
=============================================================================
