-------------------------------- MODULE HttpCall --------------------------------
(***************************************************************************)
(* One HTTP call from send() to its downstreamError: execute_http_call, or *)
(* start_http_call_streaming with read_body_streaming and                  *)
(* finalize_http_summary (src/src/exec.rs), and then the functions of      *)
(* src/src/retry.rs on the summary.  BodyReader reads the body,            *)
(* RetryGuidance shapes the error; what joins them is the summary.         *)
(*                                                                         *)
(* Which function a plugin asks first is external: of those that apply,    *)
(* any.  response.parses says whether the text the upstream sends is JSON; *)
(* what is parsed is the string made of the part of it that was kept.      *)
(***************************************************************************)
EXTENDS BodyReader, RetryGuidance

ASSUME CallAssumption == None \notin Response

callVars == <<readerVars, guidanceVars>>

context == retry_safety_context(mode)

CallInit == ReaderInit /\ GuidanceInit

\* send() returns a response; its headers are read before the body.
HeadersRead ==
    /\ Answered
    /\ UNCHANGED readerVars

\* send() fails.
SendFails ==
    /\ TransportFailed
    /\ UNCHANGED readerVars

BodyStep ==
    /\ stage = "answered"
    /\ ReaderNext
    /\ UNCHANGED guidanceVars

\* Reading the body fails after the status is known: the call is an Err
\* like any other, and the status is lost.
BodyFails ==
    /\ stage = "answered" /\ result.kind = "err"
    /\ Shape(transport_downstream_error(context))
    /\ UNCHANGED readerVars

\* HttpResponseSummary, the same for both readers.
Summary ==
    [status       |-> response.status,
     contentType  |-> response.contentType,
     retryAfter   |-> parse_retry_after_ms(response.header),
     body         |-> result.text,
     truncated    |-> result.truncated]

Summarized == stage = "answered" /\ result.kind = "body"

StatusValidated ==
    /\ Summarized
    /\ Shape(validate_expected_status_codes(Summary.status, Summary.retryAfter, context))
    /\ UNCHANGED readerVars

\* Whether the string that was kept is JSON.  Nothing is not.  Of a document
\* that lost bytes, some are, as may be one whose bytes were replaced.
Parses ==
    IF Summary.body = 0 THEN {FALSE}
    ELSE IF result.bytes < received \/ ~utf8 THEN BOOLEAN
    ELSE {response.parses}

\* body_truncated is not looked at.
BodyValidated ==
    /\ Summarized
    /\ \E p \in Parses : Shape(parse_and_validate_json_response([response EXCEPT !.parses = p]))
    /\ UNCHANGED readerVars

CallNext ==
    \/ HeadersRead
    \/ SendFails
    \/ BodyStep
    \/ BodyFails
    \/ StatusValidated
    \/ BodyValidated

CallSpec == CallInit /\ [][CallNext]_callVars

-----------------------------------------------------------------------------
(***************************************************************************)
(* Properties                                                              *)
(***************************************************************************)

\* A call whose answer arrived whole is never reported as a transport error,
\* for which a repeat is worth considering, and a call whose upstream broke
\* off, before the answer or within the body, is never judged by what it had
\* received.
TransportMeansIncomplete ==
    error # None =>
        (error.kind = "transport_error" <=> response = None \/ upstream = "broken")

\* A JSON document of at most max_response_bytes that was declared as one is
\* never refused, however it and its characters were cut into chunks, by
\* either reader, up to the byte that just fits.
WholeJsonAccepted ==
    error # None /\ error.kind \in {"invalid_json_body", "invalid_content_type"} =>
        \/ ~is_json_content_type(response.contentType)
        \/ ~response.parses \/ ~utf8
        \/ received = 0
        \/ received > Limit
================================================================================
