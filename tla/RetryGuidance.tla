------------------------------ MODULE RetryGuidance ------------------------------
(***************************************************************************)
(* The downstreamError slot of src/src/retry.rs: how a transport failure,  *)
(* an unexpected status or a body that is not the JSON it had to be turns  *)
(* into the retry guidance a caller acts on, with the Retry-After header   *)
(* read by src/src/exec.rs.                                                *)
(*                                                                         *)
(* The answer to one call, its headers and the functions that classify the *)
(* outcome; HttpCall adds the body and puts them in order.  Messages,      *)
(* codes and details are left out.                                         *)
(***************************************************************************)
EXTENDS Naturals

CONSTANTS
    Status,         \* status codes an upstream answers with
    Expected,       \* expected_status_codes of the profile
    Seconds,        \* values of a Retry-After header in seconds
    MaxMs,          \* bound: u64::MAX, scaled down to what TLC can reach
    DefaultBackoff, \* DEFAULT_BACKOFF_BASE_MS
    HttpDate,       \* a Retry-After header that is a date
    None            \* Option::None

ASSUME GuidanceAssumption ==
    /\ Status \subseteq Nat
    /\ Seconds \subseteq Nat
    /\ MaxMs \in Nat
    /\ DefaultBackoff \in Nat
    /\ None \notin Nat

VARIABLES
    mode,      \* HttpCallMode of the binding
    required,  \* require_json_response
    stage,     \* "sent", "answered", "shaped"
    response,  \* what the upstream answered
    error      \* the downstreamError slot, or None

guidanceVars == <<mode, required, stage, response, error>>

HttpCallMode == {"JsonBody", "QueryString"}

retry_safety_context(m) ==
    IF m = "JsonBody" THEN "PotentiallyNonIdempotentJsonCall" ELSE "ReadOnlyProbe"

-----------------------------------------------------------------------------
\* A Retry-After header: absent, an HTTP date, or seconds.
RetryAfterHeader == {None, HttpDate} \cup Seconds

\* Mutant: the multiplication wraps.
wrapping_retry_after_ms(h) ==
    IF h \in Seconds THEN (h * 1000) % (MaxMs + 1) ELSE None

\* parse::<u64>() then checked_mul(1_000): a date is no number, and what does
\* not fit is dropped.
parse_retry_after_ms(h) ==
    IF h \in Seconds /\ h * 1000 <= MaxMs THEN h * 1000 ELSE None

\* media_type == "application/json" or it ends with "+json".
ContentType == {None, "application/json", "application/problem+json", "text/html"}

is_json_content_type(t) == t \in {"application/json", "application/problem+json"}

Response ==
    [status : Status, header : RetryAfterHeader, contentType : ContentType,
     parses : BOOLEAN]

-----------------------------------------------------------------------------
Hint(context) ==
    IF context = "ReadOnlyProbe"
    THEN "idempotent_read_only"
    ELSE "potentially_non_idempotent"

\* Mutant: the early return sets the hint and leaves what is still pending.
NotRetryableHintOnly(e, hint) == [e EXCEPT !.hint = hint]

NotRetryable(e, hint) ==
    [e EXCEPT !.hint = hint,
              !.decision = "do_not_retry",
              !.safety = "do_not_retry",
              !.backoff = "no_retry",
              !.minimum = None]

Retryable(e, hint, decision, safety) ==
    [e EXCEPT !.hint = hint,
              !.decision = decision,
              !.safety = safety,
              !.backoff = IF e.retryAfter # None THEN "respect_retry_after"
                                                 ELSE "exponential_backoff",
              !.minimum = IF e.retryAfter # None THEN e.retryAfter
                                                 ELSE DefaultBackoff]

with_retry_guidance(e, context) ==
    LET delayed == e.retryAfter # None
        hint == Hint(context)
    IN  IF ~e.retryable THEN NotRetryable(e, hint)
        ELSE IF context = "ReadOnlyProbe"
        THEN Retryable(e, hint,
                IF delayed THEN "automatic_retry_after_delay"
                           ELSE "automatic_retry_with_backoff",
                "safe_for_automatic_retry")
        ELSE Retryable(e, hint,
                IF delayed THEN "confirm_idempotency_then_retry_after_delay"
                           ELSE "confirm_idempotency_then_retry_with_backoff",
                "review_idempotency_before_retry")

\* An error that no guidance was worked out for yet.
Pending(kind, retryable, class, after) ==
    [kind |-> kind, retryable |-> retryable, class |-> class, retryAfter |-> after,
     hint |-> "pending", decision |-> "pending", safety |-> "pending",
     backoff |-> "pending", minimum |-> None]

\* Transport errors start out with the guidance of a probe.
TransportPending ==
    [Pending("transport_error", TRUE, "with_backoff", None) EXCEPT
        !.safety = "safe_for_automatic_retry",
        !.backoff = "exponential_backoff",
        !.minimum = DefaultBackoff]

\* Mutant: a transport error is returned before its guidance is worked out.
bare_transport_error(context) == TransportPending

transport_downstream_error(context) == with_retry_guidance(TransportPending, context)

validate_expected_status_codes(status, after, context) ==
    LET retryable == status = 429 \/ status >= 500
        class == IF ~retryable THEN "do_not_retry"
                 ELSE IF after # None THEN "after_delay" ELSE "with_backoff"
    IN  IF status \in Expected
        THEN None
        ELSE with_retry_guidance(
                Pending("unexpected_status_code", retryable, class, after), context)

\* json_content_type_downstream_error and json_body_downstream_error: the
\* same guidance, for every method.
JsonError(kind) ==
    [kind |-> kind, retryable |-> FALSE, class |-> "do_not_retry",
     retryAfter |-> None, hint |-> "potentially_non_idempotent",
     decision |-> "do_not_retry", safety |-> "do_not_retry",
     backoff |-> "no_retry", minimum |-> None]

\* The third component of its result.
parse_and_validate_json_response(r) ==
    IF ~required \/ (is_json_content_type(r.contentType) /\ r.parses)
    THEN None
    ELSE IF ~is_json_content_type(r.contentType)
    THEN JsonError("invalid_content_type")
    ELSE JsonError("invalid_json_body")

-----------------------------------------------------------------------------
GuidanceInit ==
    /\ mode \in HttpCallMode
    /\ required \in BOOLEAN
    /\ stage = "sent"
    /\ response = None
    /\ error = None

Answered ==
    /\ stage = "sent"
    /\ stage' = "answered"
    /\ response' \in Response
    /\ UNCHANGED <<mode, required, error>>

Shape(e) ==
    /\ stage' = "shaped"
    /\ error' = e
    /\ UNCHANGED <<mode, required, response>>

TransportFailed ==
    /\ stage = "sent"
    /\ Shape(transport_downstream_error(retry_safety_context(mode)))

-----------------------------------------------------------------------------
(***************************************************************************)
(* Properties                                                              *)
(***************************************************************************)

Automatic == {"automatic_retry_after_delay", "automatic_retry_with_backoff"}
AfterDelay == {"automatic_retry_after_delay", "confirm_idempotency_then_retry_after_delay"}

\* Nothing tells a caller to repeat a POST without looking, although a
\* transport error starts out as safe for automatic retry.
PostNeverRetriedBlindly ==
    mode = "JsonBody" /\ error # None =>
        error.decision \notin Automatic /\ error.safety # "safe_for_automatic_retry"

\* The fields of the guidance, written by three functions, never contradict
\* each other, and none is left pending.
GuidanceAgrees ==
    error # None =>
        /\ "pending" \notin {error.hint, error.decision, error.safety, error.backoff}
        /\ error.retryable <=> error.class # "do_not_retry"
        /\ error.retryable <=> error.decision # "do_not_retry"
        /\ error.retryable <=> error.safety # "do_not_retry"
        /\ error.retryable <=> error.backoff # "no_retry"
        /\ error.retryable <=> error.minimum # None
        /\ error.class = "after_delay" <=> error.decision \in AfterDelay
        /\ error.class = "after_delay" <=> error.backoff = "respect_retry_after"
        /\ error.class = "after_delay" => error.minimum = error.retryAfter
        /\ error.decision \in Automatic <=> error.safety = "safe_for_automatic_retry"

\* No caller is told to come back at a moment the upstream did not name: a
\* delay too long to represent is dropped, never cut short.
DelayAsAsked ==
    error # None /\ error.retryAfter # None =>
        response.header \in Seconds /\ error.retryAfter = response.header * 1000
================================================================================
