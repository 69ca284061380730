------------------------------ MODULE MCHttpClient ------------------------------
(* Small instances of HttpClient for TLC. *)
EXTENDS HttpClient, TLC

CONSTANTS pub, priv

Title(f) == [field |-> f, spelling |-> "title"]
LowerCase(f) == [field |-> f, spelling |-> "lower"]
Padded(f) == [field |-> f, spelling |-> "padded"]

ProfileOf(method, requireJson, allowPrivate, names) ==
    [method |-> method, requireJson |-> requireJson, allowPrivate |-> allowPrivate,
     names |-> names]

\* A name in two spellings, a key in either, names that are protected for
\* some calls or for all, and one that is not valid.
Profiles ==
    {ProfileOf("Post", TRUE, FALSE, <<Title("authorization"), LowerCase("authorization")>>),
     ProfileOf("Get", FALSE, FALSE, <<Title("accept"), LowerCase("idempotency-key")>>),
     ProfileOf("Post", FALSE, TRUE, <<Title("accept"), Padded("host")>>),
     ProfileOf("Get", TRUE, FALSE, <<Title("traceparent"), LowerCase("via")>>),
     ProfileOf("Post", TRUE, FALSE, <<Title("idempotency-key")>>),
     ProfileOf("Post", TRUE, FALSE, <<Padded("authorization")>>),
     ProfileOf("Get", FALSE, FALSE, <<>>)}

Fields ==
    {"accept", "authorization", "content-type", "host", "idempotency-key",
     "traceparent", "via"}

Answers == {<<pub>>, <<priv>>, <<priv, pub>>, <<>>}

\* A trace id twice, and headers of the caller that are not to be passed on.
Headers(v) ==
    {<<[name |-> LowerCase("traceparent"), value |-> v]>>,
     <<[name |-> Title("authorization"), value |-> v], [name |-> Title("via"), value |-> v]>>,
     <<[name |-> Padded("traceparent"), value |-> v]>>}

Gateway == UNION {Headers(v) : v \in GatewayValue}

Symmetry == Permutations(Call) \cup Permutations(Host) \cup Permutations(OperatorValue)
================================================================================
