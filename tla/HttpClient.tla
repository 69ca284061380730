------------------------------- MODULE HttpClient -------------------------------
(***************************************************************************)
(* From a resolved bundle to a request on the wire: the digest a client is *)
(* cached under, the address and the headers build_http_client bakes into  *)
(* it, and the headers a call adds (src/src/client.rs, safe_dns.rs,        *)
(* exec.rs, with the digest of client_registry.rs).                        *)
(*                                                                         *)
(* DNS and reqwest are external.  The answer of DNS changes at any time.   *)
(* A reqwest client goes to the pinned address for the host it was built   *)
(* for and asks DNS for any other; it fills in its default headers where a *)
(* request has none.                                                       *)
(*                                                                         *)
(* A header name is its lower-case field and a spelling; a value is known  *)
(* by who set it.                                                          *)
(***************************************************************************)
EXTENDS Naturals, Sequences, FiniteSets, FiniteSetsExt

CONSTANTS
    Call,            \* calls of one binding profile
    Host,            \* hosts the URL template can evaluate to
    Addr, Private,   \* addresses; those is_private_address holds of
    DnsAnswer,       \* answers lookup_host can give: sequences of addresses
    Profile,         \* HttpRequestProfiles, with the operator's header names
    Field,           \* header names, lower-cased
    OperatorValue,   \* what a header template can evaluate to
    GatewayValue,    \* values the gateway sends: trace ids, idempotency keys
    GatewayHeaders,  \* BackendRequest headers: sequences of <<name, value>>
    MaxEntries,      \* as in ClientRegistry
    None             \* no client, no address, no value

Spelling == {"lower", "title", "padded"}

Name == [field : Field, spelling : Spelling]

\* What a digest tells: the URL, and each field's values by their slots.
Digest ==
    LET Slot == UNION {DOMAIN p.names : p \in Profile}
    IN  [url : Host, headers : [Field -> UNION {[S -> OperatorValue] : S \in SUBSET Slot}]]

ASSUME HttpClientAssumption ==
    /\ Private \subseteq Addr
    /\ DnsAnswer \subseteq Seq(Addr)
    /\ MaxEntries \in Nat
    /\ None \notin Call \cup Addr
    /\ None \notin Digest
    /\ OperatorValue \cap GatewayValue = {}
    /\ {"application/json", "*/*", None} \cap (OperatorValue \cup GatewayValue) = {}
    /\ "idempotency-key" \in Field
    /\ \A p \in Profile : p.names \in Seq(Name)
    /\ GatewayHeaders \subseteq Seq([name : Name, value : GatewayValue])

VARIABLES
    clients, now, pc, digest, keys, result, doneAt,  \* the registry's
    profile,   \* the profile, the same for all calls
    dns,       \* external: what lookup_host would answer now
    bundle,    \* resolved_url and resolved_headers of each call
    pinned,    \* client |-> address given to ClientBuilder::resolve
    defaults,  \* client |-> its default_headers
    request    \* what each call sent, or None

registry == <<clients, now, pc, digest, keys, result, doneAt>>
built == <<pinned, defaults>>
httpVars == <<registry, profile, dns, bundle, built, request>>

-----------------------------------------------------------------------------
Lower(name) == name.field

\* HeaderName::from_bytes takes no padded name; a trim() would let it pass.
Valid(name) == name.spelling # "padded"

\* Trimmed and lower-cased, these are never taken from an operator.
is_protected_request_header(name, json) ==
    \/ Lower(name) \in {"host", "connection", "content-length", "forwarded",
                        "x-forwarded-for", "via", "x-real-ip", "x-request-id"}
    \/ json /\ Lower(name) \in {"accept", "content-type"}

IsJson == profile.method = "Post"

\* The operator's names, in the order of the BTreeMap.
Names == profile.names

\* HeaderMap::insert of the pairs (names[i], value[i]), i \in slots, in that
\* order: the last value of a field stays.
Inserted(names, slots, value) ==
    [f \in Field |->
        LET at == {i \in slots : Lower(names[i]) = f}
        IN  IF at = {} THEN None ELSE value[Max(at)]]

\* Mutant: nothing is stripped.
Everything == DOMAIN Names

Unprotected == {i \in DOMAIN Names : ~is_protected_request_header(Names[i], IsJson)}

\* Mutant: the client is built without default headers.
no_default_headers(headers) == [f \in Field |-> None]

build_default_headers(headers) == Inserted(Names, Unprotected, headers)

\* Mutant: the operator's names are compared as they are written.
operator_has_header_exact(field) ==
    \E i \in DOMAIN Names : Names[i] = [field |-> field, spelling |-> "title"]

operator_has_header(field) ==
    \E i \in DOMAIN Names : Valid(Names[i]) /\ Lower(Names[i]) = field

-----------------------------------------------------------------------------
validate_resolved_address(addr) == profile.allowPrivate \/ addr \notin Private

\* Mutant: the first address of the answer, whatever the policy.
FirstOf(answer) == IF answer = <<>> THEN None ELSE answer[1]

\* The address that is pinned: the first of the answer if the profile allows
\* private ones, else the first that is not private.
Resolved(answer) ==
    LET usable == {i \in DOMAIN answer : profile.allowPrivate \/ answer[i] \notin Private}
    IN  IF usable = {} THEN None ELSE answer[Min(usable)]

Bundle == [url : Host, headers : [DOMAIN Names -> OperatorValue]]

\* The slots whose name is f.
Under(f) == {i \in DOMAIN Names : Lower(Names[i]) = f}

Pairs(b) == [f \in Field |-> [i \in Under(f) |-> b.headers[i]]]

\* Mutant: the URL is not digested.
DigestOfHeaders(b) == [url |-> None, headers |-> Pairs(b)]

\* Mutant: of several pairs of one field only the first is digested.
DigestOfFirst(b) ==
    [url |-> b.url,
     headers |-> [f \in Field |-> [i \in Under(f) \cap {1} |-> b.headers[i]]]]

\* digest_credential_bundle of the pairs resolve_client makes.  The names are
\* lower-cased and the sort by name is stable: what counts is the values of
\* each field in the order of the operator's names, the same for all calls.
DigestOf(b) == [url |-> b.url, headers |-> Pairs(b)]

R == INSTANCE ClientRegistry WITH
        Key <- {}, IdleEviction <- 0, MaxTime <- 0

-----------------------------------------------------------------------------
\* Mutant: whatever the gateway has is passed on.
ForwardedAll(hs) == DOMAIN hs

\* Of the gateway's headers only the trace context is passed on.
Forwarded(hs) == {i \in DOMAIN hs : Lower(hs[i].name) \in {"traceparent", "tracestate"}}

build_per_call_headers(hs, key, operatorHasKey) ==
    [Inserted([i \in DOMAIN hs |-> hs[i].name], Forwarded(hs),
              [i \in DOMAIN hs |-> hs[i].value])
        EXCEPT !["idempotency-key"] = IF operatorHasKey THEN None ELSE key]

Framing ==
    [f \in Field |->
        CASE f = "accept" -> IF profile.requireJson THEN "application/json" ELSE "*/*"
          [] f = "content-type" /\ IsJson -> "application/json"
          [] OTHER -> None]

\* reqwest fills in f's headers from g where f has none.
Filled(f, g) == [x \in Field |-> IF f[x] # None THEN f[x] ELSE g[x]]

HttpInit ==
    /\ R!RegistryInit
    /\ profile \in Profile
    /\ dns \in [Host -> DnsAnswer]
    /\ bundle = [c \in Call |-> None]
    /\ pinned = [c \in Call |-> None]
    /\ defaults = [c \in Call |-> None]
    /\ request = [c \in Call |-> None]

resolve_client(c) ==
    /\ \E b \in Bundle :
          /\ bundle' = [bundle EXCEPT ![c] = b]
          /\ R!Call_get_or_build(c, DigestOf(b), {})
    /\ UNCHANGED <<profile, dns, built, request>>

\* The steps of get_or_build, but for its build.
InRegistry(c) ==
    /\ R!Hit(c) \/ R!Miss(c) \/ R!LateHit(c) \/ R!Insert(c)
    /\ UNCHANGED <<profile, dns, bundle, built, request>>

\* Mutant: an answer without a usable address is not an error.
build_http_client_anyway(c) ==
    LET b == bundle[c]
    IN  /\ R!BuildOk(c)
        /\ pinned' = [pinned EXCEPT ![c] = Resolved(dns[b.url])]
        /\ defaults' = [defaults EXCEPT ![c] = build_default_headers(b.headers)]
        /\ UNCHANGED <<profile, dns, bundle, request>>

\* The guard decides on the answer of this one lookup.
build_http_client(c) ==
    LET b == bundle[c]
    IN  /\ R!BuildOk(c)
        /\ Resolved(dns[b.url]) # None
        /\ \A i \in Unprotected : Valid(Names[i])
        /\ pinned' = [pinned EXCEPT ![c] = Resolved(dns[b.url])]
        /\ defaults' = [defaults EXCEPT ![c] = build_default_headers(b.headers)]
        /\ UNCHANGED <<profile, dns, bundle, request>>

\* The lookup fails or is empty, the guard rejects every address, a header
\* name is not valid.
BuildFails(c) ==
    /\ R!BuildErr(c)
    /\ UNCHANGED <<profile, dns, bundle, built, request>>

Evict ==
    /\ R!evict_for_secret
    /\ UNCHANGED <<profile, dns, bundle, built, request>>

Repoint(h) ==
    /\ \E answer \in DnsAnswer : dns' = [dns EXCEPT ![h] = answer]
    /\ UNCHANGED <<registry, profile, bundle, built, request>>

\* Mutant: nothing is pinned.
UnpinnedTo(client, h) == {dns[h][i] : i \in DOMAIN dns[h]}

\* Where reqwest connects: `resolve` pins an address for one host only.
ConnectsTo(client, h) ==
    IF h = bundle[client].url
    THEN {pinned[client]}
    ELSE {dns[h][i] : i \in DOMAIN dns[h]}

\* execute_http_call and start_http_call_streaming, as far as send().
Send(c, hs, key) ==
    /\ pc[c] = "done" /\ request[c] = None
    /\ \A i \in Forwarded(hs) : Valid(hs[i].name)
    /\ \E a \in ConnectsTo(result[c], bundle[c].url) :
          request' = [request EXCEPT ![c] =
              [to      |-> a,
               key     |-> key,
               headers |->
                  LET perCall == build_per_call_headers(
                                    hs, key, operator_has_header("idempotency-key"))
                  IN  Filled(Filled(perCall, Framing), defaults[result[c]])]]
    /\ UNCHANGED <<registry, profile, dns, bundle, built>>

HttpNext ==
    \/ \E c \in Call :
          \/ resolve_client(c)
          \/ InRegistry(c)
          \/ build_http_client(c)
          \/ BuildFails(c)
          \/ \E hs \in GatewayHeaders, key \in GatewayValue \cup {None} : Send(c, hs, key)
    \/ Evict
    \/ \E h \in Host : Repoint(h)

HttpSpec == HttpInit /\ [][HttpNext]_httpVars

-----------------------------------------------------------------------------
(***************************************************************************)
(* Properties                                                              *)
(***************************************************************************)

Header == OperatorValue \cup GatewayValue \cup {"application/json", "*/*", None}

\* Types; a call is given a client that has been built.
HttpTypeOK ==
    /\ profile \in Profile
    /\ dns \in [Host -> DnsAnswer]
    /\ \A c \in Call : pc[c] # "idle" => bundle[c] \in Bundle
    /\ pinned \in [Call -> Addr \cup {None}]
    /\ \A c \in Call : pc[c] = "done" => pinned[result[c]] \in Addr
    /\ \A c \in Call : request[c] # None =>
          request[c].to \in Addr /\ request[c].headers \in [Field -> Header]

Sent(c) == request[c] # None

\* Whatever DNS answers after the guard has looked, a request only ever goes
\* to an address the policy allows, and all requests of one client go to the
\* same one.
GuardHolds ==
    \A c \in Call : Sent(c) =>
        /\ validate_resolved_address(request[c].to)
        /\ \A e \in Call : Sent(e) /\ result[e] = result[c] => request[e].to = request[c].to

\* An operator may set f, and has given a name for it.
Settable(f) ==
    Under(f) # {} /\ ~is_protected_request_header([field |-> f, spelling |-> "lower"], IsJson)

\* A request through a client some other call has built carries what this
\* call's own templates evaluated to, the last value of names that differ in
\* case, in every header the operator has given and may set: none is another
\* call's and none is missing.  Only the crate's Accept and the gateway's
\* trace context take an operator's place.
OwnHeaders ==
    \A c \in Call : Sent(c) =>
        \A f \in Field :
            LET sent == request[c].headers[f]
                own == bundle[c].headers[Max(Under(f))]
            IN  /\ sent \in OperatorValue => sent = own
                /\ Settable(f) =>
                      \/ sent = own
                      \/ f = "accept" /\ sent \in {"application/json", "*/*"}
                      \/ f \in {"traceparent", "tracestate"} /\ sent \in GatewayValue

\* Who may set what: the gateway the trace context and the idempotency key,
\* the operator nothing that is protected.
Provenance ==
    \A c \in Call : Sent(c) =>
        \A f \in Field :
            /\ request[c].headers[f] \in GatewayValue =>
                  f \in {"traceparent", "tracestate", "idempotency-key"}
            /\ request[c].headers[f] \in OperatorValue =>
                  ~is_protected_request_header([field |-> f, spelling |-> "lower"], IsJson)

\* The operator's Idempotency-Key, however it is spelled, wins over the
\* gateway's, and without one the gateway's is sent.
KeyPrecedence ==
    \A c \in Call : Sent(c) =>
        LET sent == request[c].headers["idempotency-key"]
        IN  IF \E i \in DOMAIN Names : Lower(Names[i]) = "idempotency-key"
            THEN sent \in OperatorValue
            ELSE sent = request[c].key

\* The test protected_headers_filter: an operator may set
\* Accept where the call has no JSON body.
OperatorAcceptSent ==
    \A c \in Call :
        Sent(c) /\ ~IsJson /\ (\E i \in DOMAIN Names : Lower(Names[i]) = "accept")
            => request[c].headers["accept"] \in OperatorValue
================================================================================
