---------------------------- MODULE HttpClientProofs ----------------------------
(***************************************************************************)
(* Proofs about HttpClient, for any number of calls, hosts, addresses and  *)
(* header values, any DNS and any profile.                                 *)
(*                                                                         *)
(* A request is made of what its client carries, and the client may be     *)
(* another call's.  So the invariant says of every client that somebody    *)
(* holds (the call that has just built it, the registry, the calls it was  *)
(* handed to) that it carries what its builder's bundle gives (Fit), and   *)
(* of every request that it was put together from its client's.  The       *)
(* registry's own invariant, from ClientRegistryProofs, says that builder  *)
(* and user asked with the same digest; and equal digests are equal        *)
(* bundles.                                                                *)
(***************************************************************************)
EXTENDS HttpClient, SequenceLemmas

P == INSTANCE ClientRegistryProofs WITH Key <- {}, IdleEviction <- 0, MaxTime <- 0

\* The constants are as the registry needs them.
LEMMA RegistryAssumed == P!RegistryAssumption
BY HttpClientAssumption DEF P!RegistryAssumption

\* The two instances of ClientRegistry are the same: an insertion.
LEMMA SameInsert == ASSUME NEW c \in Call PROVE R!Insert(c) <=> P!Insert(c)
<1>1. R!Inserted(c) = P!Inserted(c)
    BY DEF R!Inserted, P!Inserted, R!NewEntry, P!NewEntry
<1>2. ASSUME NEW f, NEW g PROVE g \in R!Bounded(f) <=> g \in P!Bounded(f)
    <2>1. R!Oldest(f) = P!Oldest(f)
        BY DEF R!Oldest, P!Oldest
    <2>2. ASSUME NEW S PROVE R!Restrict(f, S) = P!Restrict(f, S)
        BY DEF R!Restrict, P!Restrict
    <2>3. R!Cardinality(DOMAIN f) = P!Cardinality(DOMAIN f)
        BY DEF R!Cardinality, P!Cardinality
    <2> QED BY <2>1, <2>2, <2>3 DEF R!Bounded, P!Bounded
<1> QED BY <1>1, <1>2 DEF R!Insert, P!Insert, R!Return, P!Return, R!Goto, P!Goto

\* The same, for every other step of the registry that is taken here.
LEMMA SameRest ==
    /\ \A c \in Call, d \in Digest :
          R!Call_get_or_build(c, d, {}) <=> P!Call_get_or_build(c, d, {})
    /\ \A c \in Call : R!Hit(c) <=> P!Hit(c)
    /\ \A c \in Call : R!LateHit(c) <=> P!LateHit(c)
    /\ \A c \in Call : R!Miss(c) <=> P!Miss(c)
    /\ \A c \in Call : R!BuildOk(c) <=> P!BuildOk(c)
    /\ \A c \in Call : R!BuildErr(c) <=> P!BuildErr(c)
    /\ R!evict_for_secret <=> P!evict_for_secret
<1>1. R!evict_for_secret <=> P!evict_for_secret
    BY DEF R!evict_for_secret, P!evict_for_secret, R!Evict, P!Evict, R!Restrict, P!Restrict
<1> QED
    BY <1>1
    DEF R!Call_get_or_build, P!Call_get_or_build, R!Hit, P!Hit, R!LateHit, P!LateHit,
        R!Miss, P!Miss, R!BuildOk, P!BuildOk, R!BuildErr, P!BuildErr,
        R!Goto, P!Goto, R!Return, P!Return, R!Touch, P!Touch

-----------------------------------------------------------------------------
(***************************************************************************)
(* Headers                                                                 *)
(***************************************************************************)

\* A set of numbers that is not empty but bounded has a greatest.
LEMMA MaxIsIn == ASSUME NEW n \in Nat, NEW S \in SUBSET (1..n), S # {} PROVE Max(S) \in S
<1> DEFINE T == {n - i : i \in S}
<1>1. T \in SUBSET Nat /\ T # {}
    <2>1. ASSUME NEW i \in S PROVE n - i \in Nat
        BY i \in 1..n
    <2>2. T # {}
        <3>1. PICK i \in S : TRUE
            BY Zenon
        <3>2. n - i \in T
            BY Zenon
        <3> QED BY <3>2, Zenon
    <2> QED BY <2>1, <2>2, Zenon
<1>2. PICK m \in T : \A k \in T : <<k, m>> \notin OpToRel(<, Nat)
    BY <1>1, WFMin, NatLessThanWellFounded, Zenon
<1>3. \A k \in T : ~(k < m)
    BY <1>1, <1>2, Zenon DEF OpToRel
<1>4. PICK j \in S : m = n - j
    OBVIOUS
<1>5. \A i \in S : ~(n - i < n - j)
    BY <1>3, <1>4
<1> HIDE DEF T
<1>6. ASSUME NEW i \in S PROVE j >= i
    BY <1>5, i \in 1..n, j \in 1..n
<1> QED BY <1>6 DEF Max

\* Where a field is set.
At(names, slots, f) == {i \in slots : Lower(names[i]) = f}

\* What HeaderMap::insert leaves (exec.rs:141, 157, 572): of each field the
\* value at its last slot, or none.
LEMMA InsertedShape ==
    ASSUME NEW names, NEW n \in Nat, NEW slots \in SUBSET (1..n),
           NEW V, NEW value \in [1..n -> V]
    PROVE  /\ Inserted(names, slots, value) \in [Field -> V \cup {None}]
           /\ \A f \in Field :
                IF At(names, slots, f) = {}
                THEN Inserted(names, slots, value)[f] = None
                ELSE /\ Inserted(names, slots, value)[f] = value[Max(At(names, slots, f))]
                     /\ value[Max(At(names, slots, f))] \in V
<1>1. ASSUME NEW f \in Field, At(names, slots, f) # {}
      PROVE  value[Max(At(names, slots, f))] \in V
    <2>1. At(names, slots, f) \in SUBSET (1..n)
        BY DEF At
    <2>2. Max(At(names, slots, f)) \in At(names, slots, f)
        BY <1>1, <2>1, MaxIsIn
    <2> QED BY <2>1, <2>2
<1>2. Inserted(names, slots, value) =
        [f \in Field |-> IF At(names, slots, f) = {} THEN None
                         ELSE value[Max(At(names, slots, f))]]
    BY DEF Inserted, At
<1> QED BY <1>1, <1>2

Plain(f) == [field |-> f, spelling |-> "lower"]

\* Protection does not depend on how a name is spelled (exec.rs:27-36).
LEMMA ProtectedByField ==
    ASSUME NEW name
    PROVE  is_protected_request_header(name, IsJson) <=>
              is_protected_request_header(Plain(Lower(name)), IsJson)
BY DEF is_protected_request_header, Lower, Plain

\* build_default_headers (exec.rs:559-575): of an operator's field that is not
\* protected the last value, of any other none.
LEMMA DefaultsShape ==
    ASSUME profile \in Profile, NEW h \in [DOMAIN Names -> OperatorValue]
    PROVE  /\ build_default_headers(h) \in [Field -> OperatorValue \cup {None}]
           /\ \A f \in Field :
                IF Under(f) = {} \/ is_protected_request_header(Plain(f), IsJson)
                THEN build_default_headers(h)[f] = None
                ELSE /\ build_default_headers(h)[f] = h[Max(Under(f))]
                     /\ h[Max(Under(f))] \in OperatorValue
<1> DEFINE n == Len(Names)
<1>1. n \in Nat /\ DOMAIN Names = 1..n
    BY HttpClientAssumption DEF Names
<1>2. Unprotected \in SUBSET (1..n)
    BY <1>1 DEF Unprotected
<1>3. h \in [1..n -> OperatorValue]
    BY <1>1
<1> HIDE DEF n
<1>4. /\ build_default_headers(h) \in [Field -> OperatorValue \cup {None}]
      /\ \A f \in Field :
            IF At(Names, Unprotected, f) = {}
            THEN build_default_headers(h)[f] = None
            ELSE /\ build_default_headers(h)[f] = h[Max(At(Names, Unprotected, f))]
                 /\ h[Max(At(Names, Unprotected, f))] \in OperatorValue
    BY <1>1, <1>2, <1>3, InsertedShape DEF build_default_headers
<1>5. ASSUME NEW f
      PROVE  At(Names, Unprotected, f) =
                IF is_protected_request_header(Plain(f), IsJson) THEN {} ELSE Under(f)
    BY ProtectedByField DEF Unprotected, Under, At
<1> QED BY <1>4, <1>5

\* build_per_call_headers (exec.rs:127-160): trace context and key, the key only
\* where the operator has set none.
LEMMA PerCallShape ==
    ASSUME NEW hs \in GatewayHeaders, NEW key \in GatewayValue \cup {None}, NEW has \in BOOLEAN
    PROVE  LET perCall == build_per_call_headers(hs, key, has)
           IN  /\ perCall \in [Field -> GatewayValue \cup {None}]
               /\ \A f \in Field : perCall[f] \in GatewayValue =>
                     f \in {"traceparent", "tracestate", "idempotency-key"}
               /\ perCall["idempotency-key"] = IF has THEN None ELSE key
<1> DEFINE Pair == [name : Name, value : GatewayValue]
<1>1. hs \in Seq(Pair)
    BY HttpClientAssumption
<1> HIDE DEF Pair
<1>2. Len(hs) \in Nat /\ DOMAIN hs = 1..Len(hs)
    BY <1>1
<1>3. \A i \in 1..Len(hs) : hs[i] \in Pair
    BY <1>1
<1> DEFINE names == [i \in DOMAIN hs |-> hs[i].name]
           value == [i \in DOMAIN hs |-> hs[i].value]
<1>4. value \in [1..Len(hs) -> GatewayValue]
    BY <1>2, <1>3 DEF Pair
<1>5. Forwarded(hs) \in SUBSET (1..Len(hs))
    BY <1>2 DEF Forwarded
<1>6. \A i \in Forwarded(hs) : Lower(names[i]) \in {"traceparent", "tracestate"}
    BY DEF Forwarded
<1> DEFINE trace == Inserted(names, Forwarded(hs), value)
<1>7. build_per_call_headers(hs, key, has) =
        [trace EXCEPT !["idempotency-key"] = IF has THEN None ELSE key]
    BY DEF build_per_call_headers
<1> HIDE DEF names, value
<1>8. /\ trace \in [Field -> GatewayValue \cup {None}]
      /\ \A f \in Field :
            IF At(names, Forwarded(hs), f) = {}
            THEN trace[f] = None
            ELSE /\ trace[f] = value[Max(At(names, Forwarded(hs), f))]
                 /\ value[Max(At(names, Forwarded(hs), f))] \in GatewayValue
    BY <1>2, <1>4, <1>5, InsertedShape
<1>9. \A f \in Field : trace[f] \in GatewayValue => f \in {"traceparent", "tracestate"}
    BY <1>6, <1>8, HttpClientAssumption DEF At
<1> HIDE DEF trace
<1> QED BY <1>7, <1>8, <1>9, HttpClientAssumption

\* The headers of the call itself (exec.rs:180-199): Accept, and the type of a
\* JSON body; they name no key.
LEMMA FramingShape ==
    /\ Framing \in [Field -> {"application/json", "*/*", None}]
    /\ \A f \in Field : Framing[f] # None => f = "accept" \/ (f = "content-type" /\ IsJson)
    /\ Framing["idempotency-key"] = None
<1> DEFINE own(f) == CASE f = "accept" -> IF profile.requireJson THEN "application/json" ELSE "*/*"
                       [] f = "content-type" /\ IsJson -> "application/json"
                       [] OTHER -> None
<1>1. \A f \in Field : own(f) \in {"application/json", "*/*", None}
    OBVIOUS
<1>2. /\ own("idempotency-key") = None
      /\ \A f \in Field : own(f) # None => f = "accept" \/ (f = "content-type" /\ IsJson)
    OBVIOUS
<1>3. Framing = [f \in Field |-> own(f)]
    BY DEF Framing
<1> HIDE DEF own
<1> QED BY <1>1, <1>2, <1>3, HttpClientAssumption

-----------------------------------------------------------------------------
(***************************************************************************)
(* The invariant                                                           *)
(***************************************************************************)

HasKey == operator_has_header("idempotency-key")

\* What a call sends through client a.
RequestHeaders(hs, key, a) ==
    Filled(Filled(build_per_call_headers(hs, key, HasKey), Framing), defaults[a])

\* Client a is what its builder's bundle makes it.
Fit(a) ==
    /\ bundle[a] \in Bundle
    /\ pinned[a] \in Addr
    /\ validate_resolved_address(pinned[a])
    /\ \A i \in Unprotected : Valid(Names[i])
    /\ defaults[a] = build_default_headers(bundle[a].headers)

\* Somebody holds client a.
Held(a) ==
    \/ a \in Call /\ pc[a] = "insert"
    \/ \E d \in DOMAIN clients : clients[d].client = a
    \/ \E c \in Call : pc[c] = "done" /\ result[c] = a

\* Typed functions, and what a call that has started asked with.
Typed ==
    /\ profile \in Profile
    /\ dns \in [Host -> DnsAnswer]
    /\ bundle \in [Call -> Bundle \cup {None}]
    /\ pinned \in [Call -> Addr \cup {None}]
    /\ DOMAIN defaults = Call /\ DOMAIN request = Call
    /\ \A c \in Call : pc[c] # "idle" =>
          bundle[c] \in Bundle /\ digest[c] = DigestOf(bundle[c])

Request(c) ==
    /\ pc[c] = "done"
    /\ request[c].to = pinned[result[c]]
    /\ \E hs \in GatewayHeaders :
          /\ request[c].key \in GatewayValue \cup {None}
          /\ request[c].headers = RequestHeaders(hs, request[c].key, result[c])

HttpInv ==
    /\ P!RegistryInv
    /\ Typed
    /\ \A a \in Call : Held(a) => Fit(a)
    /\ \A c \in Call : Sent(c) => Request(c)

\* A client that is held was built by a call that is past its build.
LEMMA HeldShape ==
    ASSUME P!RegistryInv, NEW a, Held(a)
    PROVE  a \in Call /\ pc[a] \in {"insert", "done"}
BY DEF P!RegistryInv, P!TypeOK, P!Built, P!Served, P!ClientEntry, Held

\* Equal digests are equal bundles: the URL and every header's value are in
\* the digest, with its field and in its order.
THEOREM DigestTells ==
    ASSUME profile \in Profile, NEW a \in Bundle, NEW b \in Bundle, DigestOf(a) = DigestOf(b)
    PROVE  a = b
<1>1. Names \in Seq(Name)
    BY HttpClientAssumption DEF Names
<1>2. \A i \in DOMAIN Names : Names[i] \in Name
    BY <1>1
<1>3. a.url = b.url /\ Pairs(a) = Pairs(b)
    BY DEF DigestOf
<1>4. ASSUME NEW i \in DOMAIN Names PROVE a.headers[i] = b.headers[i]
    <2> DEFINE f == Names[i].field
    <2>1. f \in Field /\ i \in Under(f)
        BY <1>2 DEF Name, Under, Lower
    <2>2. Pairs(a)[f] = [k \in Under(f) |-> a.headers[k]]
        BY <2>1 DEF Pairs
    <2>3. Pairs(b)[f] = [k \in Under(f) |-> b.headers[k]]
        BY <2>1 DEF Pairs
    <2> HIDE DEF f
    <2> QED BY <1>3, <2>1, <2>2, <2>3
<1>5. a.headers = b.headers
    BY <1>4 DEF Bundle
<1> QED BY <1>3, <1>5 DEF Bundle

\* What is digested is a digest.
LEMMA DigestShape ==
    ASSUME profile \in Profile, NEW b \in Bundle
    PROVE  DigestOf(b) \in Digest
<1> DEFINE Slot == UNION {DOMAIN p.names : p \in Profile}
           V == UNION {[S -> OperatorValue] : S \in SUBSET Slot}
<1>1. ASSUME NEW f PROVE [i \in Under(f) |-> b.headers[i]] \in V
    <2>1. Under(f) \in SUBSET Slot
        BY DEF Under, Names
    <2>2. [i \in Under(f) |-> b.headers[i]] \in [Under(f) -> OperatorValue]
        BY DEF Under, Bundle
    <2> QED BY <2>1, <2>2
<1>2. Digest = [url : Host, headers : [Field -> V]]
    BY DEF Digest
<1> HIDE DEF Slot, V
<1>3. Pairs(b) \in [Field -> V]
    BY <1>1 DEF Pairs
<1> QED BY <1>2, <1>3 DEF DigestOf, Bundle

\* What a request carries that goes through a client fit for its bundle.
LEMMA HeadersShape ==
    ASSUME profile \in Profile, NEW a, Fit(a),
           NEW hs \in GatewayHeaders, NEW key \in GatewayValue \cup {None}
    PROVE  LET sent == RequestHeaders(hs, key, a)
           IN  /\ sent \in [Field -> Header]
               /\ \A f \in Field :
                    /\ sent[f] \in OperatorValue =>
                          /\ sent[f] = bundle[a].headers[Max(Under(f))]
                          /\ ~is_protected_request_header(Plain(f), IsJson)
                    /\ Settable(f) =>
                          \/ sent[f] = bundle[a].headers[Max(Under(f))]
                          \/ f = "accept" /\ sent[f] \in {"application/json", "*/*"}
                          \/ f \in {"traceparent", "tracestate"} /\ sent[f] \in GatewayValue
                    /\ sent[f] \in GatewayValue =>
                          f \in {"traceparent", "tracestate", "idempotency-key"}
               /\ IF Under("idempotency-key") # {}
                  THEN sent["idempotency-key"] \in OperatorValue
                  ELSE sent["idempotency-key"] = key
<1> DEFINE own == build_per_call_headers(hs, key, HasKey)
           def == build_default_headers(bundle[a].headers)
           sent == RequestHeaders(hs, key, a)
<1>1. HasKey \in BOOLEAN
    BY DEF HasKey, operator_has_header
<1>2. /\ own \in [Field -> GatewayValue \cup {None}]
      /\ \A f \in Field : own[f] \in GatewayValue =>
            f \in {"traceparent", "tracestate", "idempotency-key"}
      /\ own["idempotency-key"] = IF HasKey THEN None ELSE key
    BY <1>1, PerCallShape
<1>3. bundle[a].headers \in [DOMAIN Names -> OperatorValue]
    BY DEF Fit, Bundle
<1>4. /\ def \in [Field -> OperatorValue \cup {None}]
      /\ \A f \in Field :
            IF Under(f) = {} \/ is_protected_request_header(Plain(f), IsJson)
            THEN def[f] = None
            ELSE /\ def[f] = bundle[a].headers[Max(Under(f))]
                 /\ bundle[a].headers[Max(Under(f))] \in OperatorValue
    BY <1>3, DefaultsShape
<1>5. sent = [f \in Field |->
                IF own[f] # None THEN own[f]
                ELSE IF Framing[f] # None THEN Framing[f] ELSE def[f]]
    BY DEF RequestHeaders, Filled, Fit
<1>6. HasKey <=> Under("idempotency-key") # {}
    <2>1. ~is_protected_request_header(Plain("idempotency-key"), IsJson)
        BY DEF is_protected_request_header, Plain, Lower
    <2>2. \A i \in Under("idempotency-key") : i \in Unprotected
        BY <2>1, ProtectedByField DEF Under, Unprotected
    <2>3. \A i \in Under("idempotency-key") : Valid(Names[i])
        BY <2>2 DEF Fit
    <2> QED BY <2>3 DEF HasKey, operator_has_header, Under
<1>7. ~is_protected_request_header(Plain("idempotency-key"), IsJson)
    BY DEF is_protected_request_header, Plain, Lower
<1> HIDE DEF own, def, sent
<1>8. \A f \in Field :
        \/ sent[f] = own[f] /\ own[f] \in GatewayValue
        \/ /\ sent[f] = Framing[f] /\ Framing[f] # None
           /\ Framing[f] \in {"application/json", "*/*"}
        \/ sent[f] = def[f] /\ own[f] = None /\ Framing[f] = None
    BY <1>2, <1>5, FramingShape
<1>9. sent \in [Field -> Header]
    BY <1>2, <1>4, <1>5, <1>8 DEF Header
<1>10. \A f \in Field :
        /\ sent[f] \in OperatorValue =>
              /\ sent[f] = bundle[a].headers[Max(Under(f))]
              /\ ~is_protected_request_header(Plain(f), IsJson)
        /\ sent[f] \in GatewayValue =>
              f \in {"traceparent", "tracestate", "idempotency-key"}
    BY <1>2, <1>4, <1>8, HttpClientAssumption
<1>11. ASSUME NEW f \in Field, Settable(f)
       PROVE  \/ sent[f] = bundle[a].headers[Max(Under(f))]
              \/ f = "accept" /\ sent[f] \in {"application/json", "*/*"}
              \/ f \in {"traceparent", "tracestate"} /\ sent[f] \in GatewayValue
    <2>1. Under(f) # {} /\ ~is_protected_request_header(Plain(f), IsJson)
        BY <1>11 DEF Settable, Plain
    <2>2. CASE sent[f] = own[f] /\ own[f] \in GatewayValue
        <3>1. f # "idempotency-key"
            BY <1>2, <1>6, <2>1, <2>2, HttpClientAssumption
        <3> QED BY <1>2, <2>2, <3>1
    <2>3. CASE /\ sent[f] = Framing[f] /\ Framing[f] # None
               /\ Framing[f] \in {"application/json", "*/*"}
        <3>1. ~(f = "content-type" /\ IsJson)
            BY <2>1 DEF is_protected_request_header, Plain, Lower
        <3> QED BY <2>3, <3>1, FramingShape
    <2>4. CASE sent[f] = def[f]
        BY <1>4, <2>1, <2>4
    <2> QED BY <1>8, <2>2, <2>3, <2>4
<1>12. IF Under("idempotency-key") # {}
       THEN sent["idempotency-key"] \in OperatorValue
       ELSE sent["idempotency-key"] = key
    BY <1>2, <1>4, <1>5, <1>6, <1>7, FramingShape, HttpClientAssumption
<1> QED BY <1>9, <1>10, <1>11, <1>12 DEF sent

-----------------------------------------------------------------------------
(***************************************************************************)
(* Every step keeps the invariant                                          *)
(***************************************************************************)

\* A client stays fit while what it was built from stays.
LEMMA FitKept ==
    ASSUME NEW a, Fit(a), profile' = profile, bundle'[a] = bundle[a],
           pinned'[a] = pinned[a], defaults'[a] = defaults[a]
    PROVE  Fit(a)'
BY DEF Fit, Bundle, Names, validate_resolved_address, Unprotected, IsJson,
    build_default_headers

\* Bundles and their digests are those of the profile.
LEMMA SameBundles ==
    ASSUME profile' = profile
    PROVE  Bundle' = Bundle /\ \A b : DigestOf(b)' = DigestOf(b)
BY DEF Bundle, DigestOf, Pairs, Under, Names

\* A request stays as it was put together.
LEMMA RequestKept ==
    ASSUME NEW c \in Call, Request(c), profile' = profile, pc'[c] = "done",
           result'[c] = result[c], request'[c] = request[c],
           pinned'[result[c]] = pinned[result[c]], defaults'[result[c]] = defaults[result[c]]
    PROVE  Request(c)'
<1>1. HasKey' = HasKey /\ Framing' = Framing
    BY DEF HasKey, operator_has_header, Names, Framing, IsJson
<1>2. ASSUME NEW hs, NEW key
      PROVE  RequestHeaders(hs, key, result[c])' = RequestHeaders(hs, key, result[c])
    BY <1>1 DEF RequestHeaders
<1> QED BY <1>2 DEF Request, RequestHeaders

\* Every step is a step of the registry, or none.
LEMMA StepRefines ==
    ASSUME HttpInv, [HttpNext]_httpVars
    PROVE  [P!RegistryNext]_(P!registryVars)
<1>1. ASSUME NEW c \in Call, resolve_client(c) PROVE P!RegistryNext
    <2>1. PICK b \in Bundle : R!Call_get_or_build(c, DigestOf(b), {})
        BY <1>1 DEF resolve_client
    <2>2. DigestOf(b) \in Digest
        BY DigestShape DEF HttpInv, Typed
    <2>3. P!Call_get_or_build(c, DigestOf(b), {})
        BY <2>1, <2>2, SameRest
    <2> QED BY <2>2, <2>3 DEF P!RegistryNext
<1>2. ASSUME NEW c \in Call, InRegistry(c) \/ build_http_client(c) \/ BuildFails(c)
      PROVE  P!RegistryNext
    <2>1. P!Hit(c) \/ P!Miss(c) \/ P!LateHit(c) \/ P!Insert(c) \/ P!BuildOk(c) \/ P!BuildErr(c)
        BY <1>2, SameRest, SameInsert DEF InRegistry, build_http_client, BuildFails
    <2> QED BY <2>1 DEF P!RegistryNext, P!Progress
<1>3. CASE Evict
    BY <1>3, SameRest DEF Evict, P!RegistryNext
<1>4. ASSUME NEW c \in Call, NEW hs, NEW key, Send(c, hs, key)
      PROVE  UNCHANGED P!registryVars
    BY <1>4 DEF Send, registry, P!registryVars
<1>5. ASSUME (\E h \in Host : Repoint(h)) \/ UNCHANGED httpVars
      PROVE  UNCHANGED P!registryVars
    BY <1>5 DEF Repoint, httpVars, registry, P!registryVars
<1> QED BY <1>1, <1>2, <1>3, <1>4, <1>5 DEF HttpNext

\* So every step keeps the registry's invariant.
LEMMA RegistryStepInv ==
    ASSUME HttpInv, [HttpNext]_httpVars
    PROVE  P!RegistryInv'
BY StepRefines, RegistryAssumed, P!StepInv DEF HttpInv

\* The steps of the registry that build nothing give nobody a client that
\* nobody held, and leave digests and answers as they are.
LEMMA HeldBefore ==
    ASSUME P!RegistryInv, NEW c,
           \/ c \in Call /\ (P!Hit(c) \/ P!Miss(c) \/ P!LateHit(c) \/ P!Insert(c) \/ P!BuildErr(c))
           \/ P!evict_for_secret
    PROVE  /\ \A a : Held(a)' => Held(a)
           /\ \A e \in Call : pc[e] = "done" => pc'[e] = "done" /\ result'[e] = result[e]
           /\ \A e \in Call : pc'[e] # "idle" => pc[e] # "idle"
           /\ digest' = digest
<1> USE DEF P!RegistryInv, P!TypeOK, P!ClientEntry
<1>1. CASE c \in Call /\ (P!Hit(c) \/ P!LateHit(c))
    <2>1. /\ digest[c] \in DOMAIN clients
          /\ clients' = P!Touch(digest[c])
          /\ P!Return(c, "lookup", clients[digest[c]].client)
                \/ P!Return(c, "insert", clients[digest[c]].client)
        BY <1>1 DEF P!Hit, P!LateHit
    <2>2. /\ DOMAIN clients' = DOMAIN clients
          /\ \A d \in DOMAIN clients' : clients'[d].client = clients[d].client
        BY <2>1 DEF P!Touch
    <2>3. /\ pc[c] \in {"lookup", "insert"} /\ pc' = [pc EXCEPT ![c] = "done"]
          /\ result' = [result EXCEPT ![c] = clients[digest[c]].client]
          /\ digest' = digest
        BY <2>1 DEF P!Return, P!Goto
    <2> QED BY <2>1, <2>2, <2>3 DEF Held
<1>2. CASE c \in Call /\ (P!Miss(c) \/ P!BuildErr(c))
    BY <1>2 DEF P!Miss, P!BuildErr, P!Goto, Held
<1>3. CASE c \in Call /\ P!Insert(c)
    <2>1. /\ DOMAIN clients' \subseteq DOMAIN clients \cup {digest[c]}
          /\ \A d \in DOMAIN clients' :
                clients'[d] = IF d = digest[c] THEN P!NewEntry(c) ELSE clients[d]
        BY <1>3, RegistryAssumed, P!InsertShape
    <2>2. \A d \in DOMAIN clients' :
             \/ clients'[d].client = c
             \/ d \in DOMAIN clients /\ clients'[d].client = clients[d].client
        BY <2>1 DEF P!NewEntry
    <2>3. /\ pc[c] = "insert" /\ pc' = [pc EXCEPT ![c] = "done"]
          /\ result' = [result EXCEPT ![c] = c]
          /\ digest' = digest
        BY <1>3 DEF P!Insert, P!Return, P!Goto
    <2> QED BY <1>3, <2>2, <2>3 DEF Held
<1>4. CASE P!evict_for_secret
    <2>1. DOMAIN clients' \subseteq DOMAIN clients
        BY <1>4, RegistryAssumed, P!EvictShape DEF P!evict_for_secret
    <2>2. \A d \in DOMAIN clients' : clients'[d] = clients[d]
        BY <1>4, RegistryAssumed, P!EvictShape DEF P!evict_for_secret
    <2>3. UNCHANGED <<pc, result, digest>>
        BY <1>4 DEF P!evict_for_secret, P!Evict
    <2> QED BY <2>1, <2>2, <2>3 DEF Held
<1> QED BY <1>1, <1>2, <1>3, <1>4

\* So they keep the invariant.
LEMMA InsideInv ==
    ASSUME HttpInv, [HttpNext]_httpVars, NEW c,
           (c \in Call /\ (InRegistry(c) \/ BuildFails(c))) \/ Evict
    PROVE  HttpInv'
<1>1. \/ c \in Call /\ (P!Hit(c) \/ P!Miss(c) \/ P!LateHit(c) \/ P!Insert(c) \/ P!BuildErr(c))
      \/ P!evict_for_secret
    BY SameRest, SameInsert DEF InRegistry, BuildFails, Evict
<1>2. UNCHANGED <<profile, dns, bundle, pinned, defaults, request>>
    BY DEF InRegistry, BuildFails, Evict, built
<1>3. /\ \A a : Held(a)' => Held(a)
      /\ \A e \in Call : pc[e] = "done" => pc'[e] = "done" /\ result'[e] = result[e]
      /\ \A e \in Call : pc'[e] # "idle" => pc[e] # "idle"
      /\ digest' = digest
    BY <1>1, HeldBefore DEF HttpInv
<1>4. P!RegistryInv'
    BY RegistryStepInv
<1>5. Typed'
    BY <1>2, <1>3, SameBundles DEF HttpInv, Typed
<1>6. \A a \in Call : Held(a)' => Fit(a)'
    BY <1>2, <1>3, FitKept DEF HttpInv
<1>7. ASSUME NEW e \in Call, Sent(e)' PROVE Request(e)'
    <2>1. Request(e)
        BY <1>2, <1>7 DEF HttpInv, Sent
    <2> QED BY <1>2, <1>3, <2>1, RequestKept DEF Request
<1> QED BY <1>4, <1>5, <1>6, <1>7 DEF HttpInv

\* So does a call that asks the registry.
LEMMA ResolveInv ==
    ASSUME HttpInv, [HttpNext]_httpVars, NEW c \in Call, resolve_client(c)
    PROVE  HttpInv'
<1>1. PICK b \in Bundle :
         /\ bundle' = [bundle EXCEPT ![c] = b]
         /\ pc[c] = "idle" /\ pc' = [pc EXCEPT ![c] = "lookup"]
         /\ digest' = [digest EXCEPT ![c] = DigestOf(b)]
         /\ UNCHANGED <<clients, result>>
    BY DEF resolve_client, R!Call_get_or_build, R!Goto
<1>2. UNCHANGED <<profile, dns, pinned, defaults, request>>
    BY DEF resolve_client, built
<1>3. pc \in [Call -> P!Pc] /\ digest \in [Call -> Digest \cup {None}]
    BY DEF HttpInv, P!RegistryInv, P!TypeOK
<1>4. P!RegistryInv'
    BY RegistryStepInv
<1>5. Typed'
    BY <1>1, <1>2, <1>3, SameBundles DEF HttpInv, Typed
<1>6. ASSUME NEW a \in Call, Held(a)' PROVE Fit(a)'
    <2>1. Held(a)
        BY <1>1, <1>3, <1>6 DEF Held
    <2>2. a # c
        BY <1>1, <2>1, HeldShape DEF HttpInv
    <2>3. bundle'[a] = bundle[a]
        BY <1>1, <2>2 DEF HttpInv, Typed
    <2> QED BY <1>2, <2>1, <2>3, FitKept DEF HttpInv
<1>7. ASSUME NEW e \in Call, Sent(e)' PROVE Request(e)'
    <2>1. Request(e)
        BY <1>2, <1>7 DEF HttpInv, Sent
    <2>2. pc'[e] = "done"
        BY <1>1, <1>3, <2>1 DEF Request
    <2> QED BY <1>1, <1>2, <2>1, <2>2, RequestKept
<1> QED BY <1>4, <1>5, <1>6, <1>7 DEF HttpInv

\* The address that is pinned is one the policy allows (client.rs:55-73).
LEMMA ResolvedShape ==
    ASSUME NEW answer \in DnsAnswer, Resolved(answer) # None
    PROVE  Resolved(answer) \in Addr /\ validate_resolved_address(Resolved(answer))
<1> DEFINE usable == {i \in DOMAIN answer : profile.allowPrivate \/ answer[i] \notin Private}
<1>1. usable # {} /\ Resolved(answer) = answer[Min(usable)]
    BY DEF Resolved
<1>2. answer \in Seq(Addr)
    BY HttpClientAssumption
<1>3. usable \in SUBSET Nat
    BY <1>2
<1>4. Min(usable) \in usable
    BY <1>1, <1>3, MinIsLeast
<1> QED BY <1>1, <1>2, <1>4 DEF validate_resolved_address

\* So does a build: the client it leaves is fit, and no request went through it.
LEMMA BuildInv ==
    ASSUME HttpInv, [HttpNext]_httpVars, NEW c \in Call, build_http_client(c)
    PROVE  HttpInv'
<1>1. /\ pc[c] = "build" /\ pc' = [pc EXCEPT ![c] = "insert"]
      /\ UNCHANGED <<clients, digest, result, profile, dns, bundle, request>>
    BY DEF build_http_client, R!BuildOk, R!Goto
<1>2. /\ Resolved(dns[bundle[c].url]) # None
      /\ \A i \in Unprotected : Valid(Names[i])
      /\ pinned' = [pinned EXCEPT ![c] = Resolved(dns[bundle[c].url])]
      /\ defaults' = [defaults EXCEPT ![c] = build_default_headers(bundle[c].headers)]
    BY DEF build_http_client
<1>3. pc \in [Call -> P!Pc]
    BY DEF HttpInv, P!RegistryInv, P!TypeOK
<1>4. bundle[c] \in Bundle
    BY <1>1 DEF HttpInv, Typed
<1>5. dns[bundle[c].url] \in DnsAnswer
    BY <1>4 DEF HttpInv, Typed, Bundle
<1>6. /\ Resolved(dns[bundle[c].url]) \in Addr
      /\ validate_resolved_address(Resolved(dns[bundle[c].url]))
    BY <1>2, <1>5, ResolvedShape
<1>7. P!RegistryInv'
    BY RegistryStepInv
<1>8. Typed'
    BY <1>1, <1>2, <1>3, <1>6, SameBundles DEF HttpInv, Typed
<1>9. Fit(c)'
    <2>1. /\ pinned'[c] = Resolved(dns[bundle[c].url])
          /\ defaults'[c] = build_default_headers(bundle[c].headers)
        BY <1>2 DEF HttpInv, Typed
    <2>2. /\ bundle'[c] \in Bundle'
          /\ \A i \in Unprotected' : Valid(Names[i])'
          /\ build_default_headers(bundle[c].headers)' = build_default_headers(bundle[c].headers)
        BY <1>1, <1>2, <1>4 DEF Bundle, Names, Unprotected, IsJson, build_default_headers
    <2>3. validate_resolved_address(pinned[c])'
        BY <1>1, <1>6, <2>1 DEF validate_resolved_address
    <2> QED BY <1>6, <2>1, <2>2, <2>3 DEF Fit
<1>10. ASSUME NEW a \in Call, Held(a)' PROVE Fit(a)'
    <2>1. CASE a = c
        BY <1>9, <2>1
    <2>2. CASE a # c
        <3>1. Held(a)
            BY <1>1, <1>3, <1>10, <2>2 DEF Held
        <3>2. pinned'[a] = pinned[a] /\ defaults'[a] = defaults[a] /\ bundle'[a] = bundle[a]
            BY <1>1, <1>2, <2>2 DEF HttpInv, Typed
        <3> QED BY <1>1, <3>1, <3>2, FitKept DEF HttpInv
    <2> QED BY <2>1, <2>2
<1>11. ASSUME NEW e \in Call, Sent(e)' PROVE Request(e)'
    <2>1. Request(e)
        BY <1>1, <1>11 DEF HttpInv, Sent
    <2>2. Held(result[e])
        BY <2>1 DEF Request, Held
    <2>3. result[e] \in Call /\ result[e] # c
        BY <1>1, <2>2, HeldShape DEF HttpInv
    <2>4. pinned'[result[e]] = pinned[result[e]] /\ defaults'[result[e]] = defaults[result[e]]
        BY <1>2, <2>3 DEF HttpInv, Typed
    <2>5. pc'[e] = "done"
        BY <1>1, <1>3, <2>1 DEF Request
    <2> QED BY <1>1, <2>1, <2>4, <2>5, RequestKept
<1> QED BY <1>7, <1>8, <1>10, <1>11 DEF HttpInv

\* A call that is done has a client that is fit, built for an equal bundle.
LEMMA Answered ==
    ASSUME HttpInv, NEW c \in Call, pc[c] = "done"
    PROVE  /\ result[c] \in Call
           /\ Fit(result[c])
           /\ bundle[c] = bundle[result[c]]
<1>1. result[c] \in Call /\ pc[result[c]] = "done" /\ digest[result[c]] = digest[c]
    BY DEF HttpInv, P!RegistryInv, P!Served
<1>2. Fit(result[c])
    BY <1>1 DEF HttpInv, Held
<1>3. /\ bundle[c] \in Bundle /\ bundle[result[c]] \in Bundle
      /\ DigestOf(bundle[c]) = DigestOf(bundle[result[c]])
    BY <1>1 DEF HttpInv, Typed
<1> QED BY <1>1, <1>2, <1>3, DigestTells DEF HttpInv, Typed

\* So does a call that sends its request.
LEMMA SendInv ==
    ASSUME HttpInv, [HttpNext]_httpVars, NEW c \in Call,
           NEW hs \in GatewayHeaders, NEW key \in GatewayValue \cup {None}, Send(c, hs, key)
    PROVE  HttpInv'
<1>1. /\ pc[c] = "done"
      /\ UNCHANGED <<registry, profile, dns, bundle, built>>
    BY DEF Send
<1>2. UNCHANGED <<clients, pc, digest, result, pinned, defaults>>
    BY <1>1 DEF registry, built
<1>3. PICK a \in ConnectsTo(result[c], bundle[c].url) :
         request' = [request EXCEPT ![c] =
            [to |-> a, key |-> key, headers |-> RequestHeaders(hs, key, result[c])]]
    BY DEF Send, RequestHeaders, HasKey
<1>4. a = pinned[result[c]]
    BY <1>1, Answered DEF ConnectsTo
<1>5. P!RegistryInv'
    BY RegistryStepInv
<1>6. Typed'
    BY <1>1, <1>2, <1>3, SameBundles DEF HttpInv, Typed
<1>7. \A e \in Call : Held(e)' => Fit(e)'
    BY <1>1, <1>2, FitKept DEF HttpInv, Held
<1>8. ASSUME NEW e \in Call, Sent(e)' PROVE Request(e)'
    <2>1. CASE e = c
        <3>1. request'[c] =
                [to |-> a, key |-> key, headers |-> RequestHeaders(hs, key, result[c])]
            BY <1>3 DEF HttpInv, Typed
        <3>2. HasKey' = HasKey /\ Framing' = Framing
            BY <1>1 DEF HasKey, operator_has_header, Names, Framing, IsJson
        <3>3. RequestHeaders(hs, key, result[c])' = RequestHeaders(hs, key, result[c])
            BY <1>2, <3>2 DEF RequestHeaders
        <3> QED BY <1>1, <1>2, <1>4, <2>1, <3>1, <3>2 DEF Request, RequestHeaders
    <2>2. CASE e # c
        <3>1. request'[e] = request[e]
            BY <1>3, <2>2 DEF HttpInv, Typed
        <3>2. Request(e)
            BY <1>8, <3>1 DEF HttpInv, Sent
        <3>3. pc'[e] = "done"
            BY <1>2, <3>2 DEF Request
        <3> QED BY <1>1, <1>2, <3>1, <3>2, <3>3, RequestKept
    <2> QED BY <2>1, <2>2
<1> QED BY <1>5, <1>6, <1>7, <1>8 DEF HttpInv

\* So does a change of the DNS, and a step that changes nothing.
LEMMA OutsideInv ==
    ASSUME HttpInv, [HttpNext]_httpVars, (\E h \in Host : Repoint(h)) \/ UNCHANGED httpVars
    PROVE  HttpInv'
<1>1. UNCHANGED <<clients, pc, digest, result, profile, bundle, pinned, defaults, request>>
    BY DEF Repoint, httpVars, registry, built
<1>2. dns' \in [Host -> DnsAnswer]
    BY DEF Repoint, httpVars, HttpInv, Typed
<1>3. P!RegistryInv'
    BY RegistryStepInv
<1>4. Typed'
    BY <1>1, <1>2, SameBundles DEF HttpInv, Typed
<1>5. \A e \in Call : Held(e)' => Fit(e)'
    BY <1>1, FitKept DEF HttpInv, Held
<1>6. ASSUME NEW e \in Call, Sent(e)' PROVE Request(e)'
    <2>1. Request(e)
        BY <1>1, <1>6 DEF HttpInv, Sent
    <2> QED BY <1>1, <2>1, RequestKept DEF Request
<1> QED BY <1>3, <1>4, <1>5, <1>6 DEF HttpInv

-----------------------------------------------------------------------------
(***************************************************************************)
(* The theorems                                                            *)
(***************************************************************************)

\* The invariant holds at the start.
LEMMA HttpInitInv == HttpInit => HttpInv
<1> SUFFICES ASSUME HttpInit PROVE HttpInv
    OBVIOUS
<1>1. P!RegistryInit
    BY DEF HttpInit, R!RegistryInit, P!RegistryInit
<1>2. P!RegistryInv
    BY <1>1, RegistryAssumed, P!InitInv
<1>3. /\ pc = [c \in Call |-> "idle"] /\ clients = [d \in {} |-> None]
      /\ request = [c \in Call |-> None]
    BY DEF HttpInit, R!RegistryInit
<1>4. Typed
    BY <1>3 DEF HttpInit, Typed
<1> QED BY <1>2, <1>3, <1>4 DEF HttpInv, Held, Sent

\* Every step keeps it.
LEMMA HttpStepInv == HttpInv /\ [HttpNext]_httpVars => HttpInv'
<1> SUFFICES ASSUME HttpInv, [HttpNext]_httpVars PROVE HttpInv'
    OBVIOUS
<1>1. ASSUME NEW c \in Call, resolve_client(c) PROVE HttpInv'
    BY <1>1, ResolveInv
<1>2. ASSUME NEW c \in Call, InRegistry(c) \/ BuildFails(c) PROVE HttpInv'
    BY <1>2, InsideInv
<1>3. ASSUME NEW c \in Call, build_http_client(c) PROVE HttpInv'
    BY <1>3, BuildInv
<1>4. ASSUME NEW c \in Call, NEW hs \in GatewayHeaders,
             NEW key \in GatewayValue \cup {None}, Send(c, hs, key)
      PROVE  HttpInv'
    BY <1>4, SendInv
<1>5. CASE Evict
    BY <1>5, InsideInv
<1>6. CASE (\E h \in Host : Repoint(h)) \/ UNCHANGED httpVars
    BY <1>6, OutsideInv
<1> QED BY <1>1, <1>2, <1>3, <1>4, <1>5, <1>6 DEF HttpNext

\* Clients are fit, and requests are put together from them.
THEOREM HttpInvariance == HttpSpec => []HttpInv
BY HttpInitInv, HttpStepInv, PTL DEF HttpSpec

\* The registry that holds the clients is the cache of ClientCache to the
\* calls, and bounded, although builds look up DNS, may be refused by the
\* guard and leave what they built behind.
THEOREM RegistryBehindRequests == HttpSpec => P!CacheSpec /\ []P!CapacityBound
<1>1. HttpInit => P!RegistryInit
    BY DEF HttpInit, R!RegistryInit, P!RegistryInit
<1>2. HttpSpec => P!RegistrySpec
    <2>1. HttpInv /\ [HttpNext]_httpVars => [P!RegistryNext]_(P!registryVars)
        BY StepRefines
    <2> QED BY <1>1, <2>1, HttpInvariance, PTL DEF HttpSpec, P!RegistrySpec
<1>3. P!RegistrySpec => P!CacheSpec
    BY RegistryAssumed, P!RegistryImplementsCache
<1>4. P!RegistrySpec => []P!CapacityBound
    BY RegistryAssumed, P!CapacityHolds
<1> QED BY <1>2, <1>3, <1>4, PTL

\* What a request is, by the invariant.
LEMMA SentShape ==
    ASSUME HttpInv, NEW c \in Call, Sent(c)
    PROVE  /\ request[c].to = pinned[result[c]]
           /\ request[c].to \in Addr
           /\ validate_resolved_address(request[c].to)
           /\ request[c].headers \in [Field -> Header]
           /\ \A f \in Field :
                /\ request[c].headers[f] \in OperatorValue =>
                      /\ request[c].headers[f] = bundle[c].headers[Max(Under(f))]
                      /\ ~is_protected_request_header(Plain(f), IsJson)
                /\ Settable(f) =>
                      \/ request[c].headers[f] = bundle[c].headers[Max(Under(f))]
                      \/ f = "accept" /\ request[c].headers[f] \in {"application/json", "*/*"}
                      \/ f \in {"traceparent", "tracestate"} /\ request[c].headers[f] \in GatewayValue
                /\ request[c].headers[f] \in GatewayValue =>
                      f \in {"traceparent", "tracestate", "idempotency-key"}
           /\ IF Under("idempotency-key") # {}
              THEN request[c].headers["idempotency-key"] \in OperatorValue
              ELSE request[c].headers["idempotency-key"] = request[c].key
<1>1. Request(c)
    BY DEF HttpInv
<1>2. Fit(result[c]) /\ bundle[c] = bundle[result[c]]
    BY <1>1, Answered DEF Request
<1>3. PICK hs \in GatewayHeaders :
         /\ request[c].key \in GatewayValue \cup {None}
         /\ request[c].headers = RequestHeaders(hs, request[c].key, result[c])
    BY <1>1 DEF Request
<1>4. profile \in Profile
    BY DEF HttpInv, Typed
<1>5. /\ request[c].to = pinned[result[c]]
      /\ request[c].to \in Addr
      /\ validate_resolved_address(request[c].to)
    BY <1>1, <1>2 DEF Request, Fit
<1> QED BY <1>2, <1>3, <1>4, <1>5, HeadersShape

\* Types, and no call is handed a client that has not been built
\* (client_registry.rs:88-161, client.rs:29-88).
THEOREM HttpTypes == HttpSpec => []HttpTypeOK
<1>1. HttpInv => HttpTypeOK
    <2> SUFFICES ASSUME HttpInv PROVE HttpTypeOK
        OBVIOUS
    <2>1. \A c \in Call : pc[c] = "done" => pinned[result[c]] \in Addr
        BY Answered DEF Fit
    <2>2. \A c \in Call : request[c] # None =>
             request[c].to \in Addr /\ request[c].headers \in [Field -> Header]
        BY SentShape DEF Sent
    <2> QED BY <2>1, <2>2 DEF HttpTypeOK, HttpInv, Typed
<1> QED BY <1>1, HttpInvariance, PTL

\* Whatever DNS answers and when, a request goes to an address the policy
\* allows, the same for all requests of a client (client.rs:45-83).
THEOREM GuardAlwaysHolds == HttpSpec => []GuardHolds
<1>1. HttpInv => GuardHolds
    BY SentShape DEF GuardHolds
<1> QED BY <1>1, HttpInvariance, PTL

\* A request through a shared client carries the operator's headers, each with
\* the value of its own call (exec.rs:559-575, client_registry.rs:31-54).
THEOREM HeadersAreOwn == HttpSpec => []OwnHeaders
<1>1. HttpInv => OwnHeaders
    BY SentShape DEF OwnHeaders
<1> QED BY <1>1, HttpInvariance, PTL

\* The gateway sets the trace context and the key only, the operator nothing
\* that is protected (exec.rs:27-36, 127-160).
THEOREM ProvenanceAlways == HttpSpec => []Provenance
<1>1. HttpInv => Provenance
    BY SentShape DEF Provenance, Plain
<1> QED BY <1>1, HttpInvariance, PTL

\* The operator's Idempotency-Key wins, and without one the gateway's is sent
\* (exec.rs:144-158).
THEOREM OperatorsKeyWins == HttpSpec => []KeyPrecedence
<1>1. HttpInv => KeyPrecedence
    BY SentShape DEF KeyPrecedence, Under
<1> QED BY <1>1, HttpInvariance, PTL
================================================================================
