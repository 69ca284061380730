# Verification of mcpg-plugin-backend-net-core

TLA+ models of the shared HTTP core of MCPG's network backend plugins, the TLC
runs that check them and the TLAPS proofs about them. Source paths are relative
to the repository root (`src/client_registry.rs` is the crate's file of that
name; `PROJECT.json` writes it `src/src/client_registry.rs`).

## The system

The crate is a library. The http, grpc, graphql, openapi and soap plugins link
it; a plugin registers one `NetworkProfileRuntime` per binding profile and, for
every tool call, resolves a `reqwest::Client`, sends a request, reads the
response and shapes a failure into a `downstreamError`. The gateway is the host:
it resolves credentials and announces revocations and rotations.

| Component | State it keeps | Operations | What makes it correct | Modules |
|---|---|---|---|---|
| Client registry (`client_registry.rs:56-243`) | map digest → (client, credential keys, `last_used`) behind an async mutex; a clock | `get_or_build`, `evict_for`, `evict_for_secret`, `sweep_idle` | bounded; a caller only gets a client of its digest; stamps are last uses, so both evictions take the right entries; calls return | ClientRegistry, ClientCache |
| Idle sweeper (`client_registry.rs:246-306`) | an interval timer, a cancellation token | tick, sweep, cancel | idle clients go in time; ends with the profile | ProfileLifecycle |
| Reference scanner (`client_registry.rs:308-345`) | position in the text | a turn of the loop | finds exactly the references written; ends | CredRefScanner |
| Digest (`client_registry.rs:31-54`) | – | `digest_credential_bundle` | equal digests mean clients that may be shared | HttpClient, NetworkRuntime |
| Profile runtime (`runtime.rs`) | compiled and raw templates, registry, two subscriptions, sweeper | `register`, clone and drop, `resolve_client`, `resolve_static_client`, both callbacks | a call gets its own identity's credentials, none revoked before it began; every announced eviction happens; nothing leaks | NetworkRuntime, ProfileLifecycle |
| Client build (`client.rs`, `safe_dns.rs`) | the pinned address and default headers of each client | `build_http_client` | requests only go where the policy allows, whatever DNS answers later | HttpClient |
| Requests (`exec.rs:23-233`, `443-575`) | – | header filtering, query strings, sending | operator's, gateway's and crate's headers each stay in their place; the upstream reads what was given | HttpClient, QueryString |
| Body readers (`exec.rs:243-441`) | buffer, truncation flag, whether the stream has ended | a chunk, the end, an error, a poll after the end | at most `max_response_bytes`; flag exact; both readers agree; progress agrees with the body | BodyReader, BodyRead |
| Retry guidance (`retry.rs`, `types.rs`, `exec.rs:235-241`) | – | `validate_expected_status_codes`, `parse_and_validate_json_response`, `transport_downstream_error` | fields agree; a POST is never retried blindly; no delay is cut short | RetryGuidance, HttpCall |
| Gateway host, DNS, reqwest, upstreams (external) | credentials, records, bytes | – | – | as far as the code uses them |

How they interact. `resolve_client` awaits the host, then evaluates the
templates, digests the bundle, scans the raw templates for routing keys and
calls `get_or_build`, which awaits `build_http_client` with no lock held. The
host's callbacks do not touch the registry: each spawns a task that does. The
sweeper is one more task. All of them meet only in the registry's mutex, and no
section under that mutex awaits. A call keeps a clone of the runtime it began
with while the plugin's profile map may hold another by now.

What is hard here is order. A call reads the map, lets go, builds, and writes
the map; in between, other calls of the same digest may build and insert, and
revocations, rotations, sweeps and LRU evictions may run. Credential values are
fetched before all that. Spawned evictions run any time later. Callers drop
their futures at any await. DNS answers change while a client lives on. Apart
from that: boundaries (capacity, idle window, response limit, `u64`
milliseconds), and rules that are written down twice and have to agree (two body
readers, several error builders, a scanner next to a parser, two header filters).
`PROJECT.json` lists each of these hazards at its line, with the properties that
cover it or the reason why none does.

## Modules

```
ClientCache              abstract: what get_or_build promises
  ^ refined by
ClientRegistry           the registry          <- ClientRegistryProofs
  ^           ^
  | INSTANCE  | INSTANCE
  |           HttpClient       digest, build, headers, sending <- HttpClientProofs
NetworkRuntime           resolve_client, callbacks, spawned tasks <- NetworkRuntimeProofs
ProfileLifecycle         register, clones, reload, sweeper  <- ProfileLifecycleProofs
CredRefScanner           collect_cred_refs           <- CredRefScannerProofs
QueryString              build_query_string, with_query_string <- QueryStringProofs
BodyRead                 abstract: the first Limit bytes, and whether there were more
  ^ refined by
BodyReader               the buffered and the streaming reader
RetryGuidance            downstreamError
  ^ EXTENDS both
HttpCall                 from the answer to the error  <- HttpCallProofs
```

`SequenceLemmas` has the lemmas about sequences that several proofs cite.
`MC*` modules hold the symmetry sets and the finite sets for TLC; each `.cfg` is
one run.

**ClientRegistry.** One action per critical section. A call moves `idle` →
`lookup` → (`done` by `Hit`, or `build` by `Miss`) → `insert` → `done` by
`LateHit` or `Insert`; `BuildErr` ends it in `failed`, and `Drop` (the caller's
future is dropped) in `dropped`, from any await point. `Insert` contains the LRU
eviction, as the code does it under the same lock; among entries that share the
oldest stamp any may go, since a `HashMap` has no order. A client is named after
the call that built it: a call builds at most one. `clients`, `now`, `digest`,
`keys` are the code's; `result` and `doneAt` record what each call returned and
when.

**ClientCache.** What a caller may rely on, with no lock, clock or build phase.
`Resident` and `CacheStatus` in ClientRegistry map one to the other.

**NetworkRuntime.** A bundle is the resolved URL, a credential value per
reference and the secrets substituted at registration. A value is (identity,
version); versions count revocations and rotations. `DigestOf` is injective on
the bundles of one profile (below). `Answers` lets the host answer with any
version that was current between the request and now. `Revoke` and `Rotate`
change the host's store and, in the same step, run the callback, which adds a
task to `evictTasks` or `clearTasks`; `RunEvict` and `RunClear` take one, any
one, at any time. The registry is the instance `R`; its actions occur here
unchanged. `started` and `inserted` record the host's versions when a call
began and when it inserted.

**ProfileLifecycle.** The generations of one profile. `register` makes one with
both subscriptions and a sweeper; `Publish` stores it in the plugin's map in
place of the old one and `Unload` takes it out (the map is the plugin's, so
these two are external); `Dispatch`, `ClientResolved` and `Finish` are a call
that holds a clone from beginning to end. `DropClone` is what the `Arc`s around
subscriptions and guard do: the last clone unsubscribes and cancels. `Announce`
runs the callbacks of every live subscription, `RunEviction` a task one of them
spawned. The sweeper goes `spawned` → `waiting` → `sweeping` → `waiting` …, or
`ended`: its first tick is consumed, a later one comes an interval after the
last was taken (`MissedTickBehavior::Delay`), and between tick and sweep it
waits for the mutex. Of the registry only hand-outs and evictions are told, with
every client depending on everything announced.

**HttpClient.** From the bundle to the wire. `DigestOf` keeps what
`digest_credential_bundle` hashes: the URL, and for each lower-cased name its
values in the order of the pairs (the sort is stable). The registry is the
instance `R`. `Repoint` changes DNS at any time; `build_http_client` looks up
once, takes the first address the policy lets pass (its own test of
`is_private_address`, which `validate_resolved_address` states as a function),
pins it, and bakes in the operator's
headers; `Send` goes to the pinned address for the host the client was built for
and asks DNS for any other, and merges per-call headers, `Accept` and
`Content-Type`, and the client's defaults, as reqwest does. A header name is a
field and a spelling (lower, title, padded with blanks), so that comparisons by
case and by trimming can differ; a value is known by who set it. Of the
`x-forwarded-*` names, which are all treated alike, `x-forwarded-for` stands.

**QueryString.** Texts are sequences of bytes here, for what a byte means is the
question. `Read` is the form-urlencoded parser of an upstream: `ReadByte` takes
one byte, `ReadFrom` a run of them. It reads any text, the operator's own query
included: `&` and the first `=` end a name or a value even inside an escape that
was cut short, and such an escape is read as `?`, for what it is read as matters
to no property, only that it stays where it was.

**CredRefScanner.** One turn of the `while let` per step, over tokens. A text is
up to `MaxSegments` segments: literals, and references in the forms that occur in
the code, its tests and its comments. `open` stands for `${`, `close` for `}`.

**BodyReader.** Bytes are counted, not carried. The upstream is an environment of
its own: it sends chunks, and ends the body or breaks it off (`UpstreamStops`),
which a reader sees only at its next poll; `upstream` and `received` are what it
did, whatever the reader makes of it. `reader` says which of the two loops gets
the response; each has its own actions, `state`, `buf`, `truncated` and
`done_emitted` are the code's, `item` is what the last poll of the stream yielded
and `result` what the reader returned. `Lossy(n)` is the set of lengths the
string can have that `from_utf8_lossy` makes of the first `n` bytes: `n` if they
are whole UTF-8; if the limit left one to three bytes of a character, those may
become one U+FFFD, of three bytes; and up to `3n` if the body is not UTF-8
(`utf8`).

**RetryGuidance** and **HttpCall.** RetryGuidance has the functions of `retry.rs`
and the two ways `send()` ends; it has no specification of its own. HttpCall
puts it together with BodyReader: the body is read between the answer and the
error, `Summary` is the `HttpResponseSummary` made of both, a failure while
reading loses the status. `Parses` goes by the kept bytes, as `serde_json` does,
and not by the flag: a string made of all the bytes of a UTF-8 body parses if the
document does, one that lacks bytes or had some replaced may or may not, an empty
one does not. The plugin that decides which function to ask is external, so any of those that
apply may be asked. `MaxMs` stands for `u64::MAX`.

## What each run checks

| Run | Instance | Shows |
|---|---|---|
| `registry` | 4 calls, 3 digests, capacity 2, window 1, clock 0..2 | `TypeOK`, `CapacityBound`, `OwnDigest`, `StampIsLastUse`, `LruSparesRecent`, `SweepTakesExactlyIdle`, and `CacheSpec`: ClientRegistry implements ClientCache |
| `registry_herd` | 2 calls, 1 digest | refutes `NoParallelBuilds` |
| `runtime` | 2 calls, 2 identities, 1 pair, 1 secret, 1 announcement of each | `RuntimeTypeOK`, `OwnCredentials`, `RevocationReaches`, `RotationReaches`, `RegistryRefined` |
| `runtime_liveness` | 2 calls, capacity 1, clock 0..1, window 0 | `RevokedLeaves` and `CallsReturn`, with LRU eviction and the idle sweep at work |
| `revoked_is_evicted` | 1 call | refutes `RevokedIsEvicted` |
| `profile_lifecycle` | 1 call at a time, 2 generations, 1 digest, window, interval and lateness 1, clock 0..6, 1 announcement | `LifecycleTypeOK`, `AnnouncementsReachClones`, `IdleBound`, `NoLeak` |
| `http_client` | 2 calls, 2 hosts, 7 profiles, 4 DNS answers, capacity 1 | `HttpTypeOK`, `GuardHolds`, `OwnHeaders`, `Provenance`, `KeyPrecedence` |
| `operator_accept` | 1 call | refutes `OperatorAcceptSent` |
| `query_string` | objects of 2 keys, up to 2 items each, 8 texts, 6 base queries | `ArgumentsArrive`, `OperatorQueryStays` |
| `http_call` | limit 5, chunks 1, 2, 3, 7, up to 16 bytes, 6 status codes, `MaxMs` 65535 | `PromiseKept` (BodyReader implements BodyRead inside a call), `ProgressTellsTheBody`, `NothingCutSilently`, `EndsOnce`, `ReaderTypeOK`, `PostNeverRetriedBlindly`, `GuidanceAgrees`, `DelayAsAsked`, `TransportMeansIncomplete`, `WholeJsonAccepted` |
| `cred_ref_scanner` | up to 3 segments, 2 plugins, 4 forms | `FindsWhatIsWritten`, `TurnsAdvance` |
| `braced_references_route` | 1 braced reference | refutes `BracedReferencesRoute` |

Why the bounds are enough. The smallest registry in which an insertion must
evict one of several others while a third digest is built and a fourth call
races on one of them is 4 calls, 3 digests and capacity 2; two ticks tell
"newer", "older" and "too old" apart with a window of one. In the runtime two
calls are one that is in flight and one that comes later; two versions are before
and after a revocation. A lifecycle needs two generations and a call that
outlives the reload; `IdleBound` is 4 ticks there, so a clock of 6 leaves room to
pass it, and the one call slot is used again and again. HttpClient needs a call
that is handed a client another one has built, for the same or for another host,
after DNS has changed; the profiles have each kind of name once: in two
spellings, protected always, protected with a JSON body only, with blanks around,
an idempotency key in either spelling. The texts of the query have every byte
with a meaning alone, next to others, at either end, and one that looks encoded
already. Chunks of the body cover: smaller than the limit, equal to what is left,
more than what is left, larger than the limit, and a body that passes the limit
more than once, each with an upstream that may end or break off after any chunk,
in UTF-8 or not; 65 and 66 seconds are the two sides of the overflow.

The bounds that the code does not have: `MaxTime`, `MaxVersion`, `MaxAnnounced`,
`MaxTotal`, `MaxSegments`, `MaxItems`, and `MaxMs`, which is smaller than the
code's.

Deadlock is checked for the registry and the runtime, where the sweep is always
enabled. The others describe two calls, one response, one text or one query, or
a history whose clock and announcements end, and really stop.

Fairness. `FairRuntimeSpec` assumes weak fairness of spawned evictions and of
each call's next step in the registry: tokio schedules tasks, its mutex is FIFO
and is never held across an await, so a waiting call gets it, and a build ends
because the resolver it awaits gives up at last. Nothing is assumed about
resolving credentials, dropped futures, the clock, the sweep or LRU evictions.
`FairLifecycleSpec` assumes that the sweeper and spawned evictions run; nothing
about calls, reloads or the clock. `OnTime` is not fairness but a bound: the
clock does not pass the moment at which a due step of the sweeper is more than
`Late` behind. Tokio promises no such number; `IdleBound` says what follows from
one.

Every property of a passing run has a mutant in `PROJECT.json`: an alternative
definition, placed before the real one and marked `Mutant:`, with which TLC
finds it violated.

## Where code and comments disagree

Shown by a run:

- `NoParallelBuilds`: cold callers of one digest do build in parallel; the
  comment of `get_or_build` says they do not.
- `BracedReferencesRoute`: from `${cred://oauth/api}` the scanner takes the
  target `api}`, so a client keyed that way is not evicted when (oauth, api) is
  revoked. It holds for the forms of `cred_ref_scanner`.
- `RevokedIsEvicted`: a client whose build was in flight when its credential was
  revoked is inserted after the eviction and stays.
- `OperatorAcceptSent`: an operator's `Accept` is displaced by the crate's own on
  every request, though the filter lets it pass for a GET.

What holds instead of `RevokedIsEvicted`: `RevocationReaches` (every client in the
map at the announcement is still to be evicted) and `OwnCredentials` (no call
that starts after a revocation gets the revoked credential, even from a stale
resident client, because its digest differs). `RevocationReaches`,
`RotationReaches` and `RevokedLeaves` speak of references the scanner routes:
`Routed` is a constant, and where it lacks a pair, as it does for a braced
reference without a query, they promise nothing for it.

Met while modelling, and modelled as the code has it:

- The two JSON errors call a GET potentially non-idempotent
  (`retry.rs:173-224`), against the meaning `types.rs:47-48` gives the mode.
- After a rotation clients are rebuilt from the text compiled at registration,
  against `client_registry.rs:186-187`. A gateway that registers the profile
  anew would cure it; that is outside this crate.
- The module comment `client.rs:6-8` says the first non-private address is
  pinned; with `allow_private_backends` it is the first.
- The digest depends on the order of pairs whose names are equal but for case,
  against `client_registry.rs:41-42`. The runtime always makes them in one
  order, so nothing follows from it (`OwnHeaders`).
- A JSON document that was cut at the limit is reported as an
  `invalid_json_body`, as if the upstream had sent it so (`retry.rs:190`);
  `WholeJsonAccepted` says that this happens to no document that fits.
- The reported string can be longer than `max_response_bytes`, against the
  comment of `BodyReadStep::Done` (`exec.rs:329-331`): what the limit leaves of a
  character becomes a U+FFFD, and every byte that is not UTF-8 may become one.
  `ProgressTellsTheBody` says by how much a UTF-8 body can be longer.
- A trace header of the gateway whose name is not a valid one fails the whole
  call (`exec.rs:139`), where names that are not passed on do not matter.
- Nothing calls `static_digest`.

## What is proved

All proofs are for arbitrary sets of calls, digests, identities, credentials and
generations and arbitrary capacity, window and limit, from the ASSUMEs of the
modules: types of the constants, that `None` is none of the values it stands
next to, that operator's and gateway's values can be told apart, that plugin ids
and targets hold no byte the scanner has a rule for, and that two hexadecimal
digits tell which byte was escaped. TLC evaluates all of these on the runs'
instances. Three assumptions restrict more than that, each for the theorems named
below only: `Late <= IdleEviction`, `0 \notin ChunkSize` and
`"braced" \notin Form`.

`SequenceLemmas`. The induction theorems of the library take an operator as a
parameter, which the provers cannot instantiate. `SetInduction` is induction for
a *set* of naturals, from `<` being well-founded on them; with it one can show
that a fold exists step by step and say what it is: where each part of a
`FlattenSeq` lies (`FlattenLayout`), that the parts are in order (`LayoutOrder`)
and that nothing else is in it (`LayoutCovers`).

`ClientRegistryProofs`. `TypeOK` and `OwnDigest` are not inductive: a hit hands
out the client of an entry, so one must know of the entry what one wants to
conclude of the answer. The inductive invariant is

    RegistryInv == TypeOK /\ Asked /\ Built /\ Served

– a started call has a digest; an entry's client was built by a finished call for
that entry's digest; a finished call holds such a client. "Finished" matters: the
digest of a finished call does not change any more. From it:

- `TypeCorrect`, `OwnDigestHolds`;
- `CapacityHolds`, from `CapacityInv == IsFiniteSet(DOMAIN clients) /\
  CapacityBound` (cardinalities mean nothing before finiteness is known): an
  insertion into a map within the bound makes at most one entry too many, and
  then one goes;
- `StampHolds`, from `StampInv`, which adds that no answer lies in the future;
- `SweepExact` and `LruExact`, the two action properties, from `StampInv`, for
  the evictions decide by stamps and the properties speak of hand-outs.

The same module proves `RegistryImplementsCache`: `Hit` and `LateHit` are `AnswerResident`, `Insert` is `AnswerFresh`, evictions are `Forget`,
`BuildErr` and `Drop` are `GiveUp`, `Miss`, `BuildOk` and `Tick` stutter. It
needs `RegistryInv` and `CapacityInv`: that at most one entry goes is only true
of a map within its bound.

`NetworkRuntimeProofs` first proves `RuntimeRefinesRegistry`: every step of the
runtime is one of the registry or leaves it alone. So the registry's own
invariant can be used, and

    RuntimeInv == RegistryInv /\ Typed /\ Asks /\ Entries
                  /\ RevocationReaches /\ RotationReaches

adds what ties the two together: a call's digest and keys are those of its
bundle, whose values are its own identity's and not older than the call
(`Asks`), and an entry carries the keys of the call that built it (`Entries`).
The two announcements are part of the invariant because they are inductive only
together with it: an entry escapes `evict_for` only if its keys lack the pair,
which `Entries` excludes. From it `RuntimeTypes`, `OwnCredentialsAlways` (with
`OwnDigest`, and because equal digests are equal bundles), `RevocationsReach` and
`RotationsReach`. `RegistryInsideRuntime` carries the registry's own theorems
over: whatever the runtime does around it, the registry is the cache of
ClientCache, bounded, and evicts exactly.

`ProfileLifecycleProofs`. That announcements arrive rests on the subscriptions
of a runtime living as long as its clones (`Kept`). `IdleBound` rests on the
sweeper living as long, and on where it stands: `Schedule` says by when its next
step is due, `Fresh` how far that can lie after the hand-out of a client – not at
all while the task is `spawned`, window plus interval while it waits, and `Late`
more while it sweeps. From these `LifecycleTypes`, `Announced`,
`IdleBounded`. `Late <= IdleEviction` is assumed: a sweeper that starts later
than the window would find clients that are too old at its first tick already.

`HttpClientProofs`. The invariant is the registry's, the types, that every client
somebody holds is `Fit` (its pin is one the guard passes, its defaults are those
of its builder's bundle), and that a request is what its client and its call make
of it. `DigestTells` says that calls of one digest have one bundle, and
`OwnDigestHolds` that a call is only given a client of its digest; with both, a
client another call has built is as good as one's own. From it `HttpTypes`,
`GuardAlwaysHolds`, `HeadersAreOwn` (no operator header is missing, none is
another call's), `ProvenanceAlways`, `OperatorsKeyWins`;
`RegistryBehindRequests` says of the registry here that it is the cache of
ClientCache and bounded.

`HttpCallProofs`, of the reader. `ReaderTypeCorrect` needs bounds of the string
(`LossyBounds`). `EndsTell` says that a reader returns when, and only when, it has
seen how the upstream stopped, and tells just that; and that the last item of a
stream that is still read is its buffer's length. `StreamEndsOnce` follows: after
the end nothing polls the upstream. `KeptStep` is the one place where the two
loops are looked into: both do the same with a chunk, and all their other steps
hand on what was read. From it `NothingIsCutSilently`, that the body is as much of
what was received as fits, and the flag is set when there was more, for chunks of
any length; `ProgressTells`; and `ReaderKeepsPromise` under the assumption
`0 \notin ChunkSize`, from the invariant `Exact`. The assumption is needed: with
the buffer exactly full any further chunk sets `truncated` (`exec.rs:266-269`,
`403-405`), an empty one too. Whether a chunk can be empty is hyper's to say, so
the runs leave it out and the theorem names it. `NothingCutSilently` is what
remains without it: the flag may be set for nothing, but never on a body shorter
than the limit, and no byte is lost without it.

`HttpCallProofs`, of the call. `CallReads`: a call is a run of the reader, so what
is proved of the reader holds in it. `CallInv` relates the error to the answer and
the reader it was made from; `GuidanceAgreesAlways`, `PostsAreReviewed` and
`DelaysAreAsked` follow. With `EndTells`, which ties what the reader returned to
what the upstream did, so does `TransportErrorsAreIncomplete`; with
`NothingCutSilently`, `WholeJsonIsAccepted`: a document that fits is kept to its
last byte.

`CredRefScannerProofs`, for texts of any number of segments. The invariant
`ScannerInv` says that, for some `k`, the scan has found what the first `k`
segments hold and nothing else, and goes on from a position that is not past the
beginning of the next one and behind every scheme of theirs. It is kept because the scheme can only stand where a reference begins (`SchemesOnly`): the
first one the next turn finds is that of the next reference (`NextReference`),
and the turn ends inside that reference's own segment (`TurnTakes`). From it
`FindsAllReferences`, under `"braced" \notin Form`: `}` ends no match, so a
reference in bare braces takes what follows for the rest of its target, which is
what `braced_references_route` shows. `TurnsAlwaysAdvance` needs none of that and
holds for every form.

`QueryStringProofs`, for any keys, texts and URLs. What a reader has read of
`s \o t` is what it reads of `t` from where `s` left it (`ReadConcat`). So a byte
that is escaped, and one that is not, is read as it was (`ReadEscaped`,
`ReadPlain`), a text too (`ReadEncoded`), a pair, and the pairs one behind the
other (`ReadPair`, `ReadJoined`, `ReadBuilt`), from the start or from behind the
operator's own query, however that one is written (`ReadAppended`). `QueryInv`
ties the variables to these operators. From it `ArgumentsAlwaysArrive` and
`OperatorQueryAlwaysStays`.

Only model-checked, for good: `RevokedLeaves`, `CallsReturn` and `NoLeak`, since
liveness under fairness is out of the prover's reach. Every other property of a
passing run is a theorem.

## What is not modelled

- BLAKE3: digests are what is hashed. Collisions are taken not to happen, and
  for one profile the hashed text determines the bundle: the header names are
  fixed, header values are validated and hold no newline, and the URL is hashed
  last.
- CEL evaluation and `build_expr_context`, which copies fields into a context;
  URL parsing, JSON, TLS, sockets, which addresses are private: other crates. A
  template may evaluate to any of a few values, or fail.
- The request timeout and the redirect policy, which are reqwest's: a body may
  end in an error at any time, and no redirect is followed.
- `response_is_streaming`, a predicate on response headers that plugins consult.
- Which characters a body consists of: of its conversion to a string only the
  length is told.
- Durations, metrics, logs, messages, codes, `suggested_action` and `details`.
- The serde types of `types.rs` beyond the fields that decide something.

## Plan

Done: every step of the first plan. The registry with its abstract specification,
proofs and refinement; the runtime composed with it; the lifecycle and the
sweeper; clients, DNS and headers composed with the registry; query strings; the
body readers composed with retry guidance; the scanner; proofs of every safety
and action property.

Left, in order of use: the guarantees of the
scanner composed with the runtime, so that `Routed` is computed from the texts
instead of being a constant; ProfileLifecycle composed with the whole registry, which TLC could
check for one call only.
