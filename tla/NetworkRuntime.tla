----------------------------- MODULE NetworkRuntime -----------------------------
(***************************************************************************)
(* NetworkProfileRuntime of src/src/runtime.rs for one binding profile:    *)
(* how resolve_client turns a caller's credentials into a bundle, a digest *)
(* and routing keys for the ClientRegistry, and how the revocation and     *)
(* rotation callbacks of the host reach the registry through spawned       *)
(* tasks, in no particular order.                                          *)
(*                                                                         *)
(* The host and its credential cache are external.  They are modelled as   *)
(* runtime.rs uses them: resolve_credentials answers, for the caller's     *)
(* identity, with values that were current at some moment of the request,  *)
(* and a credential is already gone when its revocation is announced.      *)
(* A credential or secret value is its owner and its version.              *)
(***************************************************************************)
EXTENDS Naturals, FiniteSets

CONSTANTS
    Call,           \* invocations of resolve_client, resolve_static_client
    Caller,         \* identities a request can carry
    Pair,           \* (plugin_id, target) pairs the host can revoke
    Ref,            \* the pairs the compiled templates refer to
    Routed,         \* the pairs collect_cred_refs finds in the raw templates
    Url,            \* what the URL template can evaluate to
    BaseUrl,        \* profile.url
    Secret,         \* secret URIs the host can rotate
    ProfileSecret,  \* `secret_refs`: those this profile was compiled from
    MaxEntries, IdleEviction, MaxTime,  \* as in ClientRegistry
    MaxVersion,     \* bound: how often each credential or secret changes
    None            \* no caller, no bundle, no client

ASSUME RuntimeAssumption ==
    /\ Ref \subseteq Pair
    /\ Routed \subseteq Pair
    /\ BaseUrl \in Url
    /\ ProfileSecret \subseteq Secret
    /\ MaxVersion \in Nat
    /\ None \notin Caller \cup Call
    /\ MaxEntries \in Nat /\ IdleEviction \in Nat /\ MaxTime \in Nat

VARIABLES
    clients, now, pc, digest, keys, result, doneAt,  \* the registry's
    stage,        \* how far each call is before it reaches the registry
    caller,       \* request.identity; None for resolve_static_client
    bundle,       \* resolved_url and resolved_headers, what the build bakes
    credVersion,  \* host: current version of each pair for each caller
    secretVersion,\* host: current version of each secret
    evictTasks,   \* spawned tasks that will run evict_for, per pair
    clearTasks,   \* spawned tasks that will run evict_for_secret
    started,      \* history: the host's versions when each call started
    inserted      \* history: the host's versions when each call inserted

registry == <<clients, now, pc, digest, keys, result, doneAt>>
host == <<credVersion, secretVersion>>
tasks == <<evictTasks, clearTasks>>
runtimeVars ==
    <<registry, stage, caller, bundle, host, tasks, started, inserted>>

(***************************************************************************)
(* resolve_client bakes the URL and every header; a header is a credential *)
(* value, or text the secrets were already substituted in when the         *)
(* templates were compiled.  resolve_static_client bakes the URL alone.    *)
(***************************************************************************)
Version == 0 .. MaxVersion

Value == [of : Caller, version : Version]

Bundle ==
    [url : Url, creds : [Ref -> Value], secrets : [ProfileSecret -> Version]]
        \cup [url : {BaseUrl}, creds : [{} -> Value], secrets : [{} -> Version]]

R == INSTANCE ClientRegistry WITH Digest <- Bundle, Key <- Pair

\* No bundle is the value that stands for none.
ASSUME BundleAssumption == None \notin Bundle

\* The templates are compiled once, by register, from the secrets of that day.
Compiled == [s \in ProfileSecret |-> 0]

CallBundle(u, url, version) ==
    [url     |-> url,
     creds   |-> [r \in Ref |-> [of |-> u, version |-> version[r]]],
     secrets |-> Compiled]

BaseBundle ==
    [url |-> BaseUrl, creds |-> [r \in {} |-> None], secrets |-> [s \in {} |-> 0]]

\* Mutant: the digest covers the URL and the compiled text only.
DigestWithoutCreds(b) == [b EXCEPT !.creds = [r \in {} |-> None]]

\* BLAKE3 over every (field, value) pair of the bundle: equal digests mean
\* equal bundles.
DigestOf(b) == b

Versions == [cred |-> credVersion, secret |-> secretVersion]

RuntimeInit ==
    /\ R!RegistryInit
    /\ stage = [c \in Call |-> "idle"]
    /\ caller = [c \in Call |-> None]
    /\ bundle = [c \in Call |-> BaseBundle]
    /\ credVersion = [p \in Pair |-> [u \in Caller |-> 0]]
    /\ secretVersion = [s \in Secret |-> 0]
    /\ evictTasks = [p \in Pair |-> 0]
    /\ clearTasks = 0
    /\ started = [c \in Call |-> Versions]
    /\ inserted = [c \in Call |-> Versions]

-----------------------------------------------------------------------------
\* A request of identity u: resolve_client asks the host for the values of
\* the references in the templates, and awaits them.
resolve_client(c, u) ==
    /\ stage[c] = "idle"
    /\ stage' = [stage EXCEPT ![c] = "resolving"]
    /\ caller' = [caller EXCEPT ![c] = u]
    /\ started' = [started EXCEPT ![c] = Versions]
    /\ UNCHANGED <<registry, bundle, host, tasks, inserted>>

\* The host's answer: for each reference a value that was current at some
\* moment between the request and now.
Answers(c) ==
    {version \in [Ref -> Version] :
        \A r \in Ref :
            /\ started[c].cred[r][caller[c]] <= version[r]
            /\ version[r] <= credVersion[r][caller[c]]}

\* Mutant: no routing keys, as if the evaluated templates had been scanned.
NoKeys == {}

\* collect_cred_refs over the raw templates, whatever the call's arguments.
RoutingKeys == Routed

AskRegistry(c, b, ks) ==
    /\ stage' = [stage EXCEPT ![c] = "asked"]
    /\ bundle' = [bundle EXCEPT ![c] = b]
    /\ R!Call_get_or_build(c, DigestOf(b), ks)

\* No await separates the host's answer from get_or_build.
Resolved(c) ==
    /\ stage[c] = "resolving"
    /\ \E version \in Answers(c), url \in Url :
          AskRegistry(c, CallBundle(caller[c], url, version), RoutingKeys)
    /\ UNCHANGED <<caller, host, tasks, started, inserted>>

\* The host refuses, a template fails to evaluate, a header value is not
\* valid; or the caller drops the future.
Unresolved(c) ==
    /\ stage[c] = "resolving"
    /\ \E end \in {"failed", "dropped"} : stage' = [stage EXCEPT ![c] = end]
    /\ UNCHANGED <<registry, caller, bundle, host, tasks, started, inserted>>

resolve_static_client(c) ==
    /\ stage[c] = "idle"
    /\ AskRegistry(c, BaseBundle, {})
    /\ started' = [started EXCEPT ![c] = Versions]
    /\ UNCHANGED <<caller, host, tasks, inserted>>

-----------------------------------------------------------------------------
RegistryOnly == UNCHANGED <<stage, caller, bundle, host, tasks, started>>

InRegistry(c) ==
    /\ RegistryOnly
    /\ \/ R!Hit(c) /\ UNCHANGED inserted
       \/ R!Miss(c) /\ UNCHANGED inserted
       \/ R!BuildOk(c) /\ UNCHANGED inserted
       \/ R!BuildErr(c) /\ UNCHANGED inserted
       \/ R!LateHit(c) /\ UNCHANGED inserted
       \/ R!Insert(c) /\ inserted' = [inserted EXCEPT ![c] = Versions]

DropInRegistry(c) == R!Drop(c) /\ RegistryOnly /\ UNCHANGED inserted

\* The host invalidates u's credential for p, then calls the revocation
\* callback, which spawns a task.
Revoke(p, u) ==
    /\ credVersion[p][u] < MaxVersion
    /\ credVersion' = [credVersion EXCEPT ![p][u] = @ + 1]
    /\ evictTasks' = [evictTasks EXCEPT ![p] = @ + 1]
    /\ UNCHANGED <<registry, stage, caller, bundle, secretVersion, clearTasks,
                   started, inserted>>

\* Mutant: the filter on secret_refs is inverted.
SpawnsInverted(s) == s \notin ProfileSecret

\* The rotation callback returns early for secrets of other profiles.
Spawns(s) == s \in ProfileSecret

Rotate(s) ==
    /\ secretVersion[s] < MaxVersion
    /\ secretVersion' = [secretVersion EXCEPT ![s] = @ + 1]
    /\ clearTasks' = IF Spawns(s) THEN clearTasks + 1 ELSE clearTasks
    /\ UNCHANGED <<registry, stage, caller, bundle, credVersion, evictTasks,
                   started, inserted>>

\* Mutant: a task runs although nothing was announced.
RunEvictUnasked(p) ==
    /\ evictTasks' = [evictTasks EXCEPT ![p] = @ - 1]
    /\ R!evict_for(p)
    /\ UNCHANGED <<stage, caller, bundle, host, clearTasks, started, inserted>>

\* Mutant: only the first entry that matches is dropped.
RunEvictFirst(p) ==
    /\ evictTasks[p] > 0
    /\ evictTasks' = [evictTasks EXCEPT ![p] = @ - 1]
    /\ \E d \in R!RoutedTo(p) : R!Evict({d})
    /\ UNCHANGED <<stage, caller, bundle, host, clearTasks, started, inserted>>

RunEvict(p) ==
    /\ evictTasks[p] > 0
    /\ evictTasks' = [evictTasks EXCEPT ![p] = @ - 1]
    /\ R!evict_for(p)
    /\ UNCHANGED <<stage, caller, bundle, host, clearTasks, started, inserted>>

RunClear ==
    /\ clearTasks > 0
    /\ clearTasks' = clearTasks - 1
    /\ R!evict_for_secret
    /\ UNCHANGED <<stage, caller, bundle, host, evictTasks, started, inserted>>

Sweep == R!sweep_idle /\ RegistryOnly /\ UNCHANGED inserted

Tick == R!Tick /\ RegistryOnly /\ UNCHANGED inserted

RuntimeNext ==
    \/ \E c \in Call :
          \/ \E u \in Caller : resolve_client(c, u)
          \/ Resolved(c)
          \/ Unresolved(c)
          \/ resolve_static_client(c)
          \/ InRegistry(c)
          \/ DropInRegistry(c)
    \/ \E p \in Pair : RunEvict(p) \/ \E u \in Caller : Revoke(p, u)
    \/ \E s \in Secret : Rotate(s)
    \/ RunClear
    \/ Sweep
    \/ Tick

RuntimeSpec == RuntimeInit /\ [][RuntimeNext]_runtimeVars

(***************************************************************************)
(* Spawned tasks run: tokio schedules them.  A call in the registry        *)
(* goes on: the mutex it waits for is FIFO and never held across an await, *)
(* and a build ends, with a client or an error, because the resolver it    *)
(* awaits gives up at last.  Nothing is assumed of the host or the callers.*)
(***************************************************************************)
FairRuntimeSpec ==
    /\ RuntimeSpec
    /\ \A p \in Pair : WF_runtimeVars(RunEvict(p))
    /\ WF_runtimeVars(RunClear)
    /\ \A c \in Call : WF_runtimeVars(InRegistry(c))

-----------------------------------------------------------------------------
(***************************************************************************)
(* Properties                                                              *)
(***************************************************************************)

\* Types; a call reaches the registry only through one of the two entry
\* points.
RuntimeTypeOK ==
    /\ stage \in [Call -> {"idle", "resolving", "asked", "failed", "dropped"}]
    /\ \A c \in Call : pc[c] # "idle" <=> stage[c] = "asked"
    /\ caller \in [Call -> Caller \cup {None}]
    /\ \A c \in Call : bundle[c] \in Bundle
    /\ credVersion \in [Pair -> [Caller -> Version]]
    /\ secretVersion \in [Secret -> Version]
    /\ evictTasks \in [Pair -> Nat]
    /\ clearTasks \in Nat

\* The client a call is answered with carries its own identity's credential
\* for every reference of the templates, none revoked before the call
\* started, however late the eviction tasks run; the static path gets a
\* client that carries none.
OwnCredentials ==
    \A c \in Call : pc[c] = "done" =>
        LET baked == bundle[result[c]].creds IN
        IF caller[c] = None
        THEN DOMAIN baked = {}
        ELSE /\ DOMAIN baked = Ref
             /\ \A r \in Ref :
                   /\ baked[r].of = caller[c]
                   /\ baked[r].version >= started[c].cred[r][caller[c]]

\* A revocation reaches every resident client that depends on the revoked
\* credential and was in the map when it was announced: until the client is
\* gone, a task that will take it is still to run.
RevocationReaches ==
    \A d \in DOMAIN clients :
        LET b == clients[d].client IN
        \A r \in DOMAIN bundle[b].creds \cap Routed :
            LET u == bundle[b].creds[r].of IN
            credVersion[r][u] > inserted[b].cred[r][u] => evictTasks[r] > 0

\* The same for a secret the profile was compiled from, and every client.
RotationReaches ==
    \A d \in DOMAIN clients, s \in ProfileSecret :
        secretVersion[s] > inserted[clients[d].client].secret[s] => clearTasks > 0

\* A revoked client does leave: one resident when its credential is revoked
\* is not resident for ever.
RevokedLeaves ==
    \A c \in Call, r \in Ref \cap Routed, u \in Caller :
        /\ \E d \in DOMAIN clients : clients[d].client = c
        /\ caller[c] = u
        /\ credVersion[r][u] > inserted[c].cred[r][u]
        ~> ~ \E d \in DOMAIN clients : clients[d].client = c

\* Every get_or_build returns, unless its caller drops it, whatever the other
\* calls, the evictions and the sweeps do between its two locked sections.
CallsReturn == R!CallsReturn

\* The runtime uses the registry as ClientRegistry allows, so what is proved
\* of the registry holds inside the runtime.
RegistryRefined == R!RegistrySpec

\* README.md: one client per resolved bundle, evicted when its credential is
\* revoked.
RevokedIsEvicted ==
    \A d \in DOMAIN clients :
        LET b == clients[d].client IN
        \A r \in DOMAIN bundle[b].creds \cap Routed :
            LET v == bundle[b].creds[r] IN
            v.version < credVersion[r][v.of] => evictTasks[r] > 0
================================================================================
