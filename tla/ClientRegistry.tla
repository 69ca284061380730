----------------------------- MODULE ClientRegistry -----------------------------
(***************************************************************************)
(* The bounded per-credential reqwest::Client cache of                     *)
(* src/src/client_registry.rs.                                             *)
(*                                                                         *)
(* Every method holds the async mutex `inner` over a section that contains *)
(* no await, so each such section is one action.  get_or_build has two of  *)
(* them, with the build between them and no lock held: a call looks up,    *)
(* builds, and then looks up again before it inserts.                      *)
(*                                                                         *)
(* A call of get_or_build builds at most one client, so a client is named  *)
(* after the call that built it.  Digests are opaque here: what they       *)
(* digest is the business of NetworkRuntime.                               *)
(***************************************************************************)
EXTENDS Naturals, FiniteSets, Functions

CONSTANTS
    Call,          \* invocations of get_or_build
    Digest,        \* CredDigest: BLAKE3 digests of resolved bundles
    Key,           \* (plugin_id, target) pairs that route revocations
    MaxEntries,    \* config.max_entries
    IdleEviction,  \* config.idle_eviction, in clock ticks
    MaxTime,       \* bound: the clock stops here
    None           \* no digest, no client

ASSUME RegistryAssumption ==
    /\ MaxEntries \in Nat
    /\ IdleEviction \in Nat
    /\ MaxTime \in Nat
    /\ None \notin Digest
    /\ None \notin Call

VARIABLES
    clients,  \* Inner::clients, digest |-> ClientEntry
    now,      \* now_millis(), in ticks
    pc,       \* where each call of get_or_build is
    digest,   \* its argument `digest`
    keys,     \* its argument `cred_keys`
    result,   \* the client it returned
    doneAt    \* history: when it returned one

registryVars == <<clients, now, pc, digest, keys, result, doneAt>>

(***************************************************************************)
(* "lookup"  waiting for the first lock      "done"    returned Ok(client) *)
(* "build"   the build future is running     "failed"  returned Err        *)
(* "insert"  waiting for the second lock     "dropped" future dropped      *)
(***************************************************************************)
Pc == {"idle", "lookup", "build", "insert", "done", "failed", "dropped"}

ClientEntry == [client : Call, credKeys : SUBSET Key, lastUsed : Nat]

RegistryInit ==
    /\ clients = [d \in {} |-> None]
    /\ now = 0
    /\ pc = [c \in Call |-> "idle"]
    /\ digest = [c \in Call |-> None]
    /\ keys = [c \in Call |-> {}]
    /\ result = [c \in Call |-> None]
    /\ doneAt = [c \in Call |-> 0]

-----------------------------------------------------------------------------
Goto(c, from, to) ==
    /\ pc[c] = from
    /\ pc' = [pc EXCEPT ![c] = to]

Return(c, from, client) ==
    /\ Goto(c, from, "done")
    /\ result' = [result EXCEPT ![c] = client]
    /\ doneAt' = [doneAt EXCEPT ![c] = now]
    /\ UNCHANGED <<now, digest, keys>>

\* Mutant: last_used is not refreshed when a client is handed out again.
TouchNothing(d) == clients

\* entry.last_used.store(now): a shared entry is refreshed in place.
Touch(d) == [clients EXCEPT ![d].lastUsed = now]

Call_get_or_build(c, d, ks) ==
    /\ Goto(c, "idle", "lookup")
    /\ digest' = [digest EXCEPT ![c] = d]
    /\ keys' = [keys EXCEPT ![c] = ks]
    /\ UNCHANGED <<clients, now, result, doneAt>>

\* Mutant: the lookup goes by the routing keys, not by the digest.
HitByKeys(c) ==
    \E d \in DOMAIN clients :
        /\ clients[d].credKeys = keys[c]
        /\ clients' = Touch(d)
        /\ Return(c, "lookup", clients[d].client)

Hit(c) ==
    /\ digest[c] \in DOMAIN clients
    /\ clients' = Touch(digest[c])
    /\ Return(c, "lookup", clients[digest[c]].client)

\* The guard is dropped before build() starts.
Miss(c) ==
    /\ digest[c] \notin DOMAIN clients
    /\ Goto(c, "lookup", "build")
    /\ UNCHANGED <<clients, now, digest, keys, result, doneAt>>

BuildOk(c) ==
    /\ Goto(c, "build", "insert")
    /\ UNCHANGED <<clients, now, digest, keys, result, doneAt>>

\* Mutant: a failed build is retried from the first lookup.
BuildErrRetries(c) ==
    /\ Goto(c, "build", "lookup")
    /\ UNCHANGED <<clients, now, digest, keys, result, doneAt>>

\* `build().await?`: nothing is remembered of a failure.
BuildErr(c) ==
    /\ Goto(c, "build", "failed")
    /\ UNCHANGED <<clients, now, digest, keys, result, doneAt>>

\* Another call inserted while this one was building: its client wins, and
\* the one just built is dropped.
LateHit(c) ==
    /\ digest[c] \in DOMAIN clients
    /\ clients' = Touch(digest[c])
    /\ Return(c, "insert", clients[digest[c]].client)

\* Mutant: the entry is stamped with the moment it expires.
NewEntryWithDeadline(c) ==
    [client |-> c, credKeys |-> keys[c], lastUsed |-> now + IdleEviction]

NewEntry(c) == [client |-> c, credKeys |-> keys[c], lastUsed |-> now]

Inserted(c) ==
    [d \in DOMAIN clients \cup {digest[c]} |->
        IF d = digest[c] THEN NewEntry(c) ELSE clients[d]]

\* min_by_key over last_used; a HashMap has no order, so any minimum is one.
Oldest(f) == {d \in DOMAIN f : \A e \in DOMAIN f : f[d].lastUsed <= f[e].lastUsed}

\* Mutant: eviction starts one entry too late.
BoundedLate(f) ==
    IF Cardinality(DOMAIN f) > MaxEntries + 1
    THEN {Restrict(f, DOMAIN f \ {d}) : d \in Oldest(f)}
    ELSE {f}

\* What the map may be once an insertion has been followed by LRU eviction.
\* The entry just inserted is a candidate like any other.
Bounded(f) ==
    IF Cardinality(DOMAIN f) > MaxEntries
    THEN {Restrict(f, DOMAIN f \ {d}) : d \in Oldest(f)}
    ELSE {f}

\* Mutant: no second lookup, the client built last replaces the resident one.
InsertUnchecked(c) ==
    /\ clients' \in Bounded(Inserted(c))
    /\ Return(c, "insert", c)

Insert(c) ==
    /\ digest[c] \notin DOMAIN clients
    /\ clients' \in Bounded(Inserted(c))
    /\ Return(c, "insert", c)

\* The caller drops the future at one of its await points.
Drop(c) ==
    /\ pc[c] \in {"lookup", "build", "insert"}
    /\ pc' = [pc EXCEPT ![c] = "dropped"]
    /\ UNCHANGED <<clients, now, digest, keys, result, doneAt>>

Evict(gone) ==
    /\ clients' = Restrict(clients, DOMAIN clients \ gone)
    /\ UNCHANGED <<now, pc, digest, keys, result, doneAt>>

RoutedTo(k) == {d \in DOMAIN clients : k \in clients[d].credKeys}

evict_for(k) == Evict(RoutedTo(k))

evict_for_secret == Evict(DOMAIN clients)

\* Mutant: an entry exactly as old as the window is swept.
IdleAtThreshold ==
    {d \in DOMAIN clients : now - clients[d].lastUsed >= IdleEviction}

Idle == {d \in DOMAIN clients : now - clients[d].lastUsed > IdleEviction}

sweep_idle == Evict(Idle)

Tick ==
    /\ now < MaxTime
    /\ now' = now + 1
    /\ UNCHANGED <<clients, pc, digest, keys, result, doneAt>>

-----------------------------------------------------------------------------
Progress(c) ==
    \/ Hit(c)
    \/ Miss(c)
    \/ BuildOk(c)
    \/ BuildErr(c)
    \/ LateHit(c)
    \/ Insert(c)

RegistryNext ==
    \/ \E c \in Call :
          \/ \E d \in Digest, ks \in SUBSET Key : Call_get_or_build(c, d, ks)
          \/ Progress(c)
          \/ Drop(c)
    \/ \E k \in Key : evict_for(k)
    \/ evict_for_secret
    \/ sweep_idle
    \/ Tick

RegistrySpec == RegistryInit /\ [][RegistryNext]_registryVars

-----------------------------------------------------------------------------
(***************************************************************************)
(* Properties                                                              *)
(***************************************************************************)

\* Types; no entry carries a stamp from the future, which is what makes the
\* saturating subtraction of the sweep exact.
TypeOK ==
    /\ DOMAIN clients \subseteq Digest
    /\ \A d \in DOMAIN clients :
          clients[d] \in ClientEntry /\ clients[d].lastUsed <= now
    /\ now \in Nat
    /\ pc \in [Call -> Pc]
    /\ digest \in [Call -> Digest \cup {None}]
    /\ keys \in [Call -> SUBSET Key]
    /\ result \in [Call -> Call \cup {None}]
    /\ doneAt \in [Call -> Nat]

\* Whatever the interleaving of builds and evictions, the map never holds
\* more than max_entries clients between two locked sections.
CapacityBound == Cardinality(DOMAIN clients) <= MaxEntries

\* A call is only ever given a client built for the digest it asked for,
\* although the entry it is given may have been built, evicted and rebuilt
\* by other calls between its two lookups.
OwnDigest ==
    \A c \in Call : pc[c] = "done" =>
        result[c] \in Call /\ digest[result[c]] = digest[c]

\* last_used is the moment the client was last handed out, on every path
\* that hands one out: it is what both evictions decide by.
HandedOut(d) == {c \in Call : pc[c] = "done" /\ digest[c] = d}

StampIsLastUse ==
    \A d \in DOMAIN clients :
        /\ \A c \in HandedOut(d) : doneAt[c] <= clients[d].lastUsed
        /\ \E c \in HandedOut(d) : doneAt[c] = clients[d].lastUsed

\* LRU eviction never takes a client that was handed out later than one it
\* leaves, counting hits that raced in while the inserting call was building.
LruSparesRecent ==
    [][\A c \in Call : Insert(c) =>
        \A gone \in (DOMAIN clients \cup {digest[c]}) \ DOMAIN clients' :
        \A kept \in DOMAIN clients' :
        \A x \in HandedOut(gone) :
        \E y \in HandedOut(kept)' : doneAt[x] <= doneAt'[y]]_registryVars

\* The idle sweep never takes a client that was handed out within the idle
\* window, and takes every one that was not.
SweepTakesExactlyIdle ==
    [][sweep_idle =>
        \A d \in DOMAIN clients :
            d \in DOMAIN clients' <=>
                \E c \in HandedOut(d) : now - doneAt[c] <= IdleEviction]_registryVars

\* Every call of get_or_build returns, unless its caller drops it: it takes
\* the lock at most twice and never starts over.
CallsReturn ==
    \A c \in Call :
        pc[c] = "lookup" ~> pc[c] \in {"done", "failed", "dropped"}

\* How the registry looks to its callers: the keys, the stamps and the
\* steps of a build are hidden.
Resident == [d \in DOMAIN clients |-> clients[d].client]

CacheStatus ==
    [c \in Call |->
        CASE pc[c] = "idle" -> "idle"
          [] pc[c] \in {"lookup", "build", "insert"} -> "waiting"
          [] pc[c] = "done" -> "answered"
          [] OTHER -> "gone"]

Cache ==
    INSTANCE ClientCache WITH
        resident <- Resident,
        asked    <- digest,
        answer   <- result,
        status   <- CacheStatus

\* The registry is the cache its callers may reason with: one resident
\* client per digest, never replaced in place, shared by every call that is
\* answered while it is resident.
CacheSpec == Cache!Spec

\* The doc comment of get_or_build: concurrent callers serialise on the
\* mutex while the connect happens, so a herd of cold callers does not spawn
\* parallel connects.
NoParallelBuilds ==
    \A c1, c2 \in Call :
        pc[c1] = "build" /\ pc[c2] = "build" /\ digest[c1] = digest[c2] => c1 = c2
================================================================================
