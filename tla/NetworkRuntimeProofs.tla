-------------------------- MODULE NetworkRuntimeProofs --------------------------
(***************************************************************************)
(* Proofs about NetworkRuntime, for any number of calls, identities,       *)
(* credentials and secrets: what is proved of the registry holds inside    *)
(* the runtime, and a call is answered with credentials of its own.        *)
(*                                                                         *)
(* The registry's invariant comes from ClientRegistryProofs, instantiated  *)
(* as the runtime instantiates ClientRegistry.  To it the runtime adds     *)
(* what a call asks with (Asks), that an entry is routed as the call that  *)
(* built it was (Entries), and that a client stays tied to the host's      *)
(* versions at its insertion: a resident client was built by a call that   *)
(* is done, and of such a call nothing changes any more.                   *)
(***************************************************************************)
EXTENDS NetworkRuntime, TLAPS

P == INSTANCE ClientRegistryProofs WITH Digest <- Bundle, Key <- Pair

\* The runtime's constants are as the registry needs them.
LEMMA RegistryAssumed == P!RegistryAssumption
BY RuntimeAssumption, BundleAssumption DEF P!RegistryAssumption

\* The two instances of ClientRegistry are the same, operator by operator.
LEMMA SameBounded == ASSUME NEW f, NEW g PROVE g \in R!Bounded(f) <=> g \in P!Bounded(f)
<1>1. R!Oldest(f) = P!Oldest(f)
    BY DEF R!Oldest, P!Oldest
<1>2. ASSUME NEW S PROVE R!Restrict(f, S) = P!Restrict(f, S)
    BY DEF R!Restrict, P!Restrict
<1>3. R!Cardinality(DOMAIN f) = P!Cardinality(DOMAIN f)
    BY DEF R!Cardinality, P!Cardinality
<1> QED BY <1>1, <1>2, <1>3 DEF R!Bounded, P!Bounded

\* The same, for the insertion.
LEMMA SameInsert == ASSUME NEW c \in Call PROVE R!Insert(c) <=> P!Insert(c)
<1>1. R!Inserted(c) = P!Inserted(c)
    BY DEF R!Inserted, P!Inserted, R!NewEntry, P!NewEntry
<1> QED BY <1>1, SameBounded DEF R!Insert, P!Insert, R!Return, P!Return, R!Goto, P!Goto

\* The same, for the evictions.
LEMMA SameEvict ==
    /\ \A k \in Pair : R!evict_for(k) <=> P!evict_for(k)
    /\ R!evict_for_secret <=> P!evict_for_secret
    /\ R!sweep_idle <=> P!sweep_idle
<1>1. ASSUME NEW gone PROVE R!Evict(gone) <=> P!Evict(gone)
    BY DEF R!Evict, P!Evict, R!Restrict, P!Restrict
<1> QED
    BY <1>1 DEF R!evict_for, P!evict_for, R!evict_for_secret, P!evict_for_secret,
        R!sweep_idle, P!sweep_idle, R!RoutedTo, P!RoutedTo, R!Idle, P!Idle

\* The same, for what leaves the entries and their clients alone.
LEMMA SameRest ==
    /\ \A c \in Call, d \in Bundle, ks \in SUBSET Pair :
          R!Call_get_or_build(c, d, ks) <=> P!Call_get_or_build(c, d, ks)
    /\ \A c \in Call : R!Hit(c) <=> P!Hit(c)
    /\ \A c \in Call : R!LateHit(c) <=> P!LateHit(c)
    /\ \A c \in Call : R!Miss(c) <=> P!Miss(c)
    /\ \A c \in Call : R!BuildOk(c) <=> P!BuildOk(c)
    /\ \A c \in Call : R!BuildErr(c) <=> P!BuildErr(c)
    /\ \A c \in Call : R!Drop(c) <=> P!Drop(c)
    /\ R!Tick <=> P!Tick
BY DEF R!Call_get_or_build, P!Call_get_or_build, R!Hit, P!Hit, R!LateHit, P!LateHit,
    R!Miss, P!Miss, R!BuildOk, P!BuildOk, R!BuildErr, P!BuildErr, R!Drop, P!Drop,
    R!Tick, P!Tick, R!Goto, P!Goto, R!Return, P!Return, R!Touch, P!Touch

\* So their steps are the same.
LEMMA SameStep == [R!RegistryNext]_(R!registryVars) <=> [P!RegistryNext]_(P!registryVars)
<1>1. \A c \in Call : R!Progress(c) <=> P!Progress(c)
    BY SameRest, SameInsert DEF R!Progress, P!Progress
<1> QED
    BY <1>1, SameRest, SameEvict
    DEF R!RegistryNext, P!RegistryNext, R!registryVars, P!registryVars

-----------------------------------------------------------------------------
\* What a moment of the host's is in the histories.
Snapshot ==
    [cred : [Pair -> [Caller -> Version]], secret : [Secret -> Version]]

Typed ==
    /\ RuntimeTypeOK
    /\ bundle \in [Call -> Bundle]
    /\ started \in [Call -> Snapshot]
    /\ inserted \in [Call -> Snapshot]

\* What a call has when it asks the registry: the digest of its bundle, and
\* a bundle of its own credentials, none older than its start.
Own(c) ==
    /\ caller[c] \in Caller
    /\ keys[c] = Routed
    /\ DOMAIN bundle[c].creds = Ref
    /\ \A r \in Ref :
          /\ bundle[c].creds[r].of = caller[c]
          /\ bundle[c].creds[r].version >= started[c].cred[r][caller[c]]

Asks ==
    \A c \in Call :
        /\ stage[c] = "idle" => caller[c] = None
        /\ stage[c] = "resolving" => caller[c] \in Caller
        /\ stage[c] = "asked" =>
              /\ digest[c] = bundle[c]
              /\ IF caller[c] = None THEN DOMAIN bundle[c].creds = {} ELSE Own(c)

Entries == \A d \in DOMAIN clients : clients[d].credKeys = keys[clients[d].client]

RuntimeInv ==
    /\ P!RegistryInv
    /\ Typed
    /\ Asks
    /\ Entries
    /\ RevocationReaches
    /\ RotationReaches

\* A resident client was built by a call that has asked and is done.
LEMMA Builders ==
    ASSUME RuntimeInv, NEW d \in DOMAIN clients
    PROVE  /\ clients[d].client \in Call
           /\ pc[clients[d].client] = "done"
           /\ stage[clients[d].client] = "asked"
BY DEF RuntimeInv, P!RegistryInv, P!TypeOK, P!Built, P!ClientEntry, Typed, RuntimeTypeOK

-----------------------------------------------------------------------------
(***************************************************************************)
(* Steps of the registry                                                   *)
(***************************************************************************)

\* What is resident is what was, or what c has just inserted.
Residents(new) ==
    \A d \in DOMAIN clients' :
        \/ /\ d \in DOMAIN clients
           /\ clients'[d].client = clients[d].client
           /\ clients'[d].credKeys = clients[d].credKeys
        \/ clients'[d].client \in new /\ clients'[d].credKeys = keys[clients'[d].client]

\* Nothing is asked in a step: who had asked, and with what, stays.
Quiet ==
    /\ UNCHANGED <<digest, keys>>
    /\ \A c \in Call : pc'[c] = "idle" <=> pc[c] = "idle"

\* A step of get_or_build that does not insert.
LEMMA ProgressShape ==
    ASSUME P!TypeOK, NEW c \in Call,
           P!Hit(c) \/ P!LateHit(c) \/ P!Miss(c) \/ P!BuildOk(c) \/ P!BuildErr(c) \/ P!Drop(c)
    PROVE  Quiet /\ Residents({})
<1>1. CASE P!Hit(c) \/ P!LateHit(c)
    <2>1. clients' = P!Touch(digest[c]) /\ digest[c] \in DOMAIN clients
        BY <1>1 DEF P!Hit, P!LateHit
    <2>2. Residents({})
        BY <2>1 DEF P!Touch, P!TypeOK, P!ClientEntry, Residents
    <2>3. Quiet
        BY <1>1 DEF P!Hit, P!LateHit, P!Return, P!Goto, P!TypeOK, Quiet
    <2> QED BY <2>2, <2>3
<1>2. CASE P!Miss(c) \/ P!BuildOk(c) \/ P!BuildErr(c) \/ P!Drop(c)
    BY <1>2 DEF P!Miss, P!BuildOk, P!BuildErr, P!Drop, P!Goto, P!TypeOK, Quiet, Residents
<1> QED BY <1>1, <1>2

\* The insertion.
LEMMA InsertedShape ==
    ASSUME P!TypeOK, NEW c \in Call, P!Insert(c)
    PROVE  Quiet /\ Residents({c}) /\ pc[c] = "insert"
<1>1. \A d \in DOMAIN clients' :
         /\ d \in DOMAIN clients \cup {digest[c]}
         /\ clients'[d] = IF d = digest[c] THEN P!NewEntry(c) ELSE clients[d]
    BY RegistryAssumed, P!InsertShape
<1>2. Residents({c})
    BY <1>1 DEF Residents, P!NewEntry
<1>3. Quiet /\ pc[c] = "insert"
    BY DEF P!Insert, P!Return, P!Goto, P!TypeOK, Quiet
<1> QED BY <1>2, <1>3

\* An eviction takes what it is told to take.
LEMMA EvictedShape ==
    ASSUME NEW gone, P!Evict(gone)
    PROVE  /\ Quiet /\ Residents({})
           /\ DOMAIN clients' = DOMAIN clients \ gone
           /\ \A d \in DOMAIN clients' : clients'[d] = clients[d]
<1>1. /\ DOMAIN clients' = DOMAIN clients \ gone
      /\ \A d \in DOMAIN clients' : clients'[d] = clients[d]
    BY RegistryAssumed, P!EvictShape
<1> QED BY <1>1 DEF P!Evict, Quiet, Residents

-----------------------------------------------------------------------------
(***************************************************************************)
(* The runtime's steps are the registry's                                  *)
(***************************************************************************)

\* A bundle the templates can yield is one.
LEMMA CallBundleShape ==
    ASSUME NEW u \in Caller, NEW url \in Url, NEW version \in [Ref -> Version]
    PROVE  /\ CallBundle(u, url, version) \in Bundle
           /\ DOMAIN CallBundle(u, url, version).creds = Ref
           /\ \A r \in Ref :
                 /\ CallBundle(u, url, version).creds[r].of = u
                 /\ CallBundle(u, url, version).creds[r].version = version[r]
<1> DEFINE creds == [r \in Ref |-> [of |-> u, version |-> version[r]]]
<1>1. creds \in [Ref -> Value]
    BY DEF Value
<1>2. Compiled \in [ProfileSecret -> Version]
    BY RuntimeAssumption DEF Compiled, Version
<1>3. CallBundle(u, url, version) = [url |-> url, creds |-> creds, secrets |-> Compiled]
    BY DEF CallBundle
<1>4. \A r \in Ref : creds[r].of = u /\ creds[r].version = version[r]
    OBVIOUS
<1>5. DOMAIN creds = Ref
    OBVIOUS
<1> HIDE DEF creds
<1> QED BY <1>1, <1>2, <1>3, <1>4, <1>5 DEF Bundle

\* So is that of the static path, which carries nothing.
LEMMA BaseBundleShape == BaseBundle \in Bundle /\ DOMAIN BaseBundle.creds = {}
<1>1. [r \in {} |-> None] \in [{} -> Value] /\ [s \in {} |-> 0] \in [{} -> Version]
    OBVIOUS
<1> QED BY <1>1, RuntimeAssumption DEF BaseBundle, Bundle

\* The two ways to ask, in one: with a bundle of one's own, or with none.
LEMMA AskShape ==
    ASSUME RuntimeInv, NEW c \in Call, Resolved(c) \/ resolve_static_client(c)
    PROVE  \E b \in Bundle, ks \in SUBSET Pair :
              /\ R!Call_get_or_build(c, b, ks)
              /\ pc[c] = "idle" /\ stage[c] # "asked"
              /\ stage' = [stage EXCEPT ![c] = "asked"]
              /\ bundle' = [bundle EXCEPT ![c] = b]
              /\ started' = started \/ started' = [started EXCEPT ![c] = Versions]
              /\ UNCHANGED <<caller, host, tasks, inserted>>
              /\ IF caller[c] = None
                 THEN DOMAIN b.creds = {}
                 ELSE /\ caller[c] \in Caller
                      /\ ks = Routed /\ started' = started
                      /\ DOMAIN b.creds = Ref
                      /\ \A r \in Ref :
                            /\ b.creds[r].of = caller[c]
                            /\ b.creds[r].version >= started[c].cred[r][caller[c]]
<1>1. stage[c] # "asked" /\ pc[c] = "idle"
    BY DEF Resolved, resolve_static_client, RuntimeInv, Typed, RuntimeTypeOK
<1>2. CASE Resolved(c)
    <2>1. PICK version \in Answers(c), url \in Url :
             AskRegistry(c, CallBundle(caller[c], url, version), RoutingKeys)
        BY <1>2 DEF Resolved
    <2>2. caller[c] \in Caller /\ caller[c] # None
        BY <1>2, RuntimeAssumption DEF Resolved, RuntimeInv, Asks
    <2>3. /\ version \in [Ref -> Version]
          /\ \A r \in Ref : started[c].cred[r][caller[c]] <= version[r]
        BY DEF Answers
    <2>4. \A r \in Ref : started[c].cred[r][caller[c]] \in Nat /\ version[r] \in Nat
        BY <2>2, <2>3, RuntimeAssumption DEF RuntimeInv, Typed, Snapshot, Version
    <2>5. \A r \in Ref : version[r] >= started[c].cred[r][caller[c]]
        BY <2>3, <2>4
    <2>6. Routed \in SUBSET Pair
        BY RuntimeAssumption
    <2> DEFINE b == CallBundle(caller[c], url, version)
    <2>7. /\ b \in Bundle /\ DOMAIN b.creds = Ref
          /\ \A r \in Ref :
                /\ b.creds[r].of = caller[c]
                /\ b.creds[r].version >= started[c].cred[r][caller[c]]
        BY <2>2, <2>3, <2>5, CallBundleShape
    <2>8. /\ R!Call_get_or_build(c, b, Routed)
          /\ stage' = [stage EXCEPT ![c] = "asked"]
          /\ bundle' = [bundle EXCEPT ![c] = b]
          /\ started' = started
          /\ UNCHANGED <<caller, host, tasks, inserted>>
        BY <1>2, <2>1 DEF Resolved, AskRegistry, DigestOf, RoutingKeys
    <2> HIDE DEF b
    <2> QED BY <1>1, <2>2, <2>6, <2>7, <2>8
<1>3. CASE resolve_static_client(c)
    <2>1. /\ R!Call_get_or_build(c, BaseBundle, {})
          /\ stage' = [stage EXCEPT ![c] = "asked"]
          /\ bundle' = [bundle EXCEPT ![c] = BaseBundle]
          /\ started' = [started EXCEPT ![c] = Versions]
          /\ UNCHANGED <<caller, host, tasks, inserted>>
        BY <1>3 DEF resolve_static_client, AskRegistry, DigestOf
    <2>2. caller[c] = None
        BY <1>3 DEF resolve_static_client, RuntimeInv, Asks
    <2>3. {} \in SUBSET Pair
        OBVIOUS
    <2> QED BY <1>1, <2>1, <2>2, <2>3, BaseBundleShape
<1> QED BY <1>2, <1>3

\* Every step of the runtime is a step of the registry, or none.
LEMMA StepRefines ==
    RuntimeInv /\ [RuntimeNext]_runtimeVars => [R!RegistryNext]_(R!registryVars)
<1> SUFFICES ASSUME RuntimeInv, [RuntimeNext]_runtimeVars
             PROVE  [R!RegistryNext]_(R!registryVars)
    OBVIOUS
<1>1. ASSUME NEW c \in Call, Resolved(c) \/ resolve_static_client(c)
      PROVE  R!RegistryNext
    BY <1>1, AskShape DEF R!RegistryNext
<1>2. ASSUME NEW c \in Call, InRegistry(c) \/ DropInRegistry(c)
      PROVE  R!RegistryNext
    BY <1>2 DEF InRegistry, DropInRegistry, R!RegistryNext, R!Progress
<1>3. ASSUME NEW p \in Pair, RunEvict(p) PROVE R!RegistryNext
    BY <1>3 DEF RunEvict, R!RegistryNext
<1>4. CASE RunClear \/ Sweep \/ Tick
    BY <1>4 DEF RunClear, Sweep, Tick, R!RegistryNext
<1>5. ASSUME NEW c \in Call, Unresolved(c) \/ \E u \in Caller : resolve_client(c, u)
      PROVE  UNCHANGED R!registryVars
    BY <1>5 DEF Unresolved, resolve_client, registry, R!registryVars
<1>6. ASSUME \/ \E p \in Pair, u \in Caller : Revoke(p, u)
             \/ \E s \in Secret : Rotate(s)
             \/ UNCHANGED runtimeVars
      PROVE  UNCHANGED R!registryVars
    BY <1>6 DEF Revoke, Rotate, runtimeVars, registry, R!registryVars
<1> QED BY <1>1, <1>2, <1>3, <1>4, <1>5, <1>6 DEF RuntimeNext

\* So they keep the registry's invariant.
LEMMA RegistryStepInv ==
    ASSUME RuntimeInv, [RuntimeNext]_runtimeVars
    PROVE  P!RegistryInv'
<1>1. [P!RegistryNext]_(P!registryVars)
    BY StepRefines, SameStep
<1> QED BY <1>1, RegistryAssumed, P!StepInv DEF RuntimeInv

-----------------------------------------------------------------------------
(***************************************************************************)
(* Every step keeps the invariant                                          *)
(***************************************************************************)

\* What a step may do to the announcements: a version that moves, and a task
\* that ends, are made up for.
Announced ==
    /\ \A p \in Pair, u \in Caller :
          credVersion'[p][u] = credVersion[p][u] \/ evictTasks'[p] > 0
    /\ \A p \in Pair :
          \/ evictTasks'[p] > 0 \/ evictTasks'[p] = evictTasks[p]
          \/ \A d \in DOMAIN clients' : p \notin clients'[d].credKeys
    /\ \A s \in ProfileSecret : secretVersion'[s] = secretVersion[s] \/ clearTasks' > 0
    /\ clearTasks' > 0 \/ clearTasks' = clearTasks \/ DOMAIN clients' = {}

\* What it may do to the calls that asked: nothing but insert.
Settled(new) ==
    /\ Residents(new)
    /\ \A c \in new : stage[c] = "asked"
    /\ \A c \in Call : stage[c] = "asked" => bundle'[c] = bundle[c] /\ keys'[c] = keys[c]
    /\ \A c \in Call : inserted'[c] = IF c \in new THEN Versions ELSE inserted[c]

\* A step that does no more keeps the two promises about announcements.
LEMMA Preserved ==
    ASSUME RuntimeInv, P!RegistryInv', Typed', Asks',
           NEW new \in SUBSET Call, Settled(new), Announced
    PROVE  RuntimeInv'
<1>1. ASSUME NEW d \in DOMAIN clients'
      PROVE  LET b == clients'[d].client IN
             /\ b \in Call /\ stage[b] = "asked"
             /\ bundle'[b] = bundle[b] /\ keys'[b] = keys[b]
             /\ clients'[d].credKeys = keys[b]
             /\ b \in new \/ (d \in DOMAIN clients /\ clients[d].client = b)
             /\ inserted'[b] = IF b \in new THEN Versions ELSE inserted[b]
    <2>1. clients'[d].client \in Call
        BY DEF P!RegistryInv, P!TypeOK, P!ClientEntry
    <2>2. CASE clients'[d].client \in new
        BY <2>1, <2>2, Builders DEF Settled, Residents, RuntimeInv, Entries
    <2>3. CASE clients'[d].client \notin new
        BY <2>1, <2>3, Builders DEF Settled, Residents, RuntimeInv, Entries
    <2> QED BY <2>2, <2>3
<1>2. Entries'
    BY <1>1 DEF Entries
<1>3. RevocationReaches'
    <2> SUFFICES ASSUME NEW d \in DOMAIN clients',
                        NEW r \in DOMAIN bundle'[clients'[d].client].creds \cap Routed,
                        credVersion'[r][bundle'[clients'[d].client].creds[r].of]
                            > inserted'[clients'[d].client]
                                  .cred[r][bundle'[clients'[d].client].creds[r].of]
                 PROVE  evictTasks'[r] > 0
        BY DEF RevocationReaches
    <2> DEFINE b == clients'[d].client
               u == bundle[b].creds[r].of
    <2>1. /\ b \in Call /\ stage[b] = "asked" /\ bundle'[b] = bundle[b]
          /\ clients'[d].credKeys = keys[b]
          /\ b \in new \/ (d \in DOMAIN clients /\ clients[d].client = b)
          /\ inserted'[b] = IF b \in new THEN Versions ELSE inserted[b]
        BY <1>1
    <2>2. r \in DOMAIN bundle[b].creds /\ r \in Routed /\ r \in Pair
        BY <2>1, RuntimeAssumption
    <2>3. Own(b)
        BY <2>1, <2>2 DEF RuntimeInv, Asks
    <2>4. u \in Caller /\ r \in keys[b]
        BY <2>2, <2>3 DEF Own
    <2>5. credVersion[r][u] \in Nat
        BY <2>2, <2>4 DEF RuntimeInv, Typed, RuntimeTypeOK, Version
    <2>6. credVersion'[r][u] > inserted'[b].cred[r][u]
        BY <2>1
    <2>7. CASE evictTasks'[r] > 0
        BY <2>7
    <2>8. CASE credVersion'[r][u] = credVersion[r][u] /\ evictTasks'[r] = evictTasks[r]
        <3>1. CASE b \in new
            BY <2>1, <2>5, <2>6, <2>8, <3>1 DEF Versions
        <3>2. CASE b \notin new
            <4>1. credVersion[r][u] > inserted[b].cred[r][u]
                BY <2>1, <2>6, <2>8, <3>2
            <4> QED BY <2>1, <2>2, <2>8, <3>2, <4>1 DEF RuntimeInv, RevocationReaches
        <3> QED BY <3>1, <3>2
    <2> QED BY <2>1, <2>2, <2>4, <2>7, <2>8 DEF Announced
<1>4. RotationReaches'
    <2> SUFFICES ASSUME NEW d \in DOMAIN clients', NEW s \in ProfileSecret,
                        secretVersion'[s] > inserted'[clients'[d].client].secret[s]
                 PROVE  clearTasks' > 0
        BY DEF RotationReaches
    <2> DEFINE b == clients'[d].client
    <2>1. /\ b \in new \/ (d \in DOMAIN clients /\ clients[d].client = b)
          /\ inserted'[b] = IF b \in new THEN Versions ELSE inserted[b]
        BY <1>1
    <2>2. secretVersion[s] \in Nat
        BY RuntimeAssumption DEF RuntimeInv, Typed, RuntimeTypeOK, Version
    <2>3. CASE clearTasks' > 0
        BY <2>3
    <2>4. CASE secretVersion'[s] = secretVersion[s] /\ clearTasks' = clearTasks
        <3>1. CASE b \in new
            BY <2>1, <2>2, <2>4, <3>1 DEF Versions
        <3>2. CASE b \notin new
            BY <2>1, <2>4, <3>2 DEF RuntimeInv, RotationReaches
        <3> QED BY <3>1, <3>2
    <2> QED BY <2>3, <2>4 DEF Announced
<1> QED BY <1>2, <1>3, <1>4 DEF RuntimeInv

\* A step inside the registry leaves what the calls asked with alone.
LEMMA AsksStay ==
    ASSUME RuntimeInv, Quiet, UNCHANGED <<stage, caller, bundle, started>>
    PROVE  Asks'
BY DEF RuntimeInv, Asks, Own, Quiet

\* Such a step, with the insertion of one call or none.
LEMMA InsideInv ==
    ASSUME RuntimeInv, P!RegistryInv', Quiet,
           NEW new \in SUBSET {c \in Call : pc[c] = "insert"}, Residents(new),
           inserted' = [c \in Call |-> IF c \in new THEN Versions ELSE inserted[c]],
           UNCHANGED <<stage, caller, bundle, host, started>>,
           evictTasks' \in [Pair -> Nat], clearTasks' \in Nat,
           Announced
    PROVE  RuntimeInv'
<1>1. Versions \in Snapshot
    BY DEF RuntimeInv, Typed, RuntimeTypeOK, Versions, Snapshot
<1>2. Typed'
    BY <1>1 DEF RuntimeInv, Typed, RuntimeTypeOK, Quiet, host
<1>3. \A c \in new : stage[c] = "asked"
    BY DEF RuntimeInv, Typed, RuntimeTypeOK
<1>4. Settled(new)
    BY <1>3 DEF Settled, Quiet
<1> QED BY <1>2, <1>4, AsksStay, Preserved

\* A call asks the registry.
LEMMA AskInv ==
    ASSUME RuntimeInv, P!RegistryInv', NEW c \in Call, Resolved(c) \/ resolve_static_client(c)
    PROVE  RuntimeInv'
<1>1. PICK b \in Bundle, ks \in SUBSET Pair :
         /\ R!Call_get_or_build(c, b, ks)
         /\ pc[c] = "idle" /\ stage[c] # "asked"
         /\ stage' = [stage EXCEPT ![c] = "asked"]
         /\ bundle' = [bundle EXCEPT ![c] = b]
         /\ started' = started \/ started' = [started EXCEPT ![c] = Versions]
         /\ UNCHANGED <<caller, host, tasks, inserted>>
         /\ IF caller[c] = None
            THEN DOMAIN b.creds = {}
            ELSE /\ caller[c] \in Caller
                 /\ ks = Routed /\ started' = started
                 /\ DOMAIN b.creds = Ref
                 /\ \A r \in Ref :
                       /\ b.creds[r].of = caller[c]
                       /\ b.creds[r].version >= started[c].cred[r][caller[c]]
    BY AskShape
<1>2. /\ clients' = clients
      /\ pc' = [pc EXCEPT ![c] = "lookup"]
      /\ digest' = [digest EXCEPT ![c] = b]
      /\ keys' = [keys EXCEPT ![c] = ks]
    BY <1>1 DEF R!Call_get_or_build, R!Goto
<1>3. /\ pc'[c] = "lookup" /\ digest'[c] = b /\ keys'[c] = ks
      /\ stage'[c] = "asked" /\ bundle'[c] = b
      /\ \A a \in Call \ {c} :
            /\ pc'[a] = pc[a] /\ digest'[a] = digest[a] /\ keys'[a] = keys[a]
            /\ stage'[a] = stage[a] /\ bundle'[a] = bundle[a] /\ started'[a] = started[a]
    BY <1>1, <1>2 DEF RuntimeInv, P!RegistryInv, P!TypeOK, Typed, RuntimeTypeOK
<1>4. Typed'
    <2>1. Versions \in Snapshot
        BY DEF RuntimeInv, Typed, RuntimeTypeOK, Versions, Snapshot
    <2>2. started' \in [Call -> Snapshot] /\ bundle' \in [Call -> Bundle]
        BY <1>1, <2>1 DEF RuntimeInv, Typed
    <2>3. stage' \in [Call -> {"idle", "resolving", "asked", "failed", "dropped"}]
        BY <1>1 DEF RuntimeInv, Typed, RuntimeTypeOK
    <2>4. \A a \in Call : pc'[a] # "idle" <=> stage'[a] = "asked"
        BY <1>3 DEF RuntimeInv, Typed, RuntimeTypeOK
    <2> QED BY <1>1, <2>2, <2>3, <2>4 DEF RuntimeInv, Typed, RuntimeTypeOK, host, tasks
<1>5. Asks'
    <2>1. caller' = caller
        BY <1>1
    <2>2. /\ digest'[c] = bundle'[c]
          /\ IF caller'[c] = None THEN DOMAIN bundle'[c].creds = {} ELSE Own(c)'
        BY <1>1, <1>3 DEF Own
    <2>3. \A a \in Call \ {c} : Own(a) => Own(a)'
        BY <1>3, <2>1 DEF Own
    <2> QED BY <1>3, <2>1, <2>2, <2>3 DEF RuntimeInv, Asks
<1>6. Settled({})
    BY <1>1, <1>2, <1>3 DEF Settled, Residents
<1>7. Announced
    BY <1>1 DEF Announced, host, tasks
<1> QED BY <1>4, <1>5, <1>6, <1>7, Preserved

\* A call starts, or comes to nothing before it reaches the registry.
LEMMA BeforeInv ==
    ASSUME RuntimeInv, P!RegistryInv', NEW c \in Call,
           Unresolved(c) \/ \E u \in Caller : resolve_client(c, u)
    PROVE  RuntimeInv'
<1>1. /\ UNCHANGED <<clients, pc, digest, keys, bundle, credVersion, secretVersion,
                     evictTasks, clearTasks, inserted>>
      /\ stage[c] \in {"idle", "resolving"}
    BY DEF Unresolved, resolve_client, registry, host, tasks
<1>2. PICK to \in {"resolving", "failed", "dropped"} : stage' = [stage EXCEPT ![c] = to]
    BY DEF Unresolved, resolve_client
<1>3. /\ stage' \in [Call -> {"idle", "resolving", "asked", "failed", "dropped"}]
      /\ \A a \in Call : stage'[a] = "asked" <=> stage[a] = "asked"
      /\ \A a \in Call \ {c} : stage'[a] = stage[a]
      /\ stage'[c] = to
    BY <1>1, <1>2 DEF RuntimeInv, Typed, RuntimeTypeOK
<1>4. /\ caller' \in [Call -> Caller \cup {None}]
      /\ started' \in [Call -> Snapshot]
      /\ \A a \in Call \ {c} : caller'[a] = caller[a] /\ started'[a] = started[a]
      /\ to = "resolving" => caller'[c] \in Caller
    <2>1. Versions \in Snapshot
        BY DEF RuntimeInv, Typed, RuntimeTypeOK, Versions, Snapshot
    <2>2. CASE Unresolved(c)
        BY <1>2, <1>3, <2>2 DEF Unresolved, RuntimeInv, Typed, RuntimeTypeOK
    <2>3. ASSUME NEW u \in Caller, resolve_client(c, u)
          PROVE  /\ caller' = [caller EXCEPT ![c] = u]
                 /\ started' = [started EXCEPT ![c] = Versions]
        BY <2>3 DEF resolve_client
    <2> QED BY <2>1, <2>2, <2>3 DEF RuntimeInv, Typed, RuntimeTypeOK
<1>5. Typed'
    BY <1>1, <1>3, <1>4 DEF RuntimeInv, Typed, RuntimeTypeOK
<1>6. Asks'
    <2>1. \A a \in Call \ {c} : Own(a) => Own(a)'
        BY <1>1, <1>4 DEF Own
    <2> QED BY <1>1, <1>3, <1>4, <2>1 DEF RuntimeInv, Asks
<1>7. Settled({}) /\ Announced
    BY <1>1 DEF Settled, Residents, Announced
<1> QED BY <1>5, <1>6, <1>7, Preserved

\* The host announces something: for each change there is a task.
LEMMA HostInv ==
    ASSUME RuntimeInv, P!RegistryInv',
           (\E p \in Pair, u \in Caller : Revoke(p, u)) \/ \E s \in Secret : Rotate(s)
    PROVE  RuntimeInv'
<1>1. UNCHANGED <<clients, pc, digest, keys, stage, caller, bundle, started, inserted>>
    BY DEF Revoke, Rotate, registry
<1>2. /\ credVersion' \in [Pair -> [Caller -> Version]]
      /\ secretVersion' \in [Secret -> Version]
      /\ evictTasks' \in [Pair -> Nat] /\ clearTasks' \in Nat
      /\ Announced
    <2>1. ASSUME NEW p \in Pair, NEW u \in Caller, Revoke(p, u)
          PROVE  /\ credVersion' \in [Pair -> [Caller -> Version]]
                 /\ secretVersion' = secretVersion
                 /\ evictTasks' \in [Pair -> Nat] /\ clearTasks' = clearTasks
                 /\ Announced
        <3>1. credVersion[p][u] + 1 \in Version
            BY <2>1, RuntimeAssumption
            DEF Revoke, RuntimeInv, Typed, RuntimeTypeOK, Version
        <3>2. credVersion' = [credVersion EXCEPT ![p] =
                                 [credVersion[p] EXCEPT ![u] = credVersion[p][u] + 1]]
            BY <2>1 DEF Revoke
        <3>3. /\ credVersion' \in [Pair -> [Caller -> Version]]
              /\ \A q \in Pair \ {p} : credVersion'[q] = credVersion[q]
            BY <3>1, <3>2 DEF RuntimeInv, Typed, RuntimeTypeOK
        <3>4. /\ evictTasks' \in [Pair -> Nat]
              /\ evictTasks'[p] > 0
              /\ \A q \in Pair \ {p} : evictTasks'[q] = evictTasks[q]
            BY <2>1 DEF Revoke, RuntimeInv, Typed, RuntimeTypeOK
        <3>5. secretVersion' = secretVersion /\ clearTasks' = clearTasks
            BY <2>1 DEF Revoke
        <3> QED BY <3>3, <3>4, <3>5 DEF Announced
    <2>2. ASSUME NEW s \in Secret, Rotate(s)
          PROVE  /\ secretVersion' \in [Secret -> Version]
                 /\ credVersion' = credVersion
                 /\ evictTasks' = evictTasks /\ clearTasks' \in Nat
                 /\ Announced
        <3>1. secretVersion[s] + 1 \in Version
            BY <2>2, RuntimeAssumption
            DEF Rotate, RuntimeInv, Typed, RuntimeTypeOK, Version
        <3>2. /\ secretVersion' \in [Secret -> Version]
              /\ \A t \in Secret \ {s} : secretVersion'[t] = secretVersion[t]
            BY <2>2, <3>1 DEF Rotate, RuntimeInv, Typed, RuntimeTypeOK
        <3>3. /\ clearTasks' \in Nat
              /\ clearTasks' = clearTasks \/ clearTasks' > 0
              /\ s \in ProfileSecret => clearTasks' > 0
            BY <2>2 DEF Rotate, Spawns, RuntimeInv, Typed, RuntimeTypeOK
        <3>4. credVersion' = credVersion /\ evictTasks' = evictTasks
            BY <2>2 DEF Rotate
        <3> QED BY <3>2, <3>3, <3>4, RuntimeAssumption DEF Announced
    <2> QED BY <2>1, <2>2 DEF RuntimeInv, Typed, RuntimeTypeOK
<1>3. Typed'
    BY <1>1, <1>2 DEF RuntimeInv, Typed, RuntimeTypeOK
<1>4. Asks'
    BY <1>1, AsksStay DEF Quiet
<1>5. Settled({})
    BY <1>1 DEF Settled, Residents
<1> QED BY <1>2, <1>3, <1>4, <1>5, Preserved

\* A step of get_or_build, or the future that runs it is dropped.
LEMMA InRegistryInv ==
    ASSUME RuntimeInv, P!RegistryInv', NEW c \in Call, InRegistry(c) \/ DropInRegistry(c)
    PROVE  RuntimeInv'
<1>1. /\ UNCHANGED <<stage, caller, bundle, host, tasks, started>>
      /\ evictTasks' \in [Pair -> Nat] /\ clearTasks' \in Nat
      /\ Announced
    BY DEF InRegistry, DropInRegistry, RegistryOnly, host, tasks, Announced,
        RuntimeInv, Typed, RuntimeTypeOK
<1>2. P!TypeOK
    BY DEF RuntimeInv, P!RegistryInv
<1>3. CASE R!Insert(c) /\ inserted' = [inserted EXCEPT ![c] = Versions]
    <2>1. Quiet /\ Residents({c}) /\ pc[c] = "insert"
        BY <1>2, <1>3, SameInsert, InsertedShape
    <2>2. inserted' = [a \in Call |-> IF a \in {c} THEN Versions ELSE inserted[a]]
        BY <1>3 DEF RuntimeInv, Typed
    <2>3. {c} \in SUBSET {a \in Call : pc[a] = "insert"}
        BY <2>1
    <2> QED BY <1>1, <2>1, <2>2, <2>3, InsideInv
<1>4. CASE /\ R!Hit(c) \/ R!LateHit(c) \/ R!Miss(c) \/ R!BuildOk(c) \/ R!BuildErr(c) \/ R!Drop(c)
           /\ UNCHANGED inserted
    <2>1. Quiet /\ Residents({})
        BY <1>2, <1>4, SameRest, ProgressShape
    <2>2. inserted' = [a \in Call |-> IF a \in {} THEN Versions ELSE inserted[a]]
        BY <1>4 DEF RuntimeInv, Typed
    <2> QED BY <1>1, <2>1, <2>2, InsideInv
<1> QED BY <1>3, <1>4 DEF InRegistry, DropInRegistry

\* A spawned task runs: what it was spawned for is gone.
LEMMA TaskInv ==
    ASSUME RuntimeInv, P!RegistryInv', RunClear \/ \E p \in Pair : RunEvict(p)
    PROVE  RuntimeInv'
<1>1. UNCHANGED <<stage, caller, bundle, host, started, inserted>>
    BY DEF RunClear, RunEvict
<1>2. inserted' = [a \in Call |-> IF a \in {} THEN Versions ELSE inserted[a]]
    BY <1>1 DEF RuntimeInv, Typed
<1>3. ASSUME NEW p \in Pair, RunEvict(p)
      PROVE  RuntimeInv'
    <2>1. P!Evict(P!RoutedTo(p))
        BY <1>3, SameEvict DEF RunEvict, P!evict_for
    <2>2. /\ Quiet /\ Residents({})
          /\ \A d \in DOMAIN clients' : p \notin clients'[d].credKeys
        <3>1. /\ Quiet /\ Residents({})
              /\ DOMAIN clients' = DOMAIN clients \ P!RoutedTo(p)
              /\ \A d \in DOMAIN clients' : clients'[d] = clients[d]
            BY <2>1, EvictedShape
        <3> QED BY <3>1 DEF P!RoutedTo
    <2>3. /\ evictTasks' \in [Pair -> Nat] /\ clearTasks' \in Nat
          /\ \A q \in Pair \ {p} : evictTasks'[q] = evictTasks[q]
          /\ clearTasks' = clearTasks
        BY <1>3 DEF RunEvict, RuntimeInv, Typed, RuntimeTypeOK
    <2>4. Announced
        BY <1>1, <2>2, <2>3 DEF Announced, host
    <2> QED BY <1>1, <1>2, <2>2, <2>3, <2>4, InsideInv
<1>4. ASSUME RunClear
      PROVE  RuntimeInv'
    <2>1. P!Evict(DOMAIN clients)
        BY <1>4, SameEvict DEF RunClear, P!evict_for_secret
    <2>2. Quiet /\ Residents({}) /\ DOMAIN clients' = {}
        BY <2>1, EvictedShape
    <2>3. evictTasks' = evictTasks /\ evictTasks' \in [Pair -> Nat] /\ clearTasks' \in Nat
        BY <1>4 DEF RunClear, RuntimeInv, Typed, RuntimeTypeOK
    <2>4. Announced
        BY <1>1, <2>2, <2>3 DEF Announced, host
    <2> QED BY <1>1, <1>2, <2>2, <2>3, <2>4, InsideInv
<1> QED BY <1>3, <1>4

\* The sweep and the clock announce nothing.
LEMMA SweepInv ==
    ASSUME RuntimeInv, P!RegistryInv', Sweep \/ Tick
    PROVE  RuntimeInv'
<1>1. /\ UNCHANGED <<stage, caller, bundle, host, tasks, started, inserted>>
      /\ evictTasks' \in [Pair -> Nat] /\ clearTasks' \in Nat
      /\ Announced
    BY DEF Sweep, Tick, RegistryOnly, host, tasks, Announced, RuntimeInv, Typed, RuntimeTypeOK
<1>2. inserted' = [a \in Call |-> IF a \in {} THEN Versions ELSE inserted[a]]
    BY <1>1 DEF RuntimeInv, Typed
<1>3. Quiet /\ Residents({})
    <2>1. CASE Sweep
        BY <2>1, SameEvict, EvictedShape DEF Sweep, P!sweep_idle
    <2>2. CASE Tick
        BY <2>2, SameRest DEF Tick, P!Tick, Quiet, Residents
    <2> QED BY <2>1, <2>2
<1> QED BY <1>1, <1>2, <1>3, InsideInv

\* Nothing is announced, asked or resident in the first state.
LEMMA RuntimeInitInv == RuntimeInit => RuntimeInv
<1> SUFFICES ASSUME RuntimeInit PROVE RuntimeInv
    OBVIOUS
<1>1. P!RegistryInv
    BY RegistryAssumed, P!InitInv DEF RuntimeInit, R!RegistryInit, P!RegistryInit
<1>2. Typed
    <2>1. 0 \in Version
        BY RuntimeAssumption DEF Version
    <2>2. /\ credVersion \in [Pair -> [Caller -> Version]]
          /\ secretVersion \in [Secret -> Version]
          /\ evictTasks \in [Pair -> Nat] /\ clearTasks \in Nat
        BY <2>1 DEF RuntimeInit
    <2>3. Versions \in Snapshot
        BY <2>2 DEF Versions, Snapshot
    <2>4. /\ bundle \in [Call -> Bundle]
          /\ started \in [Call -> Snapshot] /\ inserted \in [Call -> Snapshot]
        BY <2>3, BaseBundleShape DEF RuntimeInit
    <2>5. \A c \in Call : pc[c] = "idle" /\ stage[c] = "idle"
        BY DEF RuntimeInit, R!RegistryInit
    <2> QED BY <2>2, <2>4, <2>5 DEF Typed, RuntimeTypeOK, RuntimeInit
<1>3. Asks
    BY DEF RuntimeInit, Asks
<1>4. Entries /\ RevocationReaches /\ RotationReaches
    BY DEF RuntimeInit, R!RegistryInit, Entries, RevocationReaches, RotationReaches
<1> QED BY <1>1, <1>2, <1>3, <1>4 DEF RuntimeInv

\* Every step keeps the invariant.
LEMMA RuntimeStepInv == RuntimeInv /\ [RuntimeNext]_runtimeVars => RuntimeInv'
<1> SUFFICES ASSUME RuntimeInv, [RuntimeNext]_runtimeVars
             PROVE  RuntimeInv'
    OBVIOUS
<1>1. P!RegistryInv'
    BY RegistryStepInv
<1>2. ASSUME NEW c \in Call, Resolved(c) \/ resolve_static_client(c) PROVE RuntimeInv'
    BY <1>1, <1>2, AskInv
<1>3. ASSUME NEW c \in Call, Unresolved(c) \/ \E u \in Caller : resolve_client(c, u)
      PROVE  RuntimeInv'
    BY <1>1, <1>3, BeforeInv
<1>4. ASSUME NEW c \in Call, InRegistry(c) \/ DropInRegistry(c) PROVE RuntimeInv'
    BY <1>1, <1>4, InRegistryInv
<1>5. CASE (\E p \in Pair, u \in Caller : Revoke(p, u)) \/ \E s \in Secret : Rotate(s)
    BY <1>1, <1>5, HostInv
<1>6. CASE RunClear \/ \E p \in Pair : RunEvict(p)
    BY <1>1, <1>6, TaskInv
<1>7. CASE Sweep \/ Tick
    BY <1>1, <1>7, SweepInv
<1>8. CASE UNCHANGED runtimeVars
    <2>1. UNCHANGED <<clients, pc, digest, keys, stage, caller, bundle, credVersion,
                      secretVersion, evictTasks, clearTasks, started, inserted>>
        BY <1>8 DEF runtimeVars, registry, host, tasks
    <2>2. Typed'
        BY <2>1 DEF RuntimeInv, Typed, RuntimeTypeOK
    <2>3. Asks'
        BY <2>1, AsksStay DEF Quiet
    <2>4. Settled({}) /\ Announced
        BY <2>1 DEF Settled, Residents, Announced
    <2> QED BY <1>1, <2>2, <2>3, <2>4, Preserved
<1> QED BY <1>2, <1>3, <1>4, <1>5, <1>6, <1>7, <1>8 DEF RuntimeNext

-----------------------------------------------------------------------------
\* The invariant holds in every reachable state.
THEOREM RuntimeInvariance == RuntimeSpec => []RuntimeInv
BY RuntimeInitInv, RuntimeStepInv, PTL DEF RuntimeSpec

\* Types; in particular a call has reached the registry exactly when it went
\* through resolve_client or resolve_static_client.
THEOREM RuntimeTypes == RuntimeSpec => []RuntimeTypeOK
<1>1. RuntimeInv => RuntimeTypeOK
    BY DEF RuntimeInv, Typed
<1> QED BY <1>1, RuntimeInvariance, PTL

\* The runtime uses the registry as ClientRegistry allows, so every theorem
\* about the registry holds inside it.
THEOREM RuntimeRefinesRegistry == RuntimeSpec => RegistryRefined
<1>1. RuntimeInit => R!RegistryInit
    BY DEF RuntimeInit
<1> QED
    BY <1>1, StepRefines, RuntimeInvariance, PTL
    DEF RuntimeSpec, RegistryRefined, R!RegistrySpec

\* The registry inside the runtime is bounded, stamps and evicts exactly, and
\* is the cache of ClientCache to the calls, whichever steps of it the
\* runtime's resolutions, host callbacks and spawned tasks take.
THEOREM RegistryInsideRuntime ==
    RuntimeSpec =>
        /\ P!CacheSpec
        /\ []P!CapacityBound
        /\ []P!StampIsLastUse
        /\ P!LruSparesRecent
        /\ P!SweepTakesExactlyIdle
<1>1. RuntimeInit => P!RegistryInit
    BY DEF RuntimeInit, R!RegistryInit, P!RegistryInit
<1>2. RuntimeInv /\ [RuntimeNext]_runtimeVars => [P!RegistryNext]_(P!registryVars)
    BY StepRefines, SameStep
<1>3. RuntimeSpec => P!RegistrySpec
    BY <1>1, <1>2, RuntimeInvariance, PTL DEF RuntimeSpec, P!RegistrySpec
<1>4. P!RegistrySpec => P!CacheSpec
    BY RegistryAssumed, P!RegistryImplementsCache
<1>5. P!RegistrySpec => []P!CapacityBound
    BY RegistryAssumed, P!CapacityHolds
<1>6. P!RegistrySpec => []P!StampIsLastUse
    BY RegistryAssumed, P!StampHolds
<1>7. P!RegistrySpec => P!LruSparesRecent
    BY RegistryAssumed, P!LruExact
<1>8. P!RegistrySpec => P!SweepTakesExactlyIdle
    BY RegistryAssumed, P!SweepExact
<1> QED BY <1>3, <1>4, <1>5, <1>6, <1>7, <1>8, PTL

\* A call is answered with a client that carries its own identity's
\* credentials, none of them revoked before it started, however the calls,
\* the revocations and the late eviction tasks interleave.
THEOREM OwnCredentialsAlways == RuntimeSpec => []OwnCredentials
<1>1. RuntimeInv => OwnCredentials
    <2> SUFFICES ASSUME RuntimeInv, NEW c \in Call, pc[c] = "done"
                 PROVE  LET baked == bundle[result[c]].creds IN
                        IF caller[c] = None
                        THEN DOMAIN baked = {}
                        ELSE /\ DOMAIN baked = Ref
                             /\ \A r \in Ref :
                                   /\ baked[r].of = caller[c]
                                   /\ baked[r].version >= started[c].cred[r][caller[c]]
        BY DEF OwnCredentials
    <2>1. /\ result[c] \in Call /\ pc[result[c]] = "done"
          /\ digest[result[c]] = digest[c]
        BY DEF RuntimeInv, P!RegistryInv, P!Served
    <2>2. stage[c] = "asked" /\ stage[result[c]] = "asked"
        BY <2>1 DEF RuntimeInv, Typed, RuntimeTypeOK
    <2>3. bundle[result[c]] = bundle[c]
        BY <2>1, <2>2 DEF RuntimeInv, Asks
    <2> QED BY <2>2, <2>3 DEF RuntimeInv, Asks, Own
<1> QED BY <1>1, RuntimeInvariance, PTL

\* While a client that depends on a revoked credential is resident, a task
\* that will take it is still to run.
THEOREM RevocationsReach == RuntimeSpec => []RevocationReaches
<1>1. RuntimeInv => RevocationReaches
    BY DEF RuntimeInv
<1> QED BY <1>1, RuntimeInvariance, PTL

\* The same for a rotated secret and every client.
THEOREM RotationsReach == RuntimeSpec => []RotationReaches
<1>1. RuntimeInv => RotationReaches
    BY DEF RuntimeInv
<1> QED BY <1>1, RuntimeInvariance, PTL
=============================================================================
