---------------------------- MODULE ProfileLifecycle ----------------------------
(***************************************************************************)
(* The life of the NetworkProfileRuntimes of one binding profile:          *)
(* register creates one, a hot reload replaces it in the plugin's profile  *)
(* map, calls in flight keep a clone of the one they began with, and the   *)
(* last clone to go takes the subscriptions and the idle sweeper with it   *)
(* (src/src/runtime.rs, and idle_sweep_loop of src/src/client_registry.rs).*)
(*                                                                         *)
(* The profile map belongs to the plugin and is external.  Of a registry   *)
(* only the hand-outs and the evictions are told; ClientRegistry has the   *)
(* rest.  Every client is taken to depend on every credential and secret   *)
(* the host announces, so an eviction task empties the registry.           *)
(***************************************************************************)
EXTENDS Naturals

CONSTANTS
    Call,          \* tool calls, one after another in each slot
    Gen,           \* generations: what register returns, load by load
    Digest,        \* CredDigest
    IdleEviction,  \* config.idle_eviction, in clock ticks
    Interval,      \* of the sweeper, 60 s in register
    Late,          \* how late tokio runs a task that is due
    MaxTime,       \* bound: the clock stops here
    MaxAnnounced,  \* bound: revocations and rotations
    Plugin,        \* the holder of the clone in the profile map
    None           \* no generation, no client

ASSUME LifecycleAssumption ==
    /\ IdleEviction \in Nat
    /\ Interval \in Nat \ {0}
    /\ Late \in 0 .. IdleEviction
    /\ MaxTime \in Nat
    /\ MaxAnnounced \in Nat
    /\ Plugin \notin Call
    /\ None \notin Gen \cup Digest

VARIABLES
    now,        \* the clock
    announced,  \* history: revocations and rotations so far
    profile,    \* the generation in the profile map
    clones,     \* who holds a clone of each generation
    subs,       \* its live subscriptions
    cancelled,  \* its sweeper's CancellationToken
    sweeper,    \* its sweeper task
    due,        \* when that task has its next step to do
    clients,    \* its registry, digest |-> entry
    evictions,  \* spawned tasks that will evict from it
    gen,        \* the clone each call works with
    digest,     \* the bundle it resolves to
    stage       \* how far it is

host == <<announced>>
calls == <<gen, digest, stage>>
runtimes == <<clones, subs, cancelled>>
task == <<sweeper, due>>
lifecycleVars ==
    <<now, host, profile, runtimes, task, clients, evictions, calls>>

Kind == {"revocation", "rotation"}

Holder == Call \cup {Plugin}

\* `announced` is a history: how much had been announced at the insertion.
ClientEntry == [lastUsed : Nat, announced : Nat]

Resident(g) == {d \in Digest : clients[g][d] # None}

InUse(g) == clones[g] # {}

LifecycleInit ==
    /\ now = 0
    /\ announced = 0
    /\ profile = None
    /\ clones = [g \in Gen |-> {}]
    /\ subs = [g \in Gen |-> {}]
    /\ cancelled = [g \in Gen |-> FALSE]
    /\ sweeper = [g \in Gen |-> "none"]
    /\ due = [g \in Gen |-> 0]
    /\ clients = [g \in Gen |-> [d \in Digest |-> None]]
    /\ evictions = [g \in Gen |-> 0]
    /\ gen = [c \in Call |-> None]
    /\ digest = [c \in Call |-> None]
    /\ stage = [c \in Call |-> "idle"]

-----------------------------------------------------------------------------
\* Mutant: only one of the two subscriptions is kept.
OneSubscription == {"revocation"}

\* What register subscribes to; the runtime keeps both.
Subscriptions == Kind

\* Compiles, subscribes, spawns the sweeper.  Nobody can use the runtime
\* before it returns.
register(g) ==
    /\ sweeper[g] = "none"
    /\ clones' = [clones EXCEPT ![g] = {Plugin}]
    /\ subs' = [subs EXCEPT ![g] = Subscriptions]
    /\ sweeper' = [sweeper EXCEPT ![g] = "spawned"]
    /\ due' = [due EXCEPT ![g] = now]
    /\ UNCHANGED <<now, host, profile, cancelled, clients, evictions, calls>>

\* Mutant: each clone that goes unsubscribes and cancels.
DropAnyClone(g, h) ==
    /\ clones' = [clones EXCEPT ![g] = @ \ {h}]
    /\ subs' = [subs EXCEPT ![g] = {}]
    /\ cancelled' = [cancelled EXCEPT ![g] = TRUE]

\* Mutant: the guard is not dropped, the sweeper task holds a clone of it.
DropButTheGuard(g, h) ==
    /\ clones' = [clones EXCEPT ![g] = @ \ {h}]
    /\ subs' = IF clones[g] = {h} THEN [subs EXCEPT ![g] = {}] ELSE subs
    /\ UNCHANGED cancelled

\* The subscriptions and the sweeper's guard are behind Arcs: the last clone
\* to be dropped unsubscribes and cancels.
DropClone(g, h) ==
    /\ clones' = [clones EXCEPT ![g] = @ \ {h}]
    /\ IF clones[g] = {h}
       THEN /\ subs' = [subs EXCEPT ![g] = {}]
            /\ cancelled' = [cancelled EXCEPT ![g] = TRUE]
       ELSE UNCHANGED <<subs, cancelled>>

\* The plugin stores the new runtime in its map and drops the old one.
Publish(g) ==
    /\ Plugin \in clones[g] /\ profile # g
    /\ profile' = g
    /\ IF profile = None THEN UNCHANGED runtimes ELSE DropClone(profile, Plugin)
    /\ UNCHANGED <<now, host, task, clients, evictions, calls>>

\* The plugin removes the profile.
Unload ==
    /\ profile # None
    /\ profile' = None
    /\ DropClone(profile, Plugin)
    /\ UNCHANGED <<now, host, task, clients, evictions, calls>>

-----------------------------------------------------------------------------
\* The dispatch path clones the runtime out of the map.
Dispatch(c) ==
    /\ stage[c] = "idle" /\ profile # None
    /\ stage' = [stage EXCEPT ![c] = "resolving"]
    /\ gen' = [gen EXCEPT ![c] = profile]
    /\ \E d \in Digest : digest' = [digest EXCEPT ![c] = d]
    /\ clones' = [clones EXCEPT ![profile] = @ \cup {c}]
    /\ UNCHANGED <<now, host, profile, subs, cancelled, task, clients, evictions>>

\* Mutant: the entry is stamped with the moment it expires.
HandedOutWithDeadline(e) ==
    IF e = None
    THEN [lastUsed |-> now + IdleEviction, announced |-> announced]
    ELSE [e EXCEPT !.lastUsed = now + IdleEviction]

HandedOut(e) ==
    IF e = None
    THEN [lastUsed |-> now, announced |-> announced]
    ELSE [e EXCEPT !.lastUsed = now]

\* The locked section of get_or_build in which the call is handed a client;
\* the clone is still held while the request is sent and answered.
ClientResolved(c) ==
    /\ stage[c] = "resolving"
    /\ stage' = [stage EXCEPT ![c] = "sending"]
    /\ clients' = [clients EXCEPT ![gen[c]][digest[c]] = HandedOut(@)]
    /\ UNCHANGED <<now, host, profile, runtimes, task, evictions, gen, digest>>

\* The call is answered, fails, or is dropped, at any of its awaits.
Finish(c) ==
    /\ stage[c] # "idle"
    /\ stage' = [stage EXCEPT ![c] = "idle"]
    /\ gen' = [gen EXCEPT ![c] = None]
    /\ digest' = [digest EXCEPT ![c] = None]
    /\ DropClone(gen[c], c)
    /\ UNCHANGED <<now, host, profile, task, clients, evictions>>

\* The host revokes a credential or rotates a secret: every subscription of
\* that kind spawns a task.
Announce(kind) ==
    /\ announced < MaxAnnounced
    /\ announced' = announced + 1
    /\ evictions' =
          [g \in Gen |-> IF kind \in subs[g] THEN evictions[g] + 1 ELSE evictions[g]]
    /\ UNCHANGED <<now, profile, runtimes, task, clients, calls>>

RunEviction(g) ==
    /\ evictions[g] > 0
    /\ evictions' = [evictions EXCEPT ![g] = @ - 1]
    /\ clients' = [clients EXCEPT ![g] = [d \in Digest |-> None]]
    /\ UNCHANGED <<now, host, profile, runtimes, task, calls>>

-----------------------------------------------------------------------------
(***************************************************************************)
(* idle_sweep_loop.  "spawned": not yet run.  "waiting": in the select.    *)
(* "sweeping": the tick was taken, sweep_idle waits for the mutex.         *)
(***************************************************************************)
Sweeper(g, from, to, next) ==
    /\ sweeper[g] = from
    /\ sweeper' = [sweeper EXCEPT ![g] = to]
    /\ due' = [due EXCEPT ![g] = next]
    /\ UNCHANGED <<now, host, profile, runtimes, evictions, calls>>

\* The ticker is created, its first tick is consumed at once.
Start(g) ==
    /\ Sweeper(g, "spawned", "waiting", now + Interval)
    /\ UNCHANGED clients

\* `biased`, cancellation first.
Cancelled(g) ==
    /\ cancelled[g]
    /\ Sweeper(g, "waiting", "ended", 0)
    /\ UNCHANGED clients

Ticked(g) ==
    /\ ~cancelled[g] /\ now >= due[g]
    /\ Sweeper(g, "waiting", "sweeping", now)
    /\ UNCHANGED clients

Idle(g) == {d \in Resident(g) : now - clients[g][d].lastUsed > IdleEviction}

\* Mutant: every other tick is missed.
SweptSkipping(g) ==
    /\ Sweeper(g, "sweeping", "waiting", due[g] + 2 * Interval)
    /\ clients' = [clients EXCEPT ![g] = [d \in Digest |-> IF d \in Idle(g) THEN None ELSE @[d]]]

\* Delay: the next tick is due an interval after this one was taken.
Swept(g) ==
    /\ Sweeper(g, "sweeping", "waiting", due[g] + Interval)
    /\ clients' = [clients EXCEPT ![g] = [d \in Digest |-> IF d \in Idle(g) THEN None ELSE @[d]]]

SweeperStep(g) == Start(g) \/ Cancelled(g) \/ Ticked(g) \/ Swept(g)

\* Nothing a sweeper has to do is put off for more than Late ticks.
OnTime ==
    \A g \in Gen :
        sweeper[g] \in {"spawned", "waiting", "sweeping"} => now < due[g] + Late

Tick ==
    /\ now < MaxTime /\ OnTime
    /\ now' = now + 1
    /\ UNCHANGED <<host, profile, runtimes, task, clients, evictions, calls>>

LifecycleNext ==
    \/ \E g \in Gen : register(g) \/ Publish(g) \/ RunEviction(g) \/ SweeperStep(g)
    \/ Unload
    \/ \E c \in Call : Dispatch(c) \/ ClientResolved(c) \/ Finish(c)
    \/ \E kind \in Kind : Announce(kind)
    \/ Tick

LifecycleSpec == LifecycleInit /\ [][LifecycleNext]_lifecycleVars

\* Spawned tasks run: tokio schedules them.
FairLifecycleSpec ==
    /\ LifecycleSpec
    /\ \A g \in Gen :
          /\ WF_lifecycleVars(SweeperStep(g))
          /\ WF_lifecycleVars(RunEviction(g))

-----------------------------------------------------------------------------
(***************************************************************************)
(* Properties                                                              *)
(***************************************************************************)

\* Types; a call works with a runtime it holds a clone of, and no entry is
\* stamped in the future.
LifecycleTypeOK ==
    /\ now \in Nat
    /\ announced \in Nat
    /\ profile \in Gen \cup {None}
    /\ clones \in [Gen -> SUBSET Holder]
    /\ subs \in [Gen -> SUBSET Kind]
    /\ cancelled \in [Gen -> BOOLEAN]
    /\ sweeper \in [Gen -> {"none", "spawned", "waiting", "sweeping", "ended"}]
    /\ due \in [Gen -> Nat]
    /\ clients \in [Gen -> [Digest -> ClientEntry \cup {None}]]
    /\ \A g \in Gen : \A d \in Resident(g) : clients[g][d].lastUsed <= now
    /\ evictions \in [Gen -> Nat]
    /\ stage \in [Call -> {"idle", "resolving", "sending"}]
    /\ gen \in [Call -> Gen \cup {None}]
    /\ digest \in [Call -> Digest \cup {None}]
    /\ profile # None => Plugin \in clones[profile]
    /\ \A c \in Call : stage[c] # "idle" =>
          gen[c] \in Gen /\ digest[c] \in Digest /\ c \in clones[gen[c]]

\* While anyone holds a clone of a runtime, also one that a hot reload has
\* replaced, no announcement passes its registry by: a client that was in it
\* when something was announced goes with a task that is still to run.
AnnouncementsReachClones ==
    \A g \in Gen : InUse(g) =>
        \A d \in Resident(g) : clients[g][d].announced < announced => evictions[g] > 0

\* A client nobody asks for leaves a runtime in use within the idle window,
\* an interval, and the lateness of a tick and of its sweep, across reloads.
IdleBound ==
    \A g \in Gen : InUse(g) =>
        \A d \in Resident(g) :
            now - clients[g][d].lastUsed <= IdleEviction + Interval + 2 * Late

\* What keeps the registry of a generation in memory.
Released(g) == clones[g] = {} /\ subs[g] = {} /\ sweeper[g] = "ended" /\ evictions[g] = 0

\* A runtime nobody holds any more is released: the callbacks, the sweeper
\* and the spawned tasks all hold its registry, and all of them end.
NoLeak ==
    \A g \in Gen : sweeper[g] # "none" /\ clones[g] = {} ~> Released(g)
================================================================================
