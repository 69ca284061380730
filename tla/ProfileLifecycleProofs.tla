------------------------- MODULE ProfileLifecycleProofs -------------------------
(***************************************************************************)
(* Proofs about ProfileLifecycle: for every number of calls, generations,  *)
(* digests and announcements, no announcement passes by a runtime somebody *)
(* holds, and its idle clients leave within a bound.                       *)
(*                                                                         *)
(* Neither is inductive.  That announcements arrive rests on the           *)
(* subscriptions of a runtime living as long as its clones (Kept).  The    *)
(* idle bound rests on the sweeper living as long, and on where it stands: *)
(* Schedule says by when its next step is due, and OnSchedule how old the  *)
(* clients can be by then.                                                 *)
(***************************************************************************)
EXTENDS ProfileLifecycle, TLAPS

\* A generation that was not registered yet has no clone and no client.
Unregistered ==
    \A g \in Gen : sweeper[g] = "none" =>
        clones[g] = {} /\ Resident(g) = {} /\ ~cancelled[g]

\* While a clone is held, subscriptions and sweeper are.
Kept ==
    \A g \in Gen : InUse(g) =>
        /\ subs[g] = Kind
        /\ ~cancelled[g]
        /\ sweeper[g] \in {"spawned", "waiting", "sweeping"}

\* When the next step of the sweeper of a runtime in use is due.
Schedule(g) ==
    /\ now <= due[g] + Late
    /\ sweeper[g] \in {"spawned", "sweeping"} => due[g] <= now
    /\ sweeper[g] = "waiting" => due[g] <= now + Interval

\* How long before that its clients were asked for.
Fresh(g, d) ==
    /\ sweeper[g] = "spawned" => due[g] <= clients[g][d].lastUsed
    /\ sweeper[g] = "waiting" =>
          due[g] <= clients[g][d].lastUsed + IdleEviction + Interval
    /\ sweeper[g] = "sweeping" =>
          due[g] <= clients[g][d].lastUsed + IdleEviction + Interval + Late

OnSchedule ==
    \A g \in Gen : InUse(g) => Schedule(g) /\ \A d \in Resident(g) : Fresh(g, d)

LifecycleInv ==
    /\ LifecycleTypeOK
    /\ Unregistered
    /\ Kept
    /\ AnnouncementsReachClones
    /\ OnSchedule

-----------------------------------------------------------------------------
\* The first state satisfies the invariant: nothing is registered.
LEMMA InitInv == LifecycleInit => LifecycleInv
BY LifecycleAssumption
DEF LifecycleInit, LifecycleInv, LifecycleTypeOK, Unregistered, Kept, InUse, Resident,
    AnnouncementsReachClones, OnSchedule

\* A step that leaves the sweepers' side alone keeps its two conjuncts:
\* clients may go, and nobody new holds a clone.
LEMMA Fewer ==
    ASSUME LifecycleInv,
           UNCHANGED <<now, task>>,
           \A g \in Gen : InUse(g)' => InUse(g),
           \A g \in Gen : Resident(g)' \subseteq Resident(g),
           \A g \in Gen : \A d \in Resident(g)' : clients'[g][d] = clients[g][d]
    PROVE  OnSchedule'
BY DEF LifecycleInv, OnSchedule, Schedule, Fresh, task

\* A clone is dropped: who still holds one of the runtime loses nothing.
LEMMA DropShape ==
    ASSUME LifecycleInv,
           NEW h \in Gen, NEW x \in Holder, DropClone(h, x)
    PROVE  /\ clones' \in [Gen -> SUBSET Holder]
           /\ subs' \in [Gen -> SUBSET Kind]
           /\ cancelled' \in [Gen -> BOOLEAN]
           /\ \A g \in Gen : clones'[g] = IF g = h THEN clones[g] \ {x} ELSE clones[g]
           /\ \A g \in Gen : InUse(g)' =>
                 InUse(g) /\ subs'[g] = subs[g] /\ cancelled'[g] = cancelled[g]
           /\ \A g \in Gen : clones[g] = {} /\ x \in clones[h] =>
                 cancelled'[g] = cancelled[g]
<1> USE DEF LifecycleInv, LifecycleTypeOK
<1>1. /\ clones' \in [Gen -> SUBSET Holder]
      /\ subs' \in [Gen -> SUBSET Kind]
      /\ cancelled' \in [Gen -> BOOLEAN]
      /\ \A g \in Gen : clones'[g] = IF g = h THEN clones[g] \ {x} ELSE clones[g]
    BY DEF DropClone
<1>2. CASE clones[h] = {x}
    <2>1. /\ \A g \in Gen : g # h => subs'[g] = subs[g] /\ cancelled'[g] = cancelled[g]
          /\ clones'[h] = {}
        BY <1>1, <1>2 DEF DropClone
    <2> QED BY <1>1, <2>1, <1>2 DEF InUse
<1>3. CASE clones[h] # {x}
    <2>1. subs' = subs /\ cancelled' = cancelled
        BY <1>3 DEF DropClone
    <2> QED BY <1>1, <2>1 DEF InUse
<1> QED BY <1>1, <1>2, <1>3

\* Dropping a clone keeps the invariant, whatever else of the calls and of
\* the profile map the step changes, if that leaves them typed.
LEMMA DropInv ==
    ASSUME LifecycleInv,
           NEW h \in Gen, NEW x \in clones[h], DropClone(h, x),
           UNCHANGED <<now, host, task, clients, evictions>>,
           LifecycleTypeOK'
    PROVE  LifecycleInv'
<1>1. x \in Holder
    BY DEF LifecycleInv, LifecycleTypeOK
<1>2. Unregistered'
    <2>1. \A g \in Gen : Resident(g)' = Resident(g)
        BY DEF Resident
    <2>2. ASSUME NEW g \in Gen, sweeper[g] = "none"
          PROVE  clones'[g] = {} /\ ~cancelled'[g]
        BY <1>1, <2>2, DropShape DEF LifecycleInv, Unregistered
    <2> QED BY <2>1, <2>2 DEF LifecycleInv, Unregistered, task
<1>3. Kept'
    BY <1>1, DropShape DEF LifecycleInv, Kept, task
<1>4. AnnouncementsReachClones'
    BY <1>1, DropShape DEF LifecycleInv, AnnouncementsReachClones, Resident, host
<1>5. OnSchedule'
    BY <1>1, DropShape, Fewer DEF Resident
<1> QED BY <1>2, <1>3, <1>4, <1>5 DEF LifecycleInv

-----------------------------------------------------------------------------
\* A registered runtime is typed, held, and its sweeper is due at once.
LEMMA RegisterInv ==
    ASSUME LifecycleInv, NEW g \in Gen, register(g)
    PROVE  LifecycleInv'
<1> USE DEF LifecycleInv, register, host, task, calls
<1>1. LifecycleTypeOK'
    <2>1. \A h \in Gen : Resident(h)' = Resident(h)
        BY DEF Resident
    <2>2. \A h \in Gen : Plugin \in clones[h] => Plugin \in clones'[h]
        BY DEF LifecycleTypeOK
    <2>3. \A c \in Call, h \in Gen : c \in clones[h] => c \in clones'[h]
        BY DEF LifecycleTypeOK, Unregistered
    <2>4. clones' \in [Gen -> SUBSET Holder]
        BY DEF LifecycleTypeOK, Holder
    <2>5. subs' \in [Gen -> SUBSET Kind]
        BY DEF LifecycleTypeOK, Subscriptions
    <2>6. sweeper' \in [Gen -> {"none", "spawned", "waiting", "sweeping", "ended"}]
          /\ due' \in [Gen -> Nat]
        BY DEF LifecycleTypeOK
    <2> QED BY <2>1, <2>2, <2>3, <2>4, <2>5, <2>6 DEF LifecycleTypeOK
<1>2. Unregistered'
    BY DEF LifecycleTypeOK, Unregistered, Resident
<1>3. Kept'
    BY DEF LifecycleTypeOK, Kept, InUse, Unregistered, Subscriptions
<1>4. AnnouncementsReachClones'
    <2>1. \A h \in Gen : Resident(h)' = Resident(h)
        BY DEF Resident
    <2>2. \A h \in Gen : InUse(h)' => InUse(h) \/ Resident(h) = {}
        BY DEF LifecycleTypeOK, InUse, Unregistered
    <2> SUFFICES ASSUME NEW h \in Gen, InUse(h)', NEW d \in Resident(h),
                        clients[h][d].announced < announced
                 PROVE  evictions[h] > 0
        BY <2>1, Zenon DEF AnnouncementsReachClones
    <2> QED BY <2>2 DEF AnnouncementsReachClones
<1>5. OnSchedule'
    <2>1. \A h \in Gen : Resident(h)' = Resident(h)
        BY DEF Resident
    <2>2. \A h \in Gen \ {g} :
             clones'[h] = clones[h] /\ sweeper'[h] = sweeper[h] /\ due'[h] = due[h]
        BY DEF LifecycleTypeOK
    <2>3. Schedule(g)' /\ Resident(g)' = {}
        BY <2>1, LifecycleAssumption DEF LifecycleTypeOK, Schedule, Unregistered
    <2> QED BY <2>1, <2>2, <2>3 DEF OnSchedule, InUse, Schedule, Fresh
<1> QED BY <1>1, <1>2, <1>3, <1>4, <1>5

\* A hot reload: the new runtime is in the map, the old one loses a clone.
LEMMA PublishInv ==
    ASSUME LifecycleInv, NEW g \in Gen, Publish(g)
    PROVE  LifecycleInv'
<1>1. CASE profile = None
    <2>1. LifecycleTypeOK'
        <3>1. \A h \in Gen : Resident(h)' = Resident(h)
            BY DEF Publish, Resident
        <3>2. g \in Gen /\ Plugin \in clones'[g] /\ profile' = g
            BY <1>1 DEF Publish, runtimes
        <3> QED BY <1>1, <3>1, <3>2
            DEF LifecycleInv, LifecycleTypeOK, Publish, host, runtimes, task, calls
    <2>2. /\ \A h \in Gen : (InUse(h)' <=> InUse(h)) /\ Resident(h)' = Resident(h)
          /\ UNCHANGED <<now, announced, clones, subs, cancelled, sweeper, due, clients, evictions>>
        BY <1>1 DEF Publish, InUse, Resident, host, runtimes, task
    <2>3. Unregistered' /\ Kept'
        BY <2>2 DEF LifecycleInv, Unregistered, Kept
    <2>4. AnnouncementsReachClones'
        BY <2>2 DEF LifecycleInv, AnnouncementsReachClones
    <2>5. OnSchedule'
        BY <2>2 DEF LifecycleInv, OnSchedule, Schedule, Fresh
    <2> QED BY <2>1, <2>3, <2>4, <2>5 DEF LifecycleInv
<1>2. CASE profile # None
    <2>1. /\ profile \in Gen /\ Plugin \in clones[profile] /\ Plugin \in Holder
          /\ DropClone(profile, Plugin)
        BY <1>2 DEF LifecycleInv, LifecycleTypeOK, Publish, Holder
    <2>2. LifecycleTypeOK'
        <3>1. \A h \in Gen : Resident(h)' = Resident(h)
            BY DEF Publish, Resident
        <3>2. g \in Gen /\ Plugin \in clones'[g] /\ profile' = g
            BY <2>1, DropShape DEF Publish
        <3>3. \A c \in Call, h \in Gen : c \in clones[h] => c \in clones'[h]
            BY <2>1, DropShape, LifecycleAssumption
        <3> QED BY <2>1, DropShape, <3>1, <3>2, <3>3
            DEF LifecycleInv, LifecycleTypeOK, Publish, host, task, calls
    <2> QED BY <2>1, <2>2, DropInv DEF Publish
<1> QED BY <1>1, <1>2

\* The profile is removed.
LEMMA UnloadInv ==
    ASSUME LifecycleInv, Unload
    PROVE  LifecycleInv'
<1>1. /\ profile \in Gen /\ Plugin \in clones[profile] /\ Plugin \in Holder
      /\ DropClone(profile, Plugin)
    BY DEF LifecycleInv, LifecycleTypeOK, Unload, Holder
<1>2. LifecycleTypeOK'
    <2>1. \A h \in Gen : Resident(h)' = Resident(h)
        BY DEF Unload, Resident
    <2>2. \A c \in Call, h \in Gen : c \in clones[h] => c \in clones'[h]
        BY <1>1, DropShape, LifecycleAssumption
    <2> QED BY <1>1, DropShape, <2>1, <2>2
        DEF LifecycleInv, LifecycleTypeOK, Unload, host, task, calls
<1> QED BY <1>1, <1>2, DropInv DEF Unload

\* A call begins with the runtime in the map, which somebody holds.
LEMMA DispatchInv ==
    ASSUME LifecycleInv, NEW c \in Call, Dispatch(c)
    PROVE  LifecycleInv'
<1> USE DEF Dispatch, host, task
<1>1. profile \in Gen /\ InUse(profile)
    BY DEF LifecycleInv, LifecycleTypeOK, InUse
<1>2. \A g \in Gen : (InUse(g)' <=> InUse(g)) /\ Resident(g)' = Resident(g)
    BY <1>1 DEF LifecycleInv, LifecycleTypeOK, InUse, Resident
<1>3. LifecycleTypeOK'
    <2>1. \A h \in Gen : clones[h] \subseteq clones'[h]
        BY <1>1 DEF LifecycleInv, LifecycleTypeOK
    <2>2. clones' \in [Gen -> SUBSET Holder] /\ c \in clones'[profile]
        BY <1>1 DEF LifecycleInv, LifecycleTypeOK, Holder
    <2>3. PICK d \in Digest : digest' = [digest EXCEPT ![c] = d]
        OBVIOUS
    <2>4. /\ gen' \in [Call -> Gen \cup {None}] /\ gen'[c] = profile
          /\ digest' \in [Call -> Digest \cup {None}] /\ digest'[c] \in Digest
          /\ stage' \in [Call -> {"idle", "resolving", "sending"}]
          /\ \A b \in Call \ {c} :
                gen'[b] = gen[b] /\ digest'[b] = digest[b] /\ stage'[b] = stage[b]
        BY <1>1, <2>3 DEF LifecycleInv, LifecycleTypeOK
    <2>5. \A b \in Call : stage'[b] # "idle" =>
             gen'[b] \in Gen /\ digest'[b] \in Digest /\ b \in clones'[gen'[b]]
        BY <1>1, <2>1, <2>2, <2>4 DEF LifecycleInv, LifecycleTypeOK
    <2> QED BY <1>1, <1>2, <2>1, <2>2, <2>4, <2>5 DEF LifecycleInv, LifecycleTypeOK
<1>4. Unregistered'
    BY <1>2 DEF LifecycleInv, Unregistered, InUse
<1>5. Kept' /\ AnnouncementsReachClones' /\ OnSchedule'
    BY <1>2 DEF LifecycleInv, Kept, AnnouncementsReachClones, OnSchedule, Schedule, Fresh
<1> QED BY <1>3, <1>4, <1>5 DEF LifecycleInv

\* A call gives its clone back.
LEMMA FinishInv ==
    ASSUME LifecycleInv, NEW c \in Call, Finish(c)
    PROVE  LifecycleInv'
<1>1. /\ gen[c] \in Gen /\ c \in clones[gen[c]] /\ c \in Holder /\ c # Plugin
      /\ DropClone(gen[c], c)
    BY LifecycleAssumption DEF LifecycleInv, LifecycleTypeOK, Finish, Holder
<1>2. LifecycleTypeOK'
    <2>1. \A h \in Gen : Resident(h)' = Resident(h)
        BY DEF Finish, Resident
    <2>2. \A h \in Gen : \A x \in clones[h] : x # c => x \in clones'[h]
        BY <1>1, DropShape
    <2>3. /\ gen' \in [Call -> Gen \cup {None}]
          /\ digest' \in [Call -> Digest \cup {None}]
          /\ stage' \in [Call -> {"idle", "resolving", "sending"}]
          /\ stage'[c] = "idle"
          /\ \A b \in Call \ {c} :
                gen'[b] = gen[b] /\ digest'[b] = digest[b] /\ stage'[b] = stage[b]
        BY DEF LifecycleInv, LifecycleTypeOK, Finish
    <2>4. \A b \in Call : stage'[b] # "idle" =>
             gen'[b] \in Gen /\ digest'[b] \in Digest /\ b \in clones'[gen'[b]]
        BY <2>2, <2>3 DEF LifecycleInv, LifecycleTypeOK
    <2>5. profile' = profile /\ (profile # None => Plugin \in clones'[profile])
        BY <1>1, <2>2 DEF LifecycleInv, LifecycleTypeOK, Finish
    <2> QED BY <1>1, DropShape, <2>1, <2>3, <2>4, <2>5
        DEF LifecycleInv, LifecycleTypeOK, Finish, host, task
<1> QED BY <1>1, <1>2, DropInv DEF Finish

\* The client a call is handed was asked for now, and was built from the
\* credentials of now.
LEMMA ResolvedInv ==
    ASSUME LifecycleInv, NEW c \in Call, ClientResolved(c)
    PROVE  LifecycleInv'
<1> DEFINE g == gen[c]
           d == digest[c]
           e == clients[g][d]
<1> USE DEF ClientResolved, host, runtimes, task
<1>1. g \in Gen /\ d \in Digest /\ InUse(g)
    BY DEF LifecycleInv, LifecycleTypeOK, InUse
<1>2. /\ HandedOut(e) \in ClientEntry
      /\ HandedOut(e).lastUsed = now
      /\ e = None => HandedOut(e).announced = announced
      /\ e # None => HandedOut(e).announced = e.announced
    <2>1. e \in ClientEntry \cup {None} /\ now \in Nat /\ announced \in Nat
        BY <1>1 DEF LifecycleInv, LifecycleTypeOK
    <2> QED BY <2>1 DEF HandedOut, ClientEntry
<1>3. /\ clients' \in [Gen -> [Digest -> ClientEntry \cup {None}]]
      /\ clients'[g][d] = HandedOut(e)
      /\ \A h \in Gen : \A k \in Digest :
            <<h, k>> # <<g, d>> => clients'[h][k] = clients[h][k]
    <2>1. clients \in [Gen -> [Digest -> ClientEntry \cup {None}]]
        BY DEF LifecycleInv, LifecycleTypeOK
    <2>2. clients' = [clients EXCEPT ![g] = [clients[g] EXCEPT ![d] = HandedOut(e)]]
        OBVIOUS
    <2> HIDE DEF g, d, e, ClientResolved
    <2> DEFINE row == [clients[g] EXCEPT ![d] = HandedOut(e)]
    <2>4. /\ row \in [Digest -> ClientEntry \cup {None}]
          /\ row[d] = HandedOut(e)
          /\ \A k \in Digest : k # d => row[k] = clients[g][k]
        BY <1>1, <1>2, <2>1
    <2> HIDE DEF row
    <2>5. clients' = [clients EXCEPT ![g] = row]
        BY <2>2 DEF row
    <2> QED BY <1>1, <2>1, <2>4, <2>5
<1>4. /\ now' = now /\ announced' = announced /\ profile' = profile
      /\ clones' = clones /\ subs' = subs /\ cancelled' = cancelled
      /\ sweeper' = sweeper /\ due' = due /\ evictions' = evictions
      /\ gen' = gen /\ digest' = digest
      /\ \A h \in Gen : InUse(h)' <=> InUse(h)
    BY DEF InUse
<1> HIDE DEF g, d, e
<1>5. LifecycleTypeOK'
    <2>1. \A h \in Gen : \A k \in Resident(h)' : clients'[h][k].lastUsed <= now
        BY <1>1, <1>2, <1>3 DEF LifecycleInv, LifecycleTypeOK, Resident
    <2>2. stage' \in [Call -> {"idle", "resolving", "sending"}]
          /\ \A b \in Call : stage'[b] # "idle" => stage[b] # "idle"
        BY DEF LifecycleInv, LifecycleTypeOK
    <2> QED BY <1>3, <1>4, <2>1, <2>2 DEF LifecycleInv, LifecycleTypeOK
<1>6. Unregistered' /\ Kept'
    <2>1. \A h \in Gen : sweeper[h] = "none" => h # g
        BY <1>1 DEF LifecycleInv, Unregistered, InUse
    <2> QED BY <1>3, <1>4, <2>1 DEF LifecycleInv, Unregistered, Kept, Resident
<1>7. AnnouncementsReachClones'
    <2> SUFFICES ASSUME NEW h \in Gen, InUse(h), NEW k \in Resident(h)',
                        clients'[h][k].announced < announced
                 PROVE  evictions[h] > 0
        BY <1>4 DEF AnnouncementsReachClones
    <2>1. k \in Digest /\ announced \in Nat
        BY DEF Resident, LifecycleInv, LifecycleTypeOK
    <2>2. k \in Resident(h) /\ clients[h][k].announced < announced
        <3>1. CASE h = g /\ k = d
            BY <1>1, <1>2, <1>3, <2>1, <3>1 DEF e, Resident
        <3>2. CASE ~(h = g /\ k = d)
            BY <1>3, <2>1, <3>2 DEF Resident
        <3> QED BY <3>1, <3>2
    <2> QED BY <2>2 DEF LifecycleInv, AnnouncementsReachClones
<1>8. OnSchedule'
    <2>1. \A h \in Gen : InUse(h)' => Schedule(h)'
        BY <1>4 DEF LifecycleInv, OnSchedule, Schedule
    <2>2. ASSUME NEW h \in Gen, InUse(h)', NEW k \in Resident(h)' PROVE Fresh(h, k)'
        <3>1. CASE <<h, k>> = <<g, d>>
            BY <1>1, <1>2, <1>3, <1>4, <3>1, LifecycleAssumption
            DEF LifecycleInv, LifecycleTypeOK, OnSchedule, Schedule, Fresh
        <3>2. CASE <<h, k>> # <<g, d>>
            BY <1>3, <1>4, <2>2, <3>2 DEF LifecycleInv, OnSchedule, Fresh, Resident
        <3> QED BY <3>1, <3>2
    <2> QED BY <2>1, <2>2 DEF OnSchedule
<1> QED BY <1>5, <1>6, <1>7, <1>8 DEF LifecycleInv

\* An announcement reaches the tasks of every runtime in use.
LEMMA AnnounceInv ==
    ASSUME LifecycleInv, NEW kind \in Kind, Announce(kind)
    PROVE  LifecycleInv'
<1> USE DEF Announce, runtimes, task, calls
<1>1. LifecycleTypeOK'
    BY DEF LifecycleInv, LifecycleTypeOK, Resident
<1>2. Unregistered' /\ Kept'
    BY DEF LifecycleInv, Unregistered, Kept, InUse, Resident
<1>3. AnnouncementsReachClones'
    BY DEF LifecycleInv, LifecycleTypeOK, Kept, AnnouncementsReachClones, InUse
<1>4. OnSchedule'
    BY Fewer DEF InUse, Resident
<1> QED BY <1>1, <1>2, <1>3, <1>4 DEF LifecycleInv

\* A task that evicts leaves nothing it could have missed.
LEMMA RunEvictionInv ==
    ASSUME LifecycleInv, NEW g \in Gen, RunEviction(g)
    PROVE  LifecycleInv'
<1> USE DEF RunEviction, host, runtimes, task, calls
<1>1. clients \in [Gen -> [Digest -> ClientEntry \cup {None}]]
    BY DEF LifecycleInv, LifecycleTypeOK
<1>2. /\ Resident(g)' = {}
      /\ \A h \in Gen : h # g => clients'[h] = clients[h] /\ evictions'[h] = evictions[h]
      /\ clients' \in [Gen -> [Digest -> ClientEntry \cup {None}]]
    BY <1>1 DEF LifecycleInv, LifecycleTypeOK, Resident
<1>3. /\ \A h \in Gen : Resident(h)' \subseteq Resident(h)
      /\ \A h \in Gen : \A d \in Resident(h)' : clients'[h][d] = clients[h][d]
    BY <1>2 DEF Resident
<1>4. LifecycleTypeOK'
    BY <1>2, <1>3 DEF LifecycleInv, LifecycleTypeOK
<1>5. Unregistered' /\ Kept'
    BY <1>3 DEF LifecycleInv, Unregistered, Kept, InUse
<1>6. AnnouncementsReachClones'
    BY <1>2, <1>3 DEF LifecycleInv, AnnouncementsReachClones, InUse
<1>7. OnSchedule'
    BY <1>3, Fewer DEF InUse
<1> QED BY <1>4, <1>5, <1>6, <1>7 DEF LifecycleInv

\* A step of one sweeper changes no other's state or date, and the part of
\* the invariant that is not about the sweepers' dates follows from the
\* clients that stay being as they were.
LEMMA SweeperShape ==
    ASSUME LifecycleInv, NEW g \in Gen, NEW from, NEW to, NEW next \in Nat,
           from # "none",
           to \in {"waiting", "sweeping", "ended"},
           to = "ended" => ~InUse(g),
           Sweeper(g, from, to, next),
           clients' \in [Gen -> [Digest -> ClientEntry \cup {None}]],
           \A h \in Gen : Resident(h)' \subseteq Resident(h),
           \A h \in Gen : \A d \in Resident(h)' : clients'[h][d] = clients[h][d]
    PROVE  /\ LifecycleTypeOK' /\ Unregistered' /\ Kept' /\ AnnouncementsReachClones'
           /\ (InUse(g)' => Schedule(g)' /\ \A d \in Resident(g)' : Fresh(g, d)')
              => OnSchedule'
<1> USE DEF Sweeper, host, runtimes, calls
<1>1. /\ sweeper' \in [Gen -> {"none", "spawned", "waiting", "sweeping", "ended"}]
      /\ due' \in [Gen -> Nat]
      /\ sweeper'[g] = to /\ due'[g] = next
      /\ \A h \in Gen : h # g => sweeper'[h] = sweeper[h] /\ due'[h] = due[h]
      /\ \A h \in Gen : InUse(h)' <=> InUse(h)
    BY DEF LifecycleInv, LifecycleTypeOK, InUse
<1>2. LifecycleTypeOK'
    BY <1>1 DEF LifecycleInv, LifecycleTypeOK
<1>3. Unregistered'
    BY <1>1 DEF LifecycleInv, Unregistered
<1>4. Kept'
    BY <1>1 DEF LifecycleInv, Kept
<1>5. AnnouncementsReachClones'
    BY <1>1 DEF LifecycleInv, AnnouncementsReachClones
<1>6. ASSUME InUse(g)' => Schedule(g)' /\ \A d \in Resident(g)' : Fresh(g, d)'
      PROVE  OnSchedule'
    <2>1. \A h \in Gen : h # g /\ InUse(h)' =>
             Schedule(h)' /\ \A d \in Resident(h)' : Fresh(h, d)'
        BY <1>1 DEF LifecycleInv, OnSchedule, Schedule, Fresh
    <2> QED BY <1>6, <2>1 DEF OnSchedule
<1> QED BY <1>2, <1>3, <1>4, <1>5, <1>6

\* The first tick is taken when the task starts, late or not: what was
\* inserted since the task was spawned is younger than the idle window.
LEMMA StartInv ==
    ASSUME LifecycleInv, NEW g \in Gen, Start(g)
    PROVE  LifecycleInv'
<1>1. now + Interval \in Nat
    BY LifecycleAssumption DEF LifecycleInv, LifecycleTypeOK
<1>2. /\ Sweeper(g, "spawned", "waiting", now + Interval) /\ clients' = clients
      /\ \A h \in Gen : Resident(h)' = Resident(h)
    BY DEF Start, Resident
<1>3. clients' \in [Gen -> [Digest -> ClientEntry \cup {None}]]
    BY <1>2 DEF LifecycleInv, LifecycleTypeOK
<1>4. InUse(g)' => Schedule(g)' /\ \A d \in Resident(g)' : Fresh(g, d)'
    <2>1. ASSUME InUse(g)' PROVE InUse(g) /\ Schedule(g) /\ \A d \in Resident(g) : Fresh(g, d)
        BY <1>2, <2>1 DEF Sweeper, runtimes, InUse, LifecycleInv, OnSchedule
    <2>2. /\ sweeper[g] = "spawned" /\ sweeper'[g] = "waiting"
          /\ due'[g] = now + Interval /\ now' = now
        BY <1>2 DEF Sweeper, LifecycleInv, LifecycleTypeOK
    <2>3. \A d \in Resident(g) : clients[g][d].lastUsed \in Nat
        BY DEF LifecycleInv, LifecycleTypeOK, Resident, ClientEntry
    <2>4. now \in Nat /\ due[g] \in Nat
        BY DEF LifecycleInv, LifecycleTypeOK
    <2> QED BY <1>2, <2>1, <2>2, <2>3, <2>4, LifecycleAssumption DEF Schedule, Fresh
<1> QED BY <1>1, <1>2, <1>3, <1>4, SweeperShape DEF LifecycleInv

\* Only a sweeper whose runtime nobody holds ends.
LEMMA CancelledInv ==
    ASSUME LifecycleInv, NEW g \in Gen, Cancelled(g)
    PROVE  LifecycleInv'
<1>1. /\ Sweeper(g, "waiting", "ended", 0) /\ clients' = clients
      /\ \A h \in Gen : Resident(h)' = Resident(h)
      /\ ~InUse(g) /\ ~InUse(g)'
    BY DEF Cancelled, Resident, LifecycleInv, Kept, Sweeper, runtimes, InUse
<1>2. clients' \in [Gen -> [Digest -> ClientEntry \cup {None}]]
    BY <1>1 DEF LifecycleInv, LifecycleTypeOK
<1> QED BY <1>1, <1>2, SweeperShape DEF LifecycleInv

\* A tick is taken at most Late after it was due.
LEMMA TickedInv ==
    ASSUME LifecycleInv, NEW g \in Gen, Ticked(g)
    PROVE  LifecycleInv'
<1>1. now \in Nat
    BY DEF LifecycleInv, LifecycleTypeOK
<1>2. /\ Sweeper(g, "waiting", "sweeping", now) /\ clients' = clients
      /\ \A h \in Gen : Resident(h)' = Resident(h)
    BY DEF Ticked, Resident
<1>3. clients' \in [Gen -> [Digest -> ClientEntry \cup {None}]]
    BY <1>2 DEF LifecycleInv, LifecycleTypeOK
<1>4. InUse(g)' => Schedule(g)' /\ \A d \in Resident(g)' : Fresh(g, d)'
    <2>1. ASSUME InUse(g)' PROVE InUse(g) /\ Schedule(g) /\ \A d \in Resident(g) : Fresh(g, d)
        BY <1>2, <2>1 DEF Sweeper, runtimes, InUse, LifecycleInv, OnSchedule
    <2>2. /\ sweeper[g] = "waiting" /\ sweeper'[g] = "sweeping"
          /\ due'[g] = now /\ now' = now
        BY <1>2 DEF Sweeper, LifecycleInv, LifecycleTypeOK
    <2>3. \A d \in Resident(g) : clients[g][d].lastUsed \in Nat
        BY DEF LifecycleInv, LifecycleTypeOK, Resident, ClientEntry
    <2>4. due[g] \in Nat
        BY DEF LifecycleInv, LifecycleTypeOK
    <2> QED BY <1>1, <1>2, <2>1, <2>2, <2>3, <2>4, LifecycleAssumption DEF Schedule, Fresh
<1> QED BY <1>1, <1>2, <1>3, <1>4, SweeperShape DEF LifecycleInv

\* What a sweep leaves was asked for within the idle window of the sweep,
\* hence of the tick it was taken for.
LEMMA SweptInv ==
    ASSUME LifecycleInv, NEW g \in Gen, Swept(g)
    PROVE  LifecycleInv'
<1>1. due[g] \in Nat /\ due[g] + Interval \in Nat /\ now \in Nat
    BY LifecycleAssumption DEF LifecycleInv, LifecycleTypeOK
<1>2. /\ Sweeper(g, "sweeping", "waiting", due[g] + Interval)
      /\ \A h \in Gen : h # g => clients'[h] = clients[h]
      /\ clients'[g] = [d \in Digest |-> IF d \in Idle(g) THEN None ELSE clients[g][d]]
      /\ clients' \in [Gen -> [Digest -> ClientEntry \cup {None}]]
    BY DEF Swept, LifecycleInv, LifecycleTypeOK
<1>3. /\ \A h \in Gen : Resident(h)' \subseteq Resident(h)
      /\ \A h \in Gen : \A d \in Resident(h)' : clients'[h][d] = clients[h][d]
      /\ \A d \in Resident(g)' : d \notin Idle(g)
    BY <1>2 DEF Resident
<1>4. InUse(g)' => Schedule(g)' /\ \A d \in Resident(g)' : Fresh(g, d)'
    <2>1. ASSUME InUse(g)' PROVE InUse(g) /\ Schedule(g)
        BY <1>2, <2>1 DEF Sweeper, runtimes, InUse, LifecycleInv, OnSchedule
    <2>2. /\ sweeper[g] = "sweeping" /\ sweeper'[g] = "waiting"
          /\ due'[g] = due[g] + Interval /\ now' = now
        BY <1>2 DEF Sweeper, LifecycleInv, LifecycleTypeOK
    <2>3. \A d \in Resident(g) : clients[g][d].lastUsed \in Nat
        BY DEF LifecycleInv, LifecycleTypeOK, Resident, ClientEntry
    <2>4. \A d \in Resident(g)' : now - clients[g][d].lastUsed <= IdleEviction
        BY <1>1, <1>3, <2>3, LifecycleAssumption DEF Idle
    <2> QED BY <1>1, <1>3, <2>1, <2>2, <2>3, <2>4, LifecycleAssumption DEF Schedule, Fresh
<1> QED BY <1>1, <1>2, <1>3, <1>4, SweeperShape DEF LifecycleInv

\* Time passes only while no sweeper is late.
LEMMA TickInv ==
    ASSUME LifecycleInv, Tick
    PROVE  LifecycleInv'
<1> USE DEF Tick, host, runtimes, task, calls
<1>1. \A g \in Gen : (InUse(g)' <=> InUse(g)) /\ Resident(g)' = Resident(g)
    BY DEF InUse, Resident
<1>2. LifecycleTypeOK'
    <2>1. \A g \in Gen : \A d \in Resident(g) : clients[g][d].lastUsed \in Nat
        BY DEF LifecycleInv, LifecycleTypeOK, Resident, ClientEntry
    <2> QED BY <1>1, <2>1 DEF LifecycleInv, LifecycleTypeOK
<1>3. Unregistered' /\ Kept' /\ AnnouncementsReachClones'
    BY <1>1 DEF LifecycleInv, Unregistered, Kept, AnnouncementsReachClones
<1>4. OnSchedule'
    <2>1. \A g \in Gen : InUse(g) => Schedule(g)'
        BY LifecycleAssumption
        DEF LifecycleInv, LifecycleTypeOK, Kept, OnTime, OnSchedule, Schedule
    <2> QED BY <1>1, <2>1 DEF LifecycleInv, OnSchedule, Fresh
<1> QED BY <1>2, <1>3, <1>4 DEF LifecycleInv

-----------------------------------------------------------------------------
\* The invariant holds in every reachable state.
THEOREM Invariance == LifecycleSpec => []LifecycleInv
<1>1. ASSUME LifecycleInv, LifecycleNext PROVE LifecycleInv'
    <2>1. ASSUME NEW g \in Gen, register(g) \/ Publish(g) \/ RunEviction(g) PROVE LifecycleInv'
        BY <1>1, <2>1, RegisterInv, PublishInv, RunEvictionInv
    <2>2. ASSUME NEW g \in Gen, SweeperStep(g) PROVE LifecycleInv'
        BY <1>1, <2>2, StartInv, CancelledInv, TickedInv, SweptInv DEF SweeperStep
    <2>3. ASSUME NEW c \in Call, Dispatch(c) \/ ClientResolved(c) \/ Finish(c)
          PROVE  LifecycleInv'
        BY <1>1, <2>3, DispatchInv, ResolvedInv, FinishInv
    <2>4. ASSUME NEW kind \in Kind, Announce(kind) PROVE LifecycleInv'
        BY <1>1, <2>4, AnnounceInv
    <2> QED BY <1>1, <2>1, <2>2, <2>3, <2>4, UnloadInv, TickInv DEF LifecycleNext
<1>2. ASSUME LifecycleInv, UNCHANGED lifecycleVars PROVE LifecycleInv'
    BY <1>2 DEF LifecycleInv, LifecycleTypeOK, Unregistered, Kept, AnnouncementsReachClones,
        OnSchedule, Schedule, Fresh, InUse, Resident, lifecycleVars, host, runtimes, task, calls
<1> QED BY InitInv, <1>1, <1>2, PTL DEF LifecycleSpec

\* Types; in particular a call holds a clone of the runtime it works with
\* for as long as it runs.
THEOREM LifecycleTypes == LifecycleSpec => []LifecycleTypeOK
<1>1. LifecycleInv => LifecycleTypeOK
    BY DEF LifecycleInv
<1> QED BY <1>1, Invariance, PTL

\* No revocation or rotation passes by a registry whose runtime somebody
\* holds, through any sequence of hot reloads and dropped calls: the
\* subscriptions of runtime.rs live as long as the last clone.
THEOREM Announced == LifecycleSpec => []AnnouncementsReachClones
<1>1. LifecycleInv => AnnouncementsReachClones
    BY DEF LifecycleInv
<1> QED BY <1>1, Invariance, PTL

\* A client nobody asks for stays at most the idle window, an interval and
\* twice the lateness of the scheduler, for every value of the three with
\* the lateness within the window.
THEOREM IdleBounded == LifecycleSpec => []IdleBound
<1>1. LifecycleInv => IdleBound
    <2> SUFFICES ASSUME LifecycleInv, NEW g \in Gen, InUse(g), NEW d \in Resident(g)
                 PROVE  now - clients[g][d].lastUsed <= IdleEviction + Interval + 2 * Late
        BY DEF IdleBound
    <2>1. now \in Nat /\ due[g] \in Nat /\ clients[g][d].lastUsed \in Nat
        BY DEF LifecycleInv, LifecycleTypeOK, Resident, ClientEntry
    <2>2. Schedule(g) /\ Fresh(g, d) /\ sweeper[g] \in {"spawned", "waiting", "sweeping"}
        BY DEF LifecycleInv, OnSchedule, Kept
    <2> QED BY <2>1, <2>2, LifecycleAssumption DEF Schedule, Fresh
<1> QED BY <1>1, Invariance, PTL
=============================================================================
