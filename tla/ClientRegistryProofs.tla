-------------------------- MODULE ClientRegistryProofs --------------------------
(***************************************************************************)
(* Proofs about ClientRegistry, for any number of calls, digests and keys, *)
(* any capacity and any idle window.                                       *)
(*                                                                         *)
(* TypeOK and OwnDigest are not inductive by themselves: an insertion      *)
(* stores under digest[c], so a call past its start must have one; and a   *)
(* hit hands out the client of an entry, so the entry must name a call     *)
(* that has finished (its digest cannot change any more) and asked for     *)
(* this entry's digest.                                                    *)
(***************************************************************************)
EXTENDS ClientRegistry, FiniteSetTheorems, TLAPS

\* A call that has started carries a digest.
Asked == \A c \in Call : pc[c] # "idle" => digest[c] \in Digest

\* An entry holds a client that a finished call built for the entry's digest.
Built ==
    \A d \in DOMAIN clients :
        pc[clients[d].client] = "done" /\ digest[clients[d].client] = d

\* A finished call holds a client that a finished call built for its digest.
Served ==
    \A c \in Call : pc[c] = "done" =>
        /\ result[c] \in Call
        /\ pc[result[c]] = "done"
        /\ digest[result[c]] = digest[c]

RegistryInv == TypeOK /\ Asked /\ Built /\ Served

-----------------------------------------------------------------------------
(***************************************************************************)
(* Lemmas about the operators the actions are built from                   *)
(***************************************************************************)

\* Restricting a function to part of its domain (community module Functions).
LEMMA RestrictShape ==
    ASSUME NEW f, NEW S
    PROVE  /\ DOMAIN Restrict(f, S) = S
           /\ \A d \in S : Restrict(f, S)[d] = f[d]
BY DEF Restrict

\* LRU eviction (client_registry.rs:138-151) only removes entries.
LEMMA BoundedShape ==
    ASSUME NEW f, NEW g \in Bounded(f)
    PROVE  /\ DOMAIN g \subseteq DOMAIN f
           /\ \A d \in DOMAIN g : g[d] = f[d]
<1>1. CASE Cardinality(DOMAIN f) > MaxEntries
    <2>1. PICK o \in Oldest(f) : g = Restrict(f, DOMAIN f \ {o})
        BY <1>1 DEF Bounded
    <2> QED BY <2>1, RestrictShape
<1>2. CASE ~(Cardinality(DOMAIN f) > MaxEntries)
    BY <1>2 DEF Bounded
<1> QED BY <1>1, <1>2

\* The insertion itself (client_registry.rs:130-137): one more entry, the
\* others as they were.
LEMMA InsertedShape ==
    ASSUME NEW c
    PROVE  /\ DOMAIN Inserted(c) = DOMAIN clients \cup {digest[c]}
           /\ Inserted(c)[digest[c]] = NewEntry(c)
           /\ \A d \in DOMAIN clients : d # digest[c] => Inserted(c)[d] = clients[d]
BY DEF Inserted

\* The map after an insertion and the LRU eviction that follows it.
LEMMA InsertShape ==
    ASSUME NEW c, Insert(c)
    PROVE  /\ DOMAIN clients' \subseteq DOMAIN clients \cup {digest[c]}
           /\ \A d \in DOMAIN clients' :
                clients'[d] = IF d = digest[c] THEN NewEntry(c) ELSE clients[d]
<1>1. clients' \in Bounded(Inserted(c))
    BY DEF Insert
<1>2. /\ DOMAIN clients' \subseteq DOMAIN Inserted(c)
      /\ \A d \in DOMAIN clients' : clients'[d] = Inserted(c)[d]
    BY <1>1, BoundedShape
<1> QED BY <1>2 DEF Inserted

\* The map after an eviction: what is left is as it was.
LEMMA EvictShape ==
    ASSUME NEW gone, Evict(gone)
    PROVE  /\ DOMAIN clients' = DOMAIN clients \ gone
           /\ \A d \in DOMAIN clients' : clients'[d] = clients[d]
<1>1. clients' = Restrict(clients, DOMAIN clients \ gone)
    BY DEF Evict
<1> QED BY <1>1, RestrictShape

\* The map after a hit: same entries, same clients, one fresher stamp.
LEMMA TouchShape ==
    ASSUME NEW d \in DOMAIN clients, clients' = Touch(d), TypeOK
    PROVE  /\ DOMAIN clients' = DOMAIN clients
           /\ clients'[d] = [clients[d] EXCEPT !.lastUsed = now]
           /\ \A e \in DOMAIN clients : e # d => clients'[e] = clients[e]
           /\ \A e \in DOMAIN clients :
                /\ clients'[e].client = clients[e].client
                /\ clients'[e] \in ClientEntry
                /\ clients'[e].lastUsed = IF e = d THEN now ELSE clients[e].lastUsed
BY DEF Touch, TypeOK, ClientEntry

-----------------------------------------------------------------------------
(***************************************************************************)
(* Types, and every call gets a client of its own digest                   *)
(***************************************************************************)

\* RegistryInv holds initially.
LEMMA InitInv == RegistryInit => RegistryInv
BY RegistryAssumption
   DEF RegistryInit, RegistryInv, TypeOK, Asked, Built, Served, Pc

\* A call that only moves from one point to another, and leaves the map and
\* every answer alone, preserves RegistryInv.
LEMMA MoveInv ==
    ASSUME RegistryInv, NEW c \in Call, NEW to \in Pc \ {"idle", "done"},
           pc[c] \in {"lookup", "build", "insert"},
           pc' = [pc EXCEPT ![c] = to],
           UNCHANGED <<clients, now, digest, keys, result, doneAt>>
    PROVE  RegistryInv'
<1>1. TypeOK'
    BY DEF RegistryInv, TypeOK
<1>2. Asked'
    BY DEF RegistryInv, TypeOK, Asked
<1>3. Built'
    BY DEF RegistryInv, TypeOK, Built, ClientEntry
<1>4. Served'
    BY DEF RegistryInv, TypeOK, Served
<1> QED BY <1>1, <1>2, <1>3, <1>4 DEF RegistryInv

\* A call that is answered with the resident client preserves RegistryInv.
LEMMA HandOutInv ==
    ASSUME RegistryInv, NEW c \in Call, NEW from \in {"lookup", "insert"},
           digest[c] \in DOMAIN clients,
           clients' = Touch(digest[c]),
           Return(c, from, clients[digest[c]].client)
    PROVE  RegistryInv'
<1>1. TypeOK
    BY DEF RegistryInv
<1>2. /\ DOMAIN clients' = DOMAIN clients
      /\ \A e \in DOMAIN clients :
            /\ clients'[e].client = clients[e].client
            /\ clients'[e] \in ClientEntry
            /\ clients'[e].lastUsed = IF e = digest[c] THEN now ELSE clients[e].lastUsed
    BY <1>1, TouchShape
<1>3. clients[digest[c]].client \in Call
    BY <1>1 DEF TypeOK, ClientEntry
<1>4. TypeOK'
    BY <1>1, <1>2, <1>3 DEF TypeOK, Return, Goto, Pc
<1>5. Asked'
    BY <1>1 DEF RegistryInv, TypeOK, Asked, Return, Goto
<1>6. Built'
    BY <1>1, <1>2 DEF RegistryInv, TypeOK, Built, Return, Goto, ClientEntry
<1>7. Served'
    BY <1>1, <1>3 DEF RegistryInv, TypeOK, Built, Served, Return, Goto
<1> QED BY <1>4, <1>5, <1>6, <1>7 DEF RegistryInv

\* A call that inserts the client it built preserves RegistryInv.
LEMMA InsertInv ==
    ASSUME RegistryInv, NEW c \in Call, Insert(c)
    PROVE  RegistryInv'
<1>1. /\ TypeOK
      /\ pc[c] = "insert"
      /\ digest[c] \in Digest
    BY DEF RegistryInv, Asked, Insert, Return, Goto
<1>2. /\ DOMAIN clients' \subseteq DOMAIN clients \cup {digest[c]}
      /\ \A d \in DOMAIN clients' :
            clients'[d] = IF d = digest[c] THEN NewEntry(c) ELSE clients[d]
    BY InsertShape
<1>3. NewEntry(c) \in ClientEntry /\ NewEntry(c).lastUsed <= now /\ NewEntry(c).client = c
    BY <1>1 DEF NewEntry, ClientEntry, TypeOK
<1>4. TypeOK'
    <2>1. \A d \in DOMAIN clients' :
             clients'[d] \in ClientEntry /\ clients'[d].lastUsed <= now
        BY <1>1, <1>2, <1>3 DEF TypeOK
    <2> QED BY <1>1, <1>2, <2>1 DEF TypeOK, Insert, Return, Goto, Pc
<1>5. Asked'
    BY <1>1 DEF RegistryInv, TypeOK, Asked, Insert, Return, Goto
<1>6. Built'
    <2> SUFFICES ASSUME NEW d \in DOMAIN clients'
                 PROVE  /\ pc'[clients'[d].client] = "done"
                        /\ digest'[clients'[d].client] = d
        BY DEF Built
    <2>1. CASE d = digest[c]
        BY <1>1, <1>2, <1>3, <2>1 DEF TypeOK, Insert, Return, Goto
    <2>2. CASE d # digest[c]
        <3>1. d \in DOMAIN clients /\ clients'[d] = clients[d]
            BY <1>2, <2>2
        <3>2. /\ clients[d].client \in Call
              /\ pc[clients[d].client] = "done"
              /\ digest[clients[d].client] = d
            BY <3>1 DEF RegistryInv, TypeOK, Built, ClientEntry
        <3> QED BY <1>1, <3>1, <3>2 DEF TypeOK, Insert, Return, Goto
    <2> QED BY <2>1, <2>2
<1>7. Served'
    BY <1>1 DEF RegistryInv, TypeOK, Served, Insert, Return, Goto
<1> QED BY <1>4, <1>5, <1>6, <1>7 DEF RegistryInv

\* Evictions of any set of entries preserve RegistryInv.
LEMMA EvictInv ==
    ASSUME RegistryInv, NEW gone, Evict(gone)
    PROVE  RegistryInv'
<1>1. /\ DOMAIN clients' = DOMAIN clients \ gone
      /\ \A d \in DOMAIN clients' : clients'[d] = clients[d]
    BY EvictShape
<1>2. UNCHANGED <<now, pc, digest, keys, result, doneAt>>
    BY DEF Evict
<1>3. TypeOK'
    BY <1>1, <1>2 DEF RegistryInv, TypeOK
<1>4. Asked' /\ Served'
    BY <1>2 DEF RegistryInv, Asked, Served
<1>5. Built'
    BY <1>1, <1>2 DEF RegistryInv, Built
<1> QED BY <1>3, <1>4, <1>5 DEF RegistryInv

\* Every step of the registry preserves RegistryInv.
LEMMA StepInv == RegistryInv /\ [RegistryNext]_registryVars => RegistryInv'
<1> SUFFICES ASSUME RegistryInv, [RegistryNext]_registryVars
             PROVE  RegistryInv'
    OBVIOUS
<1>t. TypeOK
    BY DEF RegistryInv
<1>1. ASSUME NEW c \in Call, NEW d \in Digest, NEW ks \in SUBSET Key,
             Call_get_or_build(c, d, ks)
      PROVE  RegistryInv'
    <2>1. TypeOK'
        BY <1>t, <1>1 DEF TypeOK, Call_get_or_build, Goto, Pc
    <2>2. Asked'
        BY <1>t, <1>1 DEF RegistryInv, TypeOK, Asked, Call_get_or_build, Goto
    <2>3. Built'
        BY <1>t, <1>1 DEF RegistryInv, TypeOK, Built, ClientEntry, Call_get_or_build, Goto
    <2>4. Served'
        BY <1>t, <1>1 DEF RegistryInv, TypeOK, Served, Call_get_or_build, Goto
    <2> QED BY <2>1, <2>2, <2>3, <2>4 DEF RegistryInv
<1>2. ASSUME NEW c \in Call, Hit(c)
      PROVE  RegistryInv'
    BY <1>2, HandOutInv DEF Hit
<1>3. ASSUME NEW c \in Call, Miss(c)
      PROVE  RegistryInv'
    BY <1>3, MoveInv DEF Miss, Goto, Pc
<1>4. ASSUME NEW c \in Call, BuildOk(c)
      PROVE  RegistryInv'
    BY <1>4, MoveInv DEF BuildOk, Goto, Pc
<1>5. ASSUME NEW c \in Call, BuildErr(c)
      PROVE  RegistryInv'
    BY <1>5, MoveInv DEF BuildErr, Goto, Pc
<1>6. ASSUME NEW c \in Call, LateHit(c)
      PROVE  RegistryInv'
    BY <1>6, HandOutInv DEF LateHit
<1>7. ASSUME NEW c \in Call, Insert(c)
      PROVE  RegistryInv'
    BY <1>7, InsertInv
<1>8. ASSUME NEW c \in Call, Drop(c)
      PROVE  RegistryInv'
    BY <1>8, MoveInv DEF Drop, Pc
<1>9. ASSUME NEW k \in Key, evict_for(k)
      PROVE  RegistryInv'
    BY <1>9, EvictInv DEF evict_for
<1>10. CASE evict_for_secret
    BY <1>10, EvictInv DEF evict_for_secret
<1>11. CASE sweep_idle
    BY <1>11, EvictInv DEF sweep_idle
<1>12. CASE Tick
    <2>1. /\ now' = now + 1
          /\ UNCHANGED <<clients, pc, digest, keys, result, doneAt>>
        BY <1>12 DEF Tick
    <2>2. TypeOK'
        BY <1>t, <2>1 DEF TypeOK, ClientEntry
    <2>3. Asked' /\ Built' /\ Served'
        BY <2>1 DEF RegistryInv, Asked, Built, Served
    <2> QED BY <2>2, <2>3 DEF RegistryInv
<1>13. CASE UNCHANGED registryVars
    BY <1>13 DEF RegistryInv, TypeOK, Asked, Built, Served, registryVars
<1> QED
    BY <1>1, <1>2, <1>3, <1>4, <1>5, <1>6, <1>7, <1>8, <1>9, <1>10, <1>11, <1>12, <1>13
       DEF RegistryNext, Progress

\* The inductive invariant, for every behaviour of the registry.
THEOREM RegistryInvariant == RegistrySpec => []RegistryInv
BY InitInv, StepInv, PTL DEF RegistrySpec

\* Type correctness; in particular no entry is stamped in the future, so the
\* saturating subtraction of sweep_idle never saturates.
THEOREM TypeCorrect == RegistrySpec => []TypeOK
<1>1. RegistryInv => TypeOK
    BY DEF RegistryInv
<1> QED BY <1>1, RegistryInvariant, PTL

\* get_or_build never answers with a client built for another digest.
THEOREM OwnDigestHolds == RegistrySpec => []OwnDigest
<1>1. RegistryInv => OwnDigest
    BY DEF RegistryInv, Served, OwnDigest
<1> QED BY <1>1, RegistryInvariant, PTL

-----------------------------------------------------------------------------
(***************************************************************************)
(* The capacity bound                                                      *)
(***************************************************************************)

\* Cardinality only means something for a finite map.
CapacityInv == IsFiniteSet(DOMAIN clients) /\ CapacityBound

\* Every step of the registry preserves the capacity bound.  Only Insert adds
\* an entry, one, and LRU eviction then takes one: one removal is enough
\* because the bound held before the insertion.
LEMMA StepCapacity ==
    RegistryInv /\ CapacityInv /\ [RegistryNext]_registryVars => CapacityInv'
<1> SUFFICES ASSUME RegistryInv, CapacityInv, [RegistryNext]_registryVars
             PROVE  CapacityInv'
    OBVIOUS
<1> USE RegistryAssumption
<1>n. Cardinality(DOMAIN clients) \in Nat
    BY FS_CardinalityType DEF CapacityInv
<1>1. ASSUME NEW c \in Call, Insert(c)
      PROVE  CapacityInv'
    <2> DEFINE all == DOMAIN Inserted(c)
    <2>1. all = DOMAIN clients \cup {digest[c]}
        BY DEF Inserted
    <2>2. IsFiniteSet(all) /\ Cardinality(all) = Cardinality(DOMAIN clients) + 1
        BY <1>1, <2>1, FS_AddElement DEF CapacityInv, Insert
    <2>3. clients' \in Bounded(Inserted(c))
        BY <1>1 DEF Insert
    <2>4. CASE Cardinality(all) > MaxEntries
        <3>1. PICK o \in Oldest(Inserted(c)) : clients' = Restrict(Inserted(c), all \ {o})
            BY <2>3, <2>4 DEF Bounded
        <3>2. o \in all
            BY DEF Oldest
        <3>3. IsFiniteSet(all \ {o}) /\ Cardinality(all \ {o}) = Cardinality(all) - 1
            BY <2>2, <3>2, FS_RemoveElement
        <3>4. DOMAIN clients' = all \ {o}
            BY <3>1, RestrictShape
        <3> QED BY <1>n, <2>2, <3>3, <3>4 DEF CapacityInv, CapacityBound
    <2>5. CASE ~(Cardinality(all) > MaxEntries)
        <3>1. clients' = Inserted(c)
            BY <2>3, <2>5 DEF Bounded
        <3> HIDE DEF all
        <3>2. DOMAIN clients' = all
            BY <3>1 DEF all
        <3> QED BY <1>n, <2>2, <2>5, <3>2 DEF CapacityInv, CapacityBound
    <2> QED BY <2>4, <2>5
<1>2. ASSUME NEW gone, Evict(gone)
      PROVE  CapacityInv'
    <2>1. DOMAIN clients' = DOMAIN clients \ gone
        BY <1>2, EvictShape
    <2>2. /\ IsFiniteSet(DOMAIN clients')
          /\ Cardinality(DOMAIN clients') <= Cardinality(DOMAIN clients)
        BY <2>1, FS_Subset DEF CapacityInv
    <2>3. Cardinality(DOMAIN clients') \in Nat
        BY <2>2, FS_CardinalityType
    <2> QED BY <1>n, <2>2, <2>3 DEF CapacityInv, CapacityBound
<1>3. ASSUME NEW c \in Call, Hit(c) \/ LateHit(c)
      PROVE  CapacityInv'
    <2>1. DOMAIN clients' = DOMAIN clients
        BY <1>3, TouchShape DEF RegistryInv, Hit, LateHit
    <2> QED BY <2>1 DEF CapacityInv, CapacityBound
<1>4. CASE UNCHANGED clients
    BY <1>4 DEF CapacityInv, CapacityBound
<1> QED
    BY <1>1, <1>2, <1>3, <1>4
       DEF RegistryNext, Progress, registryVars, Call_get_or_build, Miss, BuildOk,
           BuildErr, Drop, evict_for, evict_for_secret, sweep_idle, Tick

\* The map stays finite and bounded in every behaviour.
LEMMA CapacityInvariant == RegistrySpec => []CapacityInv
<1>1. RegistryInit => CapacityInv
    <2> SUFFICES ASSUME RegistryInit
                 PROVE  CapacityInv
        OBVIOUS
    <2>1. DOMAIN clients = {}
        BY DEF RegistryInit
    <2> QED BY <2>1, FS_EmptySet, RegistryAssumption DEF CapacityInv, CapacityBound
<1> QED BY <1>1, RegistryInvariant, StepCapacity, PTL DEF RegistrySpec

\* Between two locked sections the map never holds more than max_entries
\* clients, however many calls build at the same time.
THEOREM CapacityHolds == RegistrySpec => []CapacityBound
<1>1. CapacityInv => CapacityBound
    BY DEF CapacityInv
<1> QED BY <1>1, CapacityInvariant, PTL

-----------------------------------------------------------------------------
(***************************************************************************)
(* last_used, and the two evictions that decide by it                      *)
(***************************************************************************)

\* No call was answered in the future.
AnsweredBefore == \A c \in Call : pc[c] = "done" => doneAt[c] <= now

StampInv == AnsweredBefore /\ StampIsLastUse

\* An answer, from an entry or with a new one, keeps the stamps exact.
LEMMA AnswerStamps ==
    ASSUME RegistryInv, StampInv, NEW c \in Call,
           NEW from \in Pc \ {"done"}, NEW client,
           Return(c, from, client),
           DOMAIN clients' \subseteq DOMAIN clients \cup {digest[c]},
           \A d \in DOMAIN clients' :
               clients'[d].lastUsed = IF d = digest[c] THEN now ELSE clients[d].lastUsed
    PROVE  StampInv'
<1>1. TypeOK
    BY DEF RegistryInv
<1>2. /\ pc[c] # "done"
      /\ pc' = [pc EXCEPT ![c] = "done"]
      /\ doneAt' = [doneAt EXCEPT ![c] = now]
      /\ now' = now
      /\ digest' = digest
    BY DEF Return, Goto
<1>3. AnsweredBefore'
    BY <1>1, <1>2 DEF StampInv, AnsweredBefore, TypeOK
<1>4. ASSUME NEW d \in DOMAIN clients'
      PROVE  /\ \A x \in HandedOut(d)' : doneAt'[x] <= clients'[d].lastUsed
             /\ \E x \in HandedOut(d)' : doneAt'[x] = clients'[d].lastUsed
    <2>1. CASE d = digest[c]
        <3>1. clients'[d].lastUsed = now
            BY <1>4, <2>1
        <3>2. c \in HandedOut(d)' /\ doneAt'[c] = now
            BY <1>1, <1>2, <2>1 DEF HandedOut, TypeOK
        <3>3. \A x \in HandedOut(d)' : doneAt'[x] <= now
            BY <1>2, <1>3 DEF HandedOut, AnsweredBefore
        <3> QED BY <3>1, <3>2, <3>3
    <2>2. CASE d # digest[c]
        <3>1. d \in DOMAIN clients /\ clients'[d].lastUsed = clients[d].lastUsed
            BY <1>4, <2>2
        <3>2. HandedOut(d)' = HandedOut(d)
            BY <1>1, <1>2, <2>2 DEF HandedOut, TypeOK
        <3>3. \A x \in HandedOut(d) : doneAt'[x] = doneAt[x]
            BY <1>1, <1>2 DEF HandedOut, TypeOK
        <3> QED BY <3>1, <3>2, <3>3 DEF StampInv, StampIsLastUse
    <2> QED BY <2>1, <2>2
<1> QED BY <1>3, <1>4 DEF StampInv, StampIsLastUse

\* Every step of the registry keeps the stamps exact.
LEMMA StepStamps ==
    RegistryInv /\ StampInv /\ [RegistryNext]_registryVars => StampInv'
<1> SUFFICES ASSUME RegistryInv, StampInv, [RegistryNext]_registryVars
             PROVE  StampInv'
    OBVIOUS
<1>t. TypeOK
    BY DEF RegistryInv
<1>1. ASSUME NEW c \in Call, Hit(c) \/ LateHit(c)
      PROVE  StampInv'
    <2>1. PICK from \in {"lookup", "insert"} :
             Return(c, from, clients[digest[c]].client)
        BY <1>1 DEF Hit, LateHit
    <2>2. digest[c] \in DOMAIN clients /\ clients' = Touch(digest[c])
        BY <1>1 DEF Hit, LateHit
    <2>3. /\ DOMAIN clients' = DOMAIN clients
          /\ \A d \in DOMAIN clients' : clients'[d].lastUsed =
                IF d = digest[c] THEN now ELSE clients[d].lastUsed
        BY <1>t, <2>2, TouchShape
    <2>4. from \in Pc \ {"done"}
        BY DEF Pc
    <2> QED BY <2>1, <2>3, <2>4, AnswerStamps
<1>2. ASSUME NEW c \in Call, Insert(c)
      PROVE  StampInv'
    <2>1. Return(c, "insert", c)
        BY <1>2 DEF Insert
    <2>2. /\ DOMAIN clients' \subseteq DOMAIN clients \cup {digest[c]}
          /\ \A d \in DOMAIN clients' :
                clients'[d] = IF d = digest[c] THEN NewEntry(c) ELSE clients[d]
        BY <1>2, InsertShape
    <2>3. \A d \in DOMAIN clients' : clients'[d].lastUsed =
                IF d = digest[c] THEN now ELSE clients[d].lastUsed
        BY <2>2 DEF NewEntry
    <2>4. "insert" \in Pc \ {"done"}
        BY DEF Pc
    <2> QED BY <2>1, <2>2, <2>3, <2>4, AnswerStamps
<1>3. ASSUME NEW gone, Evict(gone)
      PROVE  StampInv'
    <2>1. /\ DOMAIN clients' = DOMAIN clients \ gone
          /\ \A d \in DOMAIN clients' : clients'[d] = clients[d]
        BY <1>3, EvictShape
    <2>2. UNCHANGED <<now, pc, digest, keys, result, doneAt>>
        BY <1>3 DEF Evict
    <2> QED BY <2>1, <2>2 DEF StampInv, AnsweredBefore, StampIsLastUse, HandedOut
<1>4. ASSUME NEW c \in Call, NEW to \in Pc \ {"done"}, Goto(c, pc[c], to),
             pc[c] # "done",
             UNCHANGED <<clients, now, result, doneAt>>,
             \A x \in Call : x # c => digest'[x] = digest[x]
      PROVE  StampInv'
    <2>1. \A d : HandedOut(d)' = HandedOut(d)
        BY <1>t, <1>4 DEF HandedOut, TypeOK, Goto
    <2>2. AnsweredBefore'
        BY <1>t, <1>4 DEF StampInv, AnsweredBefore, TypeOK, Goto
    <2> QED BY <1>4, <2>1, <2>2 DEF StampInv, StampIsLastUse
<1>5. ASSUME NEW c \in Call, NEW d \in Digest, NEW ks \in SUBSET Key,
             Call_get_or_build(c, d, ks)
      PROVE  StampInv'
    BY <1>t, <1>4, <1>5 DEF Call_get_or_build, Goto, TypeOK, Pc
<1>6. ASSUME NEW c \in Call, Miss(c) \/ BuildOk(c) \/ BuildErr(c) \/ Drop(c)
      PROVE  StampInv'
    BY <1>4, <1>6 DEF Miss, BuildOk, BuildErr, Drop, Goto, Pc
<1>7. CASE Tick
    <2>1. now' = now + 1 /\ UNCHANGED <<clients, pc, digest, keys, result, doneAt>>
        BY <1>7 DEF Tick
    <2>2. AnsweredBefore'
        BY <1>t, <2>1 DEF StampInv, AnsweredBefore, TypeOK
    <2>3. StampIsLastUse'
        BY <2>1 DEF StampInv, StampIsLastUse, HandedOut
    <2> QED BY <2>2, <2>3 DEF StampInv
<1>8. CASE UNCHANGED registryVars
    BY <1>8 DEF StampInv, AnsweredBefore, StampIsLastUse, HandedOut, registryVars
<1> QED
    BY <1>1, <1>2, <1>3, <1>5, <1>6, <1>7, <1>8
       DEF RegistryNext, Progress, evict_for, evict_for_secret, sweep_idle

\* The stamps are exact in every behaviour, and no answer lies in the future.
LEMMA StampInvariant == RegistrySpec => []StampInv
<1>1. RegistryInit => StampInv
    BY DEF RegistryInit, StampInv, AnsweredBefore, StampIsLastUse
<1> QED BY <1>1, RegistryInvariant, StepStamps, PTL DEF RegistrySpec

\* last_used is exactly the last moment the client was handed out, whichever
\* of the three paths of get_or_build did it.
THEOREM StampHolds == RegistrySpec => []StampIsLastUse
<1>1. StampInv => StampIsLastUse
    BY DEF StampInv
<1> QED BY <1>1, StampInvariant, PTL

\* One sweep (client_registry.rs:212-237): an entry stays if and only if its
\* client was handed out within the idle window.
LEMMA SweepStep ==
    ASSUME RegistryInv, StampInv, sweep_idle, NEW d \in DOMAIN clients
    PROVE  d \in DOMAIN clients' <=>
             \E c \in HandedOut(d) : now - doneAt[c] <= IdleEviction
<1>1. DOMAIN clients' = DOMAIN clients \ Idle
    BY EvictShape DEF sweep_idle
<1>2. d \in DOMAIN clients' <=> now - clients[d].lastUsed <= IdleEviction
    BY <1>1, RegistryAssumption DEF Idle, RegistryInv, TypeOK, ClientEntry
<1>3. /\ \A c \in HandedOut(d) : doneAt[c] <= clients[d].lastUsed
      /\ \E c \in HandedOut(d) : doneAt[c] = clients[d].lastUsed
    BY DEF StampInv, StampIsLastUse
<1>4. /\ now \in Nat /\ clients[d].lastUsed \in Nat
      /\ \A c \in HandedOut(d) : doneAt[c] \in Nat
    BY DEF RegistryInv, TypeOK, ClientEntry, HandedOut
<1> QED BY <1>2, <1>3, <1>4, RegistryAssumption

\* The sweep takes exactly the clients not handed out within the window.
THEOREM SweepExact == RegistrySpec => SweepTakesExactlyIdle
<1> DEFINE Exact ==
        sweep_idle =>
            \A d \in DOMAIN clients :
                d \in DOMAIN clients' <=>
                    \E c \in HandedOut(d) : now - doneAt[c] <= IdleEviction
<1>1. RegistryInv /\ StampInv /\ [RegistryNext]_registryVars => [Exact]_registryVars
    BY SweepStep
<1> QED
    BY <1>1, RegistryInvariant, StampInvariant, PTL
       DEF RegistrySpec, SweepTakesExactlyIdle

\* One insertion: what LRU eviction takes was last handed out no later than
\* anything it leaves.
LEMMA LruStep ==
    ASSUME RegistryInv, StampInv, StampInv', NEW c \in Call, Insert(c),
           NEW gone \in (DOMAIN clients \cup {digest[c]}) \ DOMAIN clients',
           NEW kept \in DOMAIN clients', NEW x \in HandedOut(gone)
    PROVE  \E y \in HandedOut(kept)' : doneAt[x] <= doneAt'[y]
<1> DEFINE f == Inserted(c)
<1>e. NewEntry(c).lastUsed = now
    BY DEF NewEntry
<1>1. /\ DOMAIN f = DOMAIN clients \cup {digest[c]}
      /\ f[digest[c]].lastUsed = now
      /\ \A d \in DOMAIN clients : d # digest[c] => f[d] = clients[d]
    BY <1>e, InsertedShape
<1>2. clients' \in Bounded(f)
    BY DEF Insert
<1> HIDE DEF f
<1>3. Cardinality(DOMAIN f) > MaxEntries
    BY <1>1, <1>2 DEF Bounded
<1>4. PICK o \in Oldest(f) : clients' = Restrict(f, DOMAIN f \ {o})
    BY <1>2, <1>3 DEF Bounded
<1>5. /\ DOMAIN clients' = DOMAIN f \ {o}
      /\ \A d \in DOMAIN clients' : clients'[d] = f[d]
    BY <1>4, RestrictShape
<1>6. gone = o /\ kept \in DOMAIN f
    BY <1>1, <1>5
<1>7. f[gone].lastUsed <= f[kept].lastUsed
    BY <1>4, <1>6 DEF Oldest
<1>8. PICK y \in HandedOut(kept)' : doneAt'[y] = clients'[kept].lastUsed
    BY DEF StampInv, StampIsLastUse
<1>9. doneAt'[y] = f[kept].lastUsed
    BY <1>5, <1>8
<1>10. doneAt[x] <= f[gone].lastUsed
    <2>1. CASE gone = digest[c]
        BY <1>1, <2>1 DEF StampInv, AnsweredBefore, HandedOut
    <2>2. CASE gone # digest[c]
        <3>1. gone \in DOMAIN clients /\ f[gone] = clients[gone]
            BY <1>1, <2>2
        <3> QED BY <3>1 DEF StampInv, StampIsLastUse
    <2> QED BY <2>1, <2>2
<1>11. \A d \in DOMAIN f : f[d].lastUsed \in Nat
    <2> SUFFICES ASSUME NEW d \in DOMAIN f PROVE f[d].lastUsed \in Nat
        OBVIOUS
    <2>1. CASE d = digest[c]
        BY <1>1, <2>1 DEF RegistryInv, TypeOK
    <2>2. CASE d # digest[c]
        BY <1>1, <2>2 DEF RegistryInv, TypeOK, ClientEntry
    <2> QED BY <2>1, <2>2
<1>12. doneAt[x] \in Nat /\ f[gone].lastUsed \in Nat /\ f[kept].lastUsed \in Nat
    BY <1>1, <1>6, <1>11 DEF RegistryInv, TypeOK, HandedOut
<1>13. doneAt[x] <= doneAt'[y]
    BY <1>7, <1>9, <1>10, <1>12
<1> QED BY <1>8, <1>13

\* LRU eviction spares every client handed out later than the one it takes.
THEOREM LruExact == RegistrySpec => LruSparesRecent
<1> DEFINE Spares ==
        \A c \in Call : Insert(c) =>
            \A gone \in (DOMAIN clients \cup {digest[c]}) \ DOMAIN clients' :
            \A kept \in DOMAIN clients' :
            \A x \in HandedOut(gone) :
            \E y \in HandedOut(kept)' : doneAt[x] <= doneAt'[y]
<1>1. RegistryInv /\ StampInv /\ StampInv' /\ [RegistryNext]_registryVars
      => [Spares]_registryVars
    BY LruStep
<1> QED
    BY <1>1, RegistryInvariant, StampInvariant, PTL
       DEF RegistrySpec, LruSparesRecent

-----------------------------------------------------------------------------
(***************************************************************************)
(* ClientRegistry implements ClientCache: the two locked sections of       *)
(* get_or_build with an unlocked build between them look to the callers    *)
(* like one atomic answer.                                                 *)
(***************************************************************************)

\* Two functions with the same domain and the same values are equal.
LEMMA ResidentIs ==
    ASSUME NEW f, DOMAIN clients = DOMAIN f, f = [d \in DOMAIN f |-> f[d]],
           \A d \in DOMAIN f : clients[d].client = f[d]
    PROVE  Resident = f
BY DEF Resident

\* A step that leaves the map's clients alone leaves Resident alone.
LEMMA ResidentSame ==
    ASSUME DOMAIN clients' = DOMAIN clients,
           \A d \in DOMAIN clients : clients'[d].client = clients[d].client
    PROVE  Resident' = Resident
BY DEF Resident

\* How a move of one call shows in CacheStatus.
LEMMA StatusOfMove ==
    ASSUME TypeOK, NEW c \in Call, NEW to \in Pc, pc' = [pc EXCEPT ![c] = to]
    PROVE  CacheStatus' =
             [CacheStatus EXCEPT ![c] =
                CASE to = "idle" -> "idle"
                  [] to \in {"lookup", "build", "insert"} -> "waiting"
                  [] to = "done" -> "answered"
                  [] OTHER -> "gone"]
<1> DEFINE Shown(p) ==
        CASE p = "idle" -> "idle"
          [] p \in {"lookup", "build", "insert"} -> "waiting"
          [] p = "done" -> "answered"
          [] OTHER -> "gone"
<1>1. CacheStatus = [x \in Call |-> Shown(pc[x])]
    BY DEF CacheStatus
<1>2. CacheStatus' = [x \in Call |-> Shown(pc'[x])]
    BY DEF CacheStatus
<1> HIDE DEF Shown
<1>3. \A x \in Call : pc'[x] = IF x = c THEN to ELSE pc[x]
    BY DEF TypeOK
<1>4. CacheStatus' = [CacheStatus EXCEPT ![c] = Shown(to)]
    BY <1>1, <1>2, <1>3
<1> QED BY <1>4 DEF Shown

\* The empty registry is the empty cache.
LEMMA InitRefines == RegistryInit => Cache!Init
<1> SUFFICES ASSUME RegistryInit
             PROVE  Cache!Init
    OBVIOUS
<1>1. Resident = [d \in {} |-> None]
    BY DEF RegistryInit, Resident
<1>2. CacheStatus = [c \in Call |-> "idle"]
    BY DEF RegistryInit, CacheStatus
<1> QED BY <1>1, <1>2 DEF RegistryInit, Cache!Init

\* An answer with the resident client, on either lookup.
LEMMA HandOutRefines ==
    ASSUME RegistryInv, NEW c \in Call, NEW from \in {"lookup", "insert"},
           digest[c] \in DOMAIN clients,
           clients' = Touch(digest[c]),
           Return(c, from, clients[digest[c]].client)
    PROVE  Cache!AnswerResident(c)
<1>1. TypeOK
    BY DEF RegistryInv
<1>2. Resident' = Resident
    BY <1>1, TouchShape, ResidentSame
<1>3. CacheStatus[c] = "waiting"
    BY DEF CacheStatus, Return, Goto
<1>4. "done" \in Pc /\ pc' = [pc EXCEPT ![c] = "done"]
    BY DEF Pc, Return, Goto
<1>5. CacheStatus' = [CacheStatus EXCEPT ![c] = "answered"]
    BY <1>1, <1>4, StatusOfMove
<1>6. digest[c] \in DOMAIN Resident /\ Resident[digest[c]] = clients[digest[c]].client
    BY DEF Resident
<1> QED
    BY <1>2, <1>3, <1>5, <1>6 DEF Cache!AnswerResident, Cache!Give, Return

\* An answer with the client just built.
LEMMA InsertRefines ==
    ASSUME RegistryInv, CapacityInv, NEW c \in Call, Insert(c)
    PROVE  Cache!AnswerFresh(c)
<1> DEFINE all == DOMAIN Resident \cup {digest[c]}
           WithNew == [d \in all |-> IF d = digest[c] THEN c ELSE Resident[d]]
           f == Inserted(c)
<1>1. TypeOK
    BY DEF RegistryInv
<1>2. CacheStatus[c] = "waiting"
    BY DEF CacheStatus, Insert, Return, Goto
<1>3. "done" \in Pc /\ pc' = [pc EXCEPT ![c] = "done"]
    BY DEF Pc, Insert, Return, Goto
<1>4. CacheStatus' = [CacheStatus EXCEPT ![c] = "answered"]
    BY <1>1, <1>3, StatusOfMove
<1>5. Cache!Give(c, c)
    BY <1>2, <1>4 DEF Cache!Give, Insert, Return
<1>6. DOMAIN Resident = DOMAIN clients
    BY DEF Resident
<1>7. digest[c] \notin DOMAIN Resident
    BY <1>6 DEF Insert
<1>8. DOMAIN f = all /\ \A d \in all : f[d].client = WithNew[d]
    <2>1. NewEntry(c).client = c
        BY DEF NewEntry
    <2> QED BY <2>1, <1>6, InsertedShape DEF Resident
<1>9. clients' \in Bounded(f)
    BY DEF Insert
<1>10. IsFiniteSet(all) /\ Cardinality(all) = Cardinality(DOMAIN clients) + 1
    BY <1>6, <1>7, FS_AddElement DEF CapacityInv
<1>11. Cardinality(DOMAIN clients) \in Nat /\ Cardinality(DOMAIN clients) <= MaxEntries
    BY FS_CardinalityType DEF CapacityInv, CapacityBound
<1>12. WithNew = [d \in all |-> WithNew[d]] /\ DOMAIN WithNew = all
    OBVIOUS
<1> HIDE DEF f, WithNew, all
<1>13. \/ /\ Cardinality(all) <= MaxEntries
          /\ Resident' = WithNew
       \/ /\ Cardinality(all) = MaxEntries + 1
          /\ \E gone \in all : Resident' = [d \in all \ {gone} |-> WithNew[d]]
    <2>1. CASE Cardinality(all) > MaxEntries
        <3>1. PICK o \in Oldest(f) : clients' = Restrict(f, DOMAIN f \ {o})
            BY <1>8, <1>9, <2>1 DEF Bounded
        <3>2. /\ DOMAIN clients' = all \ {o}
              /\ \A d \in all \ {o} : clients'[d] = f[d]
            BY <1>8, <3>1, RestrictShape
        <3>3. o \in all
            BY <1>8 DEF Oldest
        <3>4. Resident' = [d \in all \ {o} |-> WithNew[d]]
            BY <1>8, <3>2 DEF Resident
        <3>5. Cardinality(all) = MaxEntries + 1
            BY <1>10, <1>11, <2>1, RegistryAssumption
        <3> QED BY <3>3, <3>4, <3>5
    <2>2. CASE ~(Cardinality(all) > MaxEntries)
        <3>1. clients' = f
            BY <1>8, <1>9, <2>2 DEF Bounded
        <3>2. Resident' = [d \in all |-> WithNew[d]]
            BY <1>8, <3>1 DEF Resident
        <3>3. Cardinality(all) <= MaxEntries
            BY <1>10, <1>11, <2>2, RegistryAssumption
        <3> QED BY <1>12, <3>2, <3>3
    <2> QED BY <2>1, <2>2
<1>14. Cache!Cardinality(all) = Cardinality(all)
    BY DEF Cache!Cardinality, Cardinality
<1> QED BY <1>5, <1>7, <1>13, <1>14 DEF Cache!AnswerFresh, all, WithNew

\* Whatever an eviction takes, the cache forgot.
LEMMA EvictRefines ==
    ASSUME NEW gone, Evict(gone)
    PROVE  Cache!Forget
<1> DEFINE kept == DOMAIN clients \ gone
<1>1. /\ DOMAIN clients' = kept
      /\ \A d \in kept : clients'[d] = clients[d]
    BY EvictShape
<1>2. CacheStatus' = CacheStatus
    BY DEF Evict, CacheStatus
<1>3. UNCHANGED <<digest, result>>
    BY DEF Evict
<1>4. DOMAIN Resident = DOMAIN clients
    BY DEF Resident
<1>5. Resident' = [d \in kept |-> Resident[d]]
    BY <1>1 DEF Resident
<1>6. kept \in SUBSET DOMAIN Resident
    BY <1>4
<1> HIDE DEF kept
<1> QED BY <1>2, <1>3, <1>5, <1>6 DEF Cache!Forget

\* A call that gives up: the build failed, or the caller dropped the future.
LEMMA GiveUpRefines ==
    ASSUME TypeOK, NEW c \in Call, NEW to \in {"failed", "dropped"},
           pc[c] \in {"lookup", "build", "insert"},
           pc' = [pc EXCEPT ![c] = to],
           UNCHANGED <<clients, digest, result>>
    PROVE  Cache!GiveUp(c)
<1>1. CacheStatus[c] = "waiting"
    BY DEF CacheStatus
<1>2. to \in Pc
    BY DEF Pc
<1>3. CacheStatus' = [CacheStatus EXCEPT ![c] = "gone"]
    BY <1>2, StatusOfMove
<1>4. Resident' = Resident
    BY DEF Resident
<1> QED BY <1>1, <1>3, <1>4 DEF Cache!GiveUp

\* The steps of a build are invisible to the callers.
LEMMA BuildingStutters ==
    ASSUME TypeOK, NEW c \in Call, NEW to \in {"build", "insert"},
           pc[c] \in {"lookup", "build"},
           pc' = [pc EXCEPT ![c] = to],
           UNCHANGED <<clients, digest, result>>
    PROVE  UNCHANGED Cache!cacheVars
<1>1. CacheStatus[c] = "waiting" /\ CacheStatus = [x \in Call |-> CacheStatus[x]]
    BY DEF CacheStatus
<1>2. to \in Pc
    BY DEF Pc
<1>3. CacheStatus' = [CacheStatus EXCEPT ![c] = "waiting"]
    BY <1>2, StatusOfMove
<1>4. CacheStatus' = CacheStatus
    BY <1>1, <1>3
<1>5. Resident' = Resident
    BY DEF Resident
<1> QED BY <1>4, <1>5 DEF Cache!cacheVars

\* Every step of the registry is a step of the cache or invisible to it.
LEMMA StepRefines ==
    RegistryInv /\ CapacityInv /\ [RegistryNext]_registryVars
    => [Cache!Next]_(Cache!cacheVars)
<1> SUFFICES ASSUME RegistryInv, CapacityInv, [RegistryNext]_registryVars
             PROVE  Cache!Next \/ UNCHANGED Cache!cacheVars
    OBVIOUS
<1>t. TypeOK
    BY DEF RegistryInv
<1>1. ASSUME NEW c \in Call, NEW d \in Digest, NEW ks \in SUBSET Key,
             Call_get_or_build(c, d, ks)
      PROVE  Cache!Ask(c, d)
    <2>1. CacheStatus[c] = "idle"
        BY <1>1 DEF CacheStatus, Call_get_or_build, Goto
    <2>2. "lookup" \in Pc /\ pc' = [pc EXCEPT ![c] = "lookup"]
        BY <1>1 DEF Pc, Call_get_or_build, Goto
    <2>3. CacheStatus' = [CacheStatus EXCEPT ![c] = "waiting"]
        BY <1>t, <2>2, StatusOfMove
    <2>4. Resident' = Resident
        BY <1>1 DEF Resident, Call_get_or_build
    <2> QED BY <1>1, <2>1, <2>3, <2>4 DEF Cache!Ask, Call_get_or_build
<1>2. ASSUME NEW c \in Call, Hit(c) \/ LateHit(c)
      PROVE  Cache!AnswerResident(c)
    BY <1>2, HandOutRefines DEF Hit, LateHit
<1>3. ASSUME NEW c \in Call, Miss(c) \/ BuildOk(c)
      PROVE  UNCHANGED Cache!cacheVars
    BY <1>t, <1>3, BuildingStutters DEF Miss, BuildOk, Goto
<1>4. ASSUME NEW c \in Call, BuildErr(c) \/ Drop(c)
      PROVE  Cache!GiveUp(c)
    BY <1>t, <1>4, GiveUpRefines DEF BuildErr, Drop, Goto
<1>5. ASSUME NEW c \in Call, Insert(c)
      PROVE  Cache!AnswerFresh(c)
    BY <1>5, InsertRefines
<1>6. ASSUME NEW gone, Evict(gone)
      PROVE  Cache!Forget
    BY <1>6, EvictRefines
<1>7. CASE Tick \/ UNCHANGED registryVars
    BY <1>7 DEF Tick, registryVars, Cache!cacheVars, Resident, CacheStatus
<1> QED
    BY <1>1, <1>2, <1>3, <1>4, <1>5, <1>6, <1>7
       DEF RegistryNext, Progress, Cache!Next, evict_for, evict_for_secret, sweep_idle

\* The registry, with its lock released around every build, implements the
\* atomic cache its callers reason with.
THEOREM RegistryImplementsCache == RegistrySpec => CacheSpec
BY InitRefines, StepRefines, RegistryInvariant, CapacityInvariant, PTL
   DEF RegistrySpec, CacheSpec, Cache!Spec
================================================================================
