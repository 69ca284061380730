------------------------------ MODULE ClientCache ------------------------------
(***************************************************************************)
(* What ClientRegistry (src/src/client_registry.rs) promises the code that *)
(* calls get_or_build, with no lock, no clock, no credential keys and no   *)
(* build phase: a bounded cache with at most one resident client per       *)
(* digest.  A waiting call is answered with the resident client of its     *)
(* digest, or, if none is resident at that moment, with a client built for *)
(* it alone.  A resident client is never replaced in place: it only stays  *)
(* or goes.                                                                *)
(*                                                                         *)
(* A client is named after the call that built it.                         *)
(***************************************************************************)
EXTENDS Naturals, FiniteSets

CONSTANTS
    Call,        \* invocations of get_or_build
    Digest,      \* digests of resolved credential bundles
    MaxEntries,  \* ClientRegistryConfig::max_entries
    None         \* "no digest yet", "no client yet"

VARIABLES
    resident,    \* digest |-> the client resident for it
    asked,       \* the digest each call asked for
    status,      \* how far each call is
    answer       \* the client each call was given

cacheVars == <<resident, asked, status, answer>>

Status == {"idle", "waiting", "answered", "gone"}

Init ==
    /\ resident = [d \in {} |-> None]
    /\ asked = [c \in Call |-> None]
    /\ status = [c \in Call |-> "idle"]
    /\ answer = [c \in Call |-> None]

Ask(c, d) ==
    /\ status[c] = "idle"
    /\ status' = [status EXCEPT ![c] = "waiting"]
    /\ asked' = [asked EXCEPT ![c] = d]
    /\ UNCHANGED <<resident, answer>>

Give(c, client) ==
    /\ status[c] = "waiting"
    /\ status' = [status EXCEPT ![c] = "answered"]
    /\ answer' = [answer EXCEPT ![c] = client]
    /\ UNCHANGED asked

AnswerResident(c) ==
    /\ asked[c] \in DOMAIN resident
    /\ Give(c, resident[asked[c]])
    /\ UNCHANGED resident

(***************************************************************************)
(* The new client becomes resident.  Something is dropped only when there  *)
(* is no room for it, and then one entry is, possibly the new one.         *)
(***************************************************************************)
AnswerFresh(c) ==
    /\ asked[c] \notin DOMAIN resident
    /\ Give(c, c)
    /\ LET all == DOMAIN resident \cup {asked[c]}
           WithNew == [d \in all |-> IF d = asked[c] THEN c ELSE resident[d]]
       IN  \/ /\ Cardinality(all) <= MaxEntries
              /\ resident' = WithNew
           \/ /\ Cardinality(all) = MaxEntries + 1
              /\ \E gone \in all : resident' = [d \in all \ {gone} |-> WithNew[d]]

\* A build that fails, or a caller that goes away.
GiveUp(c) ==
    /\ status[c] = "waiting"
    /\ status' = [status EXCEPT ![c] = "gone"]
    /\ UNCHANGED <<resident, asked, answer>>

\* Revocation, rotation and idle eviction: any set of entries may go.
Forget ==
    /\ \E kept \in SUBSET DOMAIN resident : resident' = [d \in kept |-> resident[d]]
    /\ UNCHANGED <<asked, status, answer>>

Next ==
    \/ \E c \in Call :
          \/ \E d \in Digest : Ask(c, d)
          \/ AnswerResident(c)
          \/ AnswerFresh(c)
          \/ GiveUp(c)
    \/ Forget

Spec == Init /\ [][Next]_cacheVars
================================================================================
