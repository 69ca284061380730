------------------------------ MODULE CredRefScanner ------------------------------
(***************************************************************************)
(* collect_cred_refs of src/src/client_registry.rs: the scan of a raw URL  *)
(* or header for the (plugin_id, target) pairs that route revocations.     *)
(* Each turn of its loop is a step.                                        *)
(*                                                                         *)
(* Text is a sequence of tokens: "cred", the punctuation the scan looks at *)
(* and "space" are tokens of their own, "open" and "close" stand for `${`  *)
(* and `}`, and any other token is a run of characters the scan has no     *)
(* rule for.  A text is a sequence of segments an operator can write: a    *)
(* literal, or a reference in one of the forms that occur in the code, its *)
(* tests and its comments.                                                 *)
(***************************************************************************)
EXTENDS Naturals, Sequences, FiniteSets, FiniteSetsExt, SequencesExt

CONSTANTS
    Plugin,      \* plugin ids
    Target,      \* targets
    Form,        \* the forms of references that are written, out of Forms
    MaxSegments  \* bound: segments of a text

Forms == {"bare", "bare_query", "bare_fragment", "braced", "braced_query"}

ASSUME ScannerAssumption == Form \subseteq Forms /\ MaxSegments \in Nat

VARIABLES
    segments,  \* what the operator wrote
    text,      \* the argument `s`
    rest,      \* position the scan goes on from
    out,       \* `out`, the pairs found so far
    scanning

scannerVars == <<segments, text, rest, out, scanning>>

Scheme == <<"cred", ":", "/", "/">>

\* The terminators of the match: white space and ? & @ : " ' > , ; of which
\* these occur in the texts here.  Neither `}` nor `#` nor `/` is among them.
Terminators == {"space", "?", ":"}

\* Plugin ids and targets are tokens the scan has no rule for.
ASSUME TokenAssumption ==
    (Plugin \cup Target) \cap (Terminators \cup {"cred", "/", "#"}) = {}

Reference == [plugin : Plugin, target : Target, form : Form]

Literal == [form |-> "literal"]

Text(s) ==
    LET uri == Scheme \o <<s.plugin, "/", s.target>>
    IN  CASE s.form = "literal" -> <<"text", "space">>
          [] s.form = "bare" -> uri \o <<"space">>
          [] s.form = "bare_query" -> uri \o <<"?", "kind", "space">>
          [] s.form = "bare_fragment" -> uri \o <<"#", "field", "space">>
          [] s.form = "braced" -> <<"open">> \o uri \o <<"close">>
          [] s.form = "braced_query" -> <<"open">> \o uri \o <<"?", "kind", "close">>

ScannerInit ==
    /\ segments \in BoundedSeq(Reference \cup {Literal}, MaxSegments)
    /\ text = FlattenSeq([i \in DOMAIN segments |-> Text(segments[i])])
    /\ rest = 1
    /\ out = <<>>
    /\ scanning = TRUE

-----------------------------------------------------------------------------
\* Where each search of the loop finds something, as positions in the text.
SchemeAt(i) == {p \in i .. Len(text) - 3 : SubSeq(text, p, p + 3) = Scheme}
At(i, tokens) == {p \in i .. Len(text) : text[p] \in tokens}

\* The slashes behind the next scheme; the first of them ends the plugin id.
Slashes ==
    IF SchemeAt(rest) = {} THEN {}
    ELSE At(Min(SchemeAt(rest)) + Len(Scheme), {"/"})

First(S, otherwise) == IF S = {} THEN otherwise ELSE Min(S)

\* Mutant: the scan goes on where it started.
NoAdvance(end) == rest

\* rest = &rest[advance..]
Advance(end) == end

\* Mutant: the fragment is kept.
WithFragment(target) == target

\* target.split_once('#')
WithoutFragment(target) ==
    SubSeq(target, 1, First({p \in DOMAIN target : target[p] = "#"}, Len(target) + 1) - 1)

Scan ==
    /\ scanning
    /\ Slashes # {}
    /\ LET after == Min(SchemeAt(rest)) + Len(Scheme)
           slash == Min(Slashes)
           end == First(At(slash + 1, Terminators), Len(text) + 1)
           plugin == SubSeq(text, after, slash - 1)
           target == WithoutFragment(SubSeq(text, slash + 1, end - 1))
       IN  /\ out' = IF plugin # <<>> /\ target # <<>>
                     THEN Append(out, <<plugin, target>>)
                     ELSE out
           /\ rest' = Advance(end)
           /\ scanning' = (Advance(end) <= Len(text))
    /\ UNCHANGED <<segments, text>>

\* No scheme is left, or none with a slash behind it.
Stop ==
    /\ scanning
    /\ Slashes = {}
    /\ scanning' = FALSE
    /\ UNCHANGED <<segments, text, rest, out>>

ScannerNext == Scan \/ Stop

ScannerSpec == ScannerInit /\ [][ScannerNext]_scannerVars

-----------------------------------------------------------------------------
(***************************************************************************)
(* Properties                                                              *)
(***************************************************************************)

\* The pairs the operator wrote, in order.
WrittenIn(s) ==
    IF s.form = "literal" THEN <<>> ELSE <<<<<<s.plugin>>, <<s.target>>>>>>

Written == FlattenSeq([i \in DOMAIN segments |-> WrittenIn(segments[i])])

\* Every reference is found as it was written, none is invented, and none is
\* swallowed by the one before it.
FindsWhatIsWritten == ~scanning => out = Written

\* Every turn of the loop that is followed by another one leaves less text to
\* scan, so the loop ends on any text.
TurnsAdvance == [][scanning' => rest' > rest]_scannerVars

\* client_registry.rs: the pairs of every cred:// URI; runtime.rs: the
\* references it resolves are the `${cred://issuer/target}` ones.
BracedReferencesRoute ==
    ~scanning =>
        \A i \in DOMAIN segments : segments[i].form = "braced" =>
            <<<<segments[i].plugin>>, <<segments[i].target>>>> \in ToSet(out)
================================================================================
