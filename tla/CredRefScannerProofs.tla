-------------------------- MODULE CredRefScannerProofs --------------------------
(***************************************************************************)
(* Proofs about CredRefScanner, for texts of any number of segments, any   *)
(* plugin ids and any targets.                                             *)
(*                                                                         *)
(* The text is laid out segment behind segment (Laid), a scheme stands in  *)
(* it only where a reference begins (SchemesOnly), and a turn ends where   *)
(* the match of its reference ends.  So the scan has always found what the *)
(* first k segments hold and nothing else, for some k (Upto), and the next *)
(* scheme it finds is that of the next reference (NextReference).          *)
(*                                                                         *)
(* A reference in braces is excluded: `}` ends no match, and what follows  *)
(* is taken for the rest of its target.                                    *)
(***************************************************************************)
EXTENDS CredRefScanner, SequenceLemmas

Token ==
    Plugin \cup Target \cup
        {"cred", ":", "/", "text", "space", "?", "kind", "#", "field", "open", "close"}

\* Where a reference's scheme begins, before the first token.
Lead(s) == IF s.form = "braced_query" THEN 1 ELSE 0

\* Where its match ends.
Ending(s) == Lead(s) + IF s.form = "bare_fragment" THEN 10 ELSE 8

\* The scheme, token by token.
LEMMA SchemeText ==
    /\ Scheme \in Seq(Token) /\ Len(Scheme) = 4
    /\ Scheme[1] = "cred" /\ Scheme[2] = ":" /\ Scheme[3] = "/" /\ Scheme[4] = "/"
<1>1. "cred" \in Token /\ ":" \in Token /\ "/" \in Token
    BY Zenon DEF Token
<1> QED BY <1>1 DEF Scheme

\* cred://plugin/target.
LEMMA UriText ==
    ASSUME NEW a \in Token, NEW b \in Token
    PROVE  LET u == Scheme \o <<a, "/", b>>
           IN  /\ u \in Seq(Token) /\ Len(u) = 7
               /\ u[1] = "cred" /\ u[2] = ":" /\ u[3] = "/" /\ u[4] = "/"
               /\ u[5] = a /\ u[6] = "/" /\ u[7] = b
<1> DEFINE v == <<a, "/", b>>
<1>0. "cred" \in Token /\ ":" \in Token /\ "/" \in Token
    BY Zenon DEF Token
<1>1. /\ Scheme \in Seq(Token) /\ Len(Scheme) = 4
      /\ Scheme[1] = "cred" /\ Scheme[2] = ":" /\ Scheme[3] = "/" /\ Scheme[4] = "/"
    BY SchemeText
<1>2. /\ v \in Seq(Token) /\ Len(v) = 3
      /\ v[1] = a /\ v[2] = "/" /\ v[3] = b
    BY <1>0
<1> HIDE DEF v
<1>3. /\ Scheme \o v \in Seq(Token)
      /\ Len(Scheme \o v) = Len(Scheme) + Len(v)
      /\ \A k \in 1 .. Len(Scheme) : (Scheme \o v)[k] = Scheme[k]
      /\ \A k \in 1 .. Len(v) : (Scheme \o v)[Len(Scheme) + k] = v[k]
    <2>1. Scheme \in Seq(Token) /\ v \in Seq(Token)
        BY <1>1, <1>2
    <2> QED BY <2>1, ConcatTells
<1> DEFINE u == Scheme \o v
<1> HIDE DEF u
<1>4. /\ u \in Seq(Token) /\ Len(u) = 7
      /\ \A k \in 1 .. 4 : u[k] = Scheme[k]
      /\ \A k \in 1 .. 3 : u[4 + k] = v[k]
    BY <1>1, <1>2, <1>3 DEF u
<1>5. /\ u[1] = "cred" /\ u[2] = ":" /\ u[3] = "/" /\ u[4] = "/"
      /\ u[5] = a /\ u[6] = "/" /\ u[7] = b
    BY <1>1, <1>2, <1>4
<1> QED BY <1>4, <1>5 DEF u, v

\* What follows the target.
Behind(s) ==
    CASE s.form = "bare" -> <<"space">>
      [] s.form = "bare_query" -> <<"?", "kind", "space">>
      [] s.form = "bare_fragment" -> <<"#", "field", "space">>
      [] s.form = "braced_query" -> <<"?", "kind", "close">>

\* A reference, token by token: what leads, the URI, what is behind.
LEMMA PlacedText ==
    ASSUME "braced" \notin Form, NEW s \in Reference
    PROVE  LET t == Text(s)
               o == Lead(s)
           IN  /\ t \in Seq(Token)
               /\ Len(t) = o + 7 + Len(Behind(s))
               /\ o = 1 => t[1] = "open"
               /\ t[o + 1] = "cred" /\ t[o + 2] = ":" /\ t[o + 3] = "/" /\ t[o + 4] = "/"
               /\ t[o + 5] = s.plugin /\ t[o + 6] = "/" /\ t[o + 7] = s.target
               /\ \A k \in 1 .. Len(Behind(s)) : t[o + 7 + k] = Behind(s)[k]
<1> DEFINE u == Scheme \o <<s.plugin, "/", s.target>>
           q == Behind(s)
<1>1. s.plugin \in Token /\ s.target \in Token
    BY DEF Reference, Token
<1>2. /\ u \in Seq(Token) /\ Len(u) = 7
      /\ u[1] = "cred" /\ u[2] = ":" /\ u[3] = "/" /\ u[4] = "/"
      /\ u[5] = s.plugin /\ u[6] = "/" /\ u[7] = s.target
    BY <1>1, UriText
<1>3. s.form \in {"bare", "bare_query", "bare_fragment", "braced_query"}
    BY ScannerAssumption DEF Reference, Forms
<1>4. q \in Seq(Token) /\ Len(q) \in Nat
    <2>1. /\ "space" \in Token /\ "?" \in Token /\ "kind" \in Token /\ "#" \in Token
          /\ "field" \in Token /\ "close" \in Token
        BY Zenon DEF Token
    <2>2. CASE s.form = "bare"
        <3>1. q = <<"space">>
            BY <2>2, Zenon DEF Behind
        <3> QED BY <2>1, <3>1
    <2>3. CASE s.form = "bare_query"
        <3>1. q = <<"?", "kind", "space">>
            BY <2>3, Zenon DEF Behind
        <3> QED BY <2>1, <3>1
    <2>4. CASE s.form = "bare_fragment"
        <3>1. q = <<"#", "field", "space">>
            BY <2>4, Zenon DEF Behind
        <3> QED BY <2>1, <3>1
    <2>5. CASE s.form = "braced_query"
        <3>1. q = <<"?", "kind", "close">>
            BY <2>5, Zenon DEF Behind
        <3> QED BY <2>1, <3>1
    <2> QED BY <1>3, <2>2, <2>3, <2>4, <2>5
<1>5. Text(s) = IF s.form = "braced_query" THEN (<<"open">> \o u) \o q ELSE u \o q
    BY <1>3 DEF Text, Behind
<1> HIDE DEF u, q
<1>6. CASE s.form = "braced_query"
    <2> DEFINE d == <<"open">>
               v == d \o u
    <2>1. d \in Seq(Token) /\ Len(d) = 1 /\ d[1] = "open"
        <3>1. "open" \in Token
            BY Zenon DEF Token
        <3> QED BY <3>1
    <2> HIDE DEF d
    <2>2. /\ v \in Seq(Token) /\ Len(v) = Len(d) + Len(u)
          /\ \A k \in 1 .. Len(d) : v[k] = d[k]
          /\ \A k \in 1 .. Len(u) : v[Len(d) + k] = u[k]
        <3>1. d \in Seq(Token) /\ u \in Seq(Token)
            BY <1>2, <2>1
        <3> QED BY <3>1, ConcatTells
    <2> HIDE DEF v
    <2>3. /\ v \in Seq(Token) /\ Len(v) = 8 /\ v[1] = "open"
          /\ v[2] = "cred" /\ v[3] = ":" /\ v[4] = "/" /\ v[5] = "/"
          /\ v[6] = s.plugin /\ v[7] = "/" /\ v[8] = s.target
        BY <1>2, <2>1, <2>2
    <2>4. /\ v \o q \in Seq(Token) /\ Len(v \o q) = Len(v) + Len(q)
          /\ \A k \in 1 .. Len(v) : (v \o q)[k] = v[k]
          /\ \A k \in 1 .. Len(q) : (v \o q)[Len(v) + k] = q[k]
        <3>1. v \in Seq(Token) /\ q \in Seq(Token)
            BY <1>4, <2>3
        <3> QED BY <3>1, ConcatTells
    <2>5. Text(s) = v \o q /\ Lead(s) = 1
        BY <1>5, <1>6 DEF Lead, v, d
    <2> QED BY <1>4, <2>3, <2>4, <2>5 DEF q
<1>7. CASE s.form # "braced_query"
    <2>1. /\ u \o q \in Seq(Token) /\ Len(u \o q) = Len(u) + Len(q)
          /\ \A k \in 1 .. Len(u) : (u \o q)[k] = u[k]
          /\ \A k \in 1 .. Len(q) : (u \o q)[Len(u) + k] = q[k]
        <3>1. u \in Seq(Token) /\ q \in Seq(Token)
            BY <1>2, <1>4
        <3> QED BY <3>1, ConcatTells
    <2>2. Text(s) = u \o q /\ Lead(s) = 0
        BY <1>5, <1>7 DEF Lead
    <2> QED BY <1>2, <1>4, <2>1, <2>2 DEF q
<1> QED BY <1>6, <1>7

\* The tokens of a reference (client_registry.rs:317-348).
LEMMA ReferenceText ==
    ASSUME "braced" \notin Form, NEW s \in Reference
    PROVE  LET t == Text(s)
               o == Lead(s)
               e == Ending(s)
           IN  /\ t \in Seq(Token)
               /\ e \in 1 .. Len(t)
               /\ t[o + 1] = "cred" /\ t[o + 2] = ":" /\ t[o + 3] = "/" /\ t[o + 4] = "/"
               /\ t[o + 5] = s.plugin /\ t[o + 6] = "/" /\ t[o + 7] = s.target
               /\ \A j \in 1 .. Len(t) : t[j] = "cred" => j = o + 1
               /\ t[e] \in Terminators
               /\ \A j \in o + 7 .. e - 1 : t[j] \notin Terminators
               /\ s.form = "bare_fragment" => t[o + 8] = "#"
<1> DEFINE t == Text(s)
           o == Lead(s)
           e == Ending(s)
           q == Behind(s)
<1>1. /\ s.plugin \notin Terminators \cup {"cred", "/", "#"}
      /\ s.target \notin Terminators \cup {"cred", "/", "#"}
    BY TokenAssumption DEF Reference
<1>2. s.form \in {"bare", "bare_query", "bare_fragment", "braced_query"}
    BY ScannerAssumption DEF Reference, Forms
<1>3. /\ t \in Seq(Token)
      /\ Len(t) = o + 7 + Len(q)
      /\ o = 1 => t[1] = "open"
      /\ t[o + 1] = "cred" /\ t[o + 2] = ":" /\ t[o + 3] = "/" /\ t[o + 4] = "/"
      /\ t[o + 5] = s.plugin /\ t[o + 6] = "/" /\ t[o + 7] = s.target
      /\ \A k \in 1 .. Len(q) : t[o + 7 + k] = q[k]
    BY PlacedText
<1>4. o \in {0, 1} /\ Len(q) \in Nat
    BY <1>2 DEF Lead, Behind
<1>5. /\ \A k \in 1 .. Len(q) : q[k] # "cred"
      /\ e - o - 7 \in 1 .. Len(q)
      /\ q[e - o - 7] \in Terminators
      /\ \A k \in 1 .. e - o - 8 : q[k] \notin Terminators
      /\ s.form = "bare_fragment" => Len(q) = 3 /\ q[1] = "#"
    <2>1. CASE s.form = "bare"
        <3>1. q = <<"space">>
            BY <2>1, Zenon DEF Behind
        <3>2. Len(q) = 1 /\ q[1] = "space"
            BY <3>1
        <3>3. e - o - 7 = 1 /\ e - o - 8 = 0
            BY <1>4, <2>1 DEF Ending
        <3> HIDE DEF q, e, o
        <3> QED BY <2>1, <3>2, <3>3 DEF Terminators
    <2>2. CASE s.form = "bare_query"
        <3>1. q = <<"?", "kind", "space">>
            BY <2>2, Zenon DEF Behind
        <3>2. Len(q) = 3 /\ q[1] = "?" /\ q[2] = "kind" /\ q[3] = "space"
            BY <3>1
        <3>3. e - o - 7 = 1 /\ e - o - 8 = 0
            BY <1>4, <2>2 DEF Ending
        <3> HIDE DEF q, e, o
        <3> QED BY <2>2, <3>2, <3>3 DEF Terminators
    <2>3. CASE s.form = "bare_fragment"
        <3>1. q = <<"#", "field", "space">>
            BY <2>3, Zenon DEF Behind
        <3>2. Len(q) = 3 /\ q[1] = "#" /\ q[2] = "field" /\ q[3] = "space"
            BY <3>1
        <3>3. e - o - 7 = 3 /\ e - o - 8 = 2
            BY <1>4, <2>3 DEF Ending
        <3> HIDE DEF q, e, o
        <3> QED BY <2>3, <3>2, <3>3 DEF Terminators
    <2>4. CASE s.form = "braced_query"
        <3>1. q = <<"?", "kind", "close">>
            BY <2>4, Zenon DEF Behind
        <3>2. Len(q) = 3 /\ q[1] = "?" /\ q[2] = "kind" /\ q[3] = "close"
            BY <3>1
        <3>3. e - o - 7 = 1 /\ e - o - 8 = 0
            BY <1>4, <2>4 DEF Ending
        <3> HIDE DEF q, e, o
        <3> QED BY <2>4, <3>2, <3>3 DEF Terminators
    <2> QED BY <1>2, <2>1, <2>2, <2>3, <2>4
<1>6. e \in o + 8 .. o + 7 + Len(q)
    <2>1. e \in Nat
        BY <1>4 DEF Ending
    <2> QED BY <1>4, <1>5, <2>1
<1> HIDE DEF t, o, e, q
<1>7. ASSUME NEW j \in 1 .. Len(t), t[j] = "cred" PROVE j = o + 1
    <2>1. CASE j <= o + 7
        <3>1. j \in {1, o + 1, o + 2, o + 3, o + 4, o + 5, o + 6, o + 7}
            BY <1>3, <1>4, <2>1
        <3> QED BY <1>1, <1>3, <1>4, <1>7, <3>1
    <2>2. CASE j > o + 7
        <3>1. j - o - 7 \in 1 .. Len(q) /\ o + 7 + (j - o - 7) = j
            BY <1>3, <1>4, <2>2
        <3> QED BY <1>3, <1>5, <1>7, <3>1
    <2> QED BY <1>3, <1>4, <2>1, <2>2
<1>8. t[e] \in Terminators
    <2>1. e - o - 7 \in 1 .. Len(q) /\ o + 7 + (e - o - 7) = e
        BY <1>4, <1>5, <1>6
    <2>2. t[o + 7 + (e - o - 7)] = q[e - o - 7]
        BY <1>3, <2>1, Zenon
    <2> QED BY <1>5, <2>1, <2>2
<1>9. ASSUME NEW j \in o + 7 .. e - 1 PROVE t[j] \notin Terminators
    <2>1. CASE j = o + 7
        BY <1>1, <1>3, <2>1
    <2>2. CASE j # o + 7
        <3>1. /\ j - o - 7 \in 1 .. e - o - 8 /\ j - o - 7 \in 1 .. Len(q)
              /\ o + 7 + (j - o - 7) = j
            BY <1>4, <1>6, <2>2
        <3>2. t[o + 7 + (j - o - 7)] = q[j - o - 7]
            BY <1>3, <3>1, Zenon
        <3> QED BY <1>5, <3>1, <3>2
    <2> QED BY <2>1, <2>2
<1>10. s.form = "bare_fragment" => t[o + 8] = "#"
    <2> SUFFICES ASSUME s.form = "bare_fragment" PROVE t[o + 8] = "#"
        OBVIOUS
    <2>1. 1 \in 1 .. Len(q) /\ o + 7 + 1 = o + 8
        BY <1>4, <1>5
    <2>2. t[o + 7 + 1] = q[1]
        BY <1>3, <2>1, Zenon
    <2> QED BY <1>5, <2>1, <2>2
<1>11. e \in 1 .. Len(t)
    BY <1>3, <1>4, <1>6
<1> QED BY <1>3, <1>7, <1>8, <1>9, <1>10, <1>11 DEF t, o, e

\* The tokens of a literal.
LEMMA LiteralText ==
    /\ Text(Literal) \in Seq(Token)
    /\ Len(Text(Literal)) = 2
    /\ \A j \in 1 .. Len(Text(Literal)) : Text(Literal)[j] # "cred"
<1>1. "text" \in Token /\ "space" \in Token
    BY Zenon DEF Token
<1>2. Text(Literal) = <<"text", "space">>
    BY DEF Text, Literal
<1>3. <<"text", "space">> \in Seq(Token)
    BY <1>1
<1> HIDE DEF Token
<1> QED BY <1>2, <1>3
-----------------------------------------------------------------------------
(***************************************************************************)
(* The text of the segments                                                *)
(***************************************************************************)

Texts == [i \in DOMAIN segments |-> Text(segments[i])]

PairsWritten == [i \in DOMAIN segments |-> WrittenIn(segments[i])]

Pair == Seq(Plugin) \X Seq(Target)

\* Where the scheme of reference i begins, and where its match ends.
SchemeOf(at, i) == at[i] + Lead(segments[i]) + 1
EndOf(at, i) == at[i] + Ending(segments[i])

IsReference(i) == segments[i].form # "literal"

Segmented ==
    /\ segments \in Seq(Reference \cup {Literal})
    /\ text = FlattenSeq(Texts)

\* Where the segments lie.
Laid(at) == at \in [1 .. Len(segments) + 1 -> Nat] /\ Layout(at, Texts)

\* The segments and their texts.
LEMMA SegmentShape ==
    ASSUME "braced" \notin Form, Segmented
    PROVE  /\ Len(segments) \in Nat /\ DOMAIN segments = 1 .. Len(segments)
           /\ \A i \in 1 .. Len(segments) :
                 IF IsReference(i) THEN segments[i] \in Reference ELSE segments[i] = Literal
           /\ Texts \in Seq(Seq(Token)) /\ Len(Texts) = Len(segments)
           /\ \A i \in 1 .. Len(segments) : Texts[i] = Text(segments[i]) /\ Texts[i] \in Seq(Token)
<1>1. Len(segments) \in Nat /\ DOMAIN segments = 1 .. Len(segments)
    BY DEF Segmented
<1>2. ASSUME NEW i \in 1 .. Len(segments)
      PROVE  IF IsReference(i) THEN segments[i] \in Reference ELSE segments[i] = Literal
    <2>1. segments[i] \in Reference \cup {Literal}
        BY <1>1 DEF Segmented
    <2>2. \A s \in Reference : s.form # "literal"
        BY ScannerAssumption DEF Reference, Forms
    <2>3. Literal.form = "literal"
        BY DEF Literal
    <2> QED BY <2>1, <2>2, <2>3 DEF IsReference
<1>3. ASSUME NEW i \in 1 .. Len(segments) PROVE Text(segments[i]) \in Seq(Token)
    BY <1>2, ReferenceText, LiteralText
<1>4. Texts = [i \in 1 .. Len(segments) |-> Text(segments[i])]
    BY <1>1 DEF Texts
<1> HIDE DEF Segmented, IsReference
<1>5. Texts \in Seq(Seq(Token)) /\ Len(Texts) = Len(segments)
    BY <1>1, <1>3, <1>4
<1> QED BY <1>1, <1>2, <1>3, <1>4, <1>5

\* The segments lie one behind the other in the text.
LEMMA SegmentsLaid ==
    ASSUME "braced" \notin Form, Segmented
    PROVE  /\ text \in Seq(Token)
           /\ \E at : Laid(at)
<1>1. Texts \in Seq(Seq(Token)) /\ Len(Texts) = Len(segments)
    BY SegmentShape
<1>2. PICK at \in [1 .. Len(Texts) + 1 -> Nat] : Layout(at, Texts)
    BY <1>1, FlattenLayout
<1>3. FlattenSeq(Texts) \in Seq(Token)
    BY <1>1, FlattenLayout
<1> QED BY <1>1, <1>2, <1>3 DEF Segmented, Laid

\* Where the text of each segment lies in the whole text.
LEMMA LaidShape ==
    ASSUME "braced" \notin Form, Segmented, NEW at, Laid(at)
    PROVE  /\ at[1] = 0
           /\ \A i \in 1 .. Len(segments) + 1 : at[i] \in Nat
           /\ \A i, k \in 1 .. Len(segments) + 1 : i <= k => at[i] <= at[k]
           /\ \A i \in 1 .. Len(segments) :
                 /\ at[i + 1] = at[i] + Len(Texts[i])
                 /\ \A j \in 1 .. Len(Texts[i]) : text[at[i] + j] = Texts[i][j]
           /\ Len(text) = at[Len(segments) + 1]
<1>1. /\ Texts \in Seq(Seq(Token)) /\ Len(Texts) = Len(segments) /\ Len(segments) \in Nat
      /\ \A i \in 1 .. Len(segments) : Len(Texts[i]) \in Nat
    BY SegmentShape
<1>2. at \in [1 .. Len(Texts) + 1 -> Nat] /\ Layout(at, Texts) /\ text = FlattenSeq(Texts)
    BY <1>1 DEF Laid, Segmented
<1>3. \A i, k \in 1 .. Len(Texts) + 1 : i <= k => at[i] <= at[k]
    BY <1>1, <1>2, LayoutOrder
<1>5. /\ at[1] = 0
      /\ \A i \in 1 .. Len(Texts) :
            /\ at[i + 1] = at[i] + Len(Texts[i])
            /\ \A j \in 1 .. Len(Texts[i]) : FlattenSeq(Texts)[at[i] + j] = Texts[i][j]
      /\ Len(FlattenSeq(Texts)) = at[Len(Texts) + 1]
    BY <1>2, Zenon DEF Layout
<1>6. \A i \in 1 .. Len(segments) + 1 : at[i] \in Nat
    BY <1>1, <1>2
<1>7. FlattenSeq(Texts) = text /\ Len(Texts) = Len(segments)
    BY <1>1, <1>2
<1>8. \A i, k \in 1 .. Len(segments) + 1 : i <= k => at[i] <= at[k]
    BY <1>3, <1>7
<1>10. \A i \in 1 .. Len(segments) :
            /\ at[i + 1] = at[i] + Len(Texts[i])
            /\ \A j \in 1 .. Len(Texts[i]) : text[at[i] + j] = Texts[i][j]
    BY <1>5, <1>7
<1>11. Len(text) = at[Len(segments) + 1] /\ at[1] = 0
    BY <1>5, <1>7
<1> QED BY <1>6, <1>8, <1>10, <1>11, Zenon

\* Every position of the text is in one segment.
LEMMA LaidCovers ==
    ASSUME "braced" \notin Form, Segmented, NEW at, Laid(at)
    PROVE  \A p \in 1 .. Len(text) : \E i \in 1 .. Len(segments), j \in Nat :
              j \in 1 .. Len(Texts[i]) /\ p = at[i] + j
<1>1. Texts \in Seq(Seq(Token)) /\ Len(Texts) = Len(segments)
    BY SegmentShape, Zenon
<1>2. at \in [1 .. Len(Texts) + 1 -> Nat] /\ Layout(at, Texts)
    BY <1>1, Zenon DEF Laid
<1>3. \A p \in 1 .. Len(FlattenSeq(Texts)) : \E i \in 1 .. Len(Texts), j \in Nat :
         j \in 1 .. Len(Texts[i]) /\ p = at[i] + j
    <2> SUFFICES ASSUME NEW p \in 1 .. Len(FlattenSeq(Texts))
                 PROVE  \E i \in 1 .. Len(Texts), j \in Nat :
                           j \in 1 .. Len(Texts[i]) /\ p = at[i] + j
        OBVIOUS
    <2> DEFINE ss == Texts
    <2>1. /\ ss \in Seq(Seq(Token)) /\ at \in [1 .. Len(ss) + 1 -> Nat] /\ Layout(at, ss)
          /\ p \in 1 .. Len(FlattenSeq(ss))
        BY <1>1, <1>2
    <2> HIDE DEF ss
    <2>2. \E i \in 1 .. Len(ss), j \in Nat : j \in 1 .. Len(ss[i]) /\ p = at[i] + j
        BY <2>1, LayoutCovers
    <2> QED BY <2>2 DEF ss
<1>4. text = FlattenSeq(Texts)
    BY DEF Segmented
<1> QED BY <1>1, <1>3, <1>4

\* Reference i as the scan reads it.
LEMMA ReferenceAt ==
    ASSUME "braced" \notin Form, Segmented, NEW at, Laid(at),
           NEW i \in 1 .. Len(segments), IsReference(i)
    PROVE  LET p == SchemeOf(at, i)
               e == EndOf(at, i)
           IN  /\ p \in Nat /\ e \in Nat
               /\ at[i] < p /\ p <= at[i] + 2
               /\ e = IF segments[i].form = "bare_fragment" THEN p + 9 ELSE p + 7
               /\ e <= at[i + 1] /\ e <= Len(text)
               /\ text[p] = "cred" /\ text[p + 1] = ":" /\ text[p + 2] = "/" /\ text[p + 3] = "/"
               /\ text[p + 4] = segments[i].plugin /\ text[p + 5] = "/"
               /\ text[p + 6] = segments[i].target
               /\ segments[i].form = "bare_fragment" => text[p + 7] = "#"
               /\ text[e] \in Terminators
               /\ \A j \in p + 6 .. e - 1 : text[j] \notin Terminators
<1> DEFINE s == segments[i]
           t == Text(s)
           o == Lead(s)
           p == SchemeOf(at, i)
           e == EndOf(at, i)
<1>1. s \in Reference /\ Texts[i] = t
    BY SegmentShape
<1>2. /\ at[i] \in Nat /\ at[i + 1] \in Nat /\ at[i + 1] = at[i] + Len(t)
      /\ at[i + 1] <= Len(text)
      /\ \A j \in 1 .. Len(t) : text[at[i] + j] = t[j]
    <2>1. /\ Len(segments) \in Nat /\ i + 1 \in 1 .. Len(segments) + 1
          /\ i + 1 <= Len(segments) + 1 /\ Len(segments) + 1 \in 1 .. Len(segments) + 1
          /\ i \in 1 .. Len(segments) + 1
        BY SegmentShape
    <2>2. /\ at[i] \in Nat /\ at[i + 1] \in Nat
          /\ at[i + 1] <= at[Len(segments) + 1]
          /\ Len(text) = at[Len(segments) + 1]
        BY <2>1, LaidShape, Zenon
    <2>3. /\ at[i + 1] = at[i] + Len(Texts[i])
          /\ \A j \in 1 .. Len(Texts[i]) : text[at[i] + j] = Texts[i][j]
        BY LaidShape, Zenon
    <2> HIDE DEF t
    <2>4. \A j \in 1 .. Len(t) : text[at[i] + j] = t[j]
        BY <1>1, <2>3, Zenon
    <2> QED BY <1>1, <2>2, <2>3, <2>4, Zenon
<1>3. /\ t \in Seq(Token)
      /\ Ending(s) \in 1 .. Len(t)
      /\ t[o + 1] = "cred" /\ t[o + 2] = ":" /\ t[o + 3] = "/" /\ t[o + 4] = "/"
      /\ t[o + 5] = s.plugin /\ t[o + 6] = "/" /\ t[o + 7] = s.target
      /\ t[Ending(s)] \in Terminators
      /\ \A j \in o + 7 .. Ending(s) - 1 : t[j] \notin Terminators
      /\ s.form = "bare_fragment" => t[o + 8] = "#"
    BY <1>1, ReferenceText
<1>4. /\ o \in {0, 1} /\ p = at[i] + o + 1 /\ e = at[i] + Ending(s)
      /\ Ending(s) = o + IF s.form = "bare_fragment" THEN 10 ELSE 8
    BY <1>2 DEF Lead, Ending, SchemeOf, EndOf
<1> HIDE DEF s, t, o, p, e
<1>5. Len(t) \in Nat /\ Len(text) \in Nat
    <2>1. t \in Seq(Token) /\ text \in Seq(Token)
        BY <1>3, SegmentsLaid, Zenon
    <2> QED BY <2>1
<1> DEFINE a == at[i]
           b == at[i + 1]
           l == Len(t)
           m == Len(text)
           z == Ending(s)
<1>6. /\ a \in Nat /\ b \in Nat /\ l \in Nat /\ m \in Nat
      /\ b = a + l /\ b <= m
      /\ o \in {0, 1} /\ z \in 1 .. l
      /\ p = a + o + 1 /\ e = a + z
      /\ z = o + IF s.form = "bare_fragment" THEN 10 ELSE 8
    BY <1>2, <1>3, <1>4, <1>5, Zenon
<1>7. /\ \A j \in 1 .. l : text[a + j] = t[j]
      /\ \A j \in o + 7 .. z - 1 : t[j] \notin Terminators
    BY <1>2, <1>3, Zenon
<1> HIDE DEF a, b, l, m, z
<1>8. /\ p \in Nat /\ e \in Nat /\ a < p /\ p <= a + 2
      /\ e = IF s.form = "bare_fragment" THEN p + 9 ELSE p + 7
      /\ e <= b /\ e <= m
    BY <1>6
<1>9. ASSUME NEW k \in 1 .. 8, o + k \in 1 .. l
      PROVE  text[p + (k - 1)] = t[o + k]
    <2>1. a + (o + k) = p + (k - 1)
        BY <1>6
    <2>2. text[a + (o + k)] = t[o + k]
        BY <1>7, <1>9, Zenon
    <2> QED BY <2>1, <2>2, Zenon
<1>10. /\ text[p] = t[o + 1] /\ text[p + 1] = t[o + 2] /\ text[p + 2] = t[o + 3]
       /\ text[p + 3] = t[o + 4] /\ text[p + 4] = t[o + 5] /\ text[p + 5] = t[o + 6]
       /\ text[p + 6] = t[o + 7] /\ text[p + 7] = t[o + 8]
    <2>1. \A k \in 1 .. 8 : o + k \in 1 .. l
        BY <1>6
    <2>2. \A k \in 1 .. 8 : text[p + (k - 1)] = t[o + k]
        BY <1>9, <2>1
    <2> QED BY <1>8, <2>2
<1>11. text[e] \in Terminators
    <2>1. text[a + z] = t[z]
        BY <1>6, <1>7, Zenon
    <2>2. t[z] \in Terminators
        BY <1>3 DEF z
    <2> QED BY <1>6, <2>1, <2>2
<1>12. ASSUME NEW j \in p + 6 .. e - 1 PROVE text[j] \notin Terminators
    <2> DEFINE k == j - a
    <2>1. k \in o + 7 .. z - 1 /\ k \in 1 .. l /\ a + k = j
        BY <1>6
    <2> HIDE DEF k
    <2>2. text[a + k] = t[k] /\ t[k] \notin Terminators
        BY <1>7, <2>1, Zenon
    <2> QED BY <2>1, <2>2
<1> QED BY <1>3, <1>8, <1>10, <1>11, <1>12 DEF s, p, e, a, b, m

\* No scheme is anywhere else.
LEMMA SchemesOnly ==
    ASSUME "braced" \notin Form, Segmented, NEW at, Laid(at),
           NEW p \in 1 .. Len(text), text[p] = "cred"
    PROVE  \E i \in 1 .. Len(segments) : IsReference(i) /\ p = SchemeOf(at, i)
<1>1. PICK i \in 1 .. Len(segments), j \in Nat : j \in 1 .. Len(Texts[i]) /\ p = at[i] + j
    <2>1. \A x \in 1 .. Len(text) : \E i \in 1 .. Len(segments), j \in Nat :
             j \in 1 .. Len(Texts[i]) /\ x = at[i] + j
        BY LaidCovers, Zenon
    <2> QED BY <2>1, Zenon
<1>2. Texts[i][j] = "cred"
    BY <1>1, LaidShape, Zenon
<1>3. Texts[i] = Text(segments[i]) /\ Texts[i] \in Seq(Token)
    BY SegmentShape
<1>4. IsReference(i)
    BY <1>1, <1>2, <1>3, SegmentShape, LiteralText
<1>5. segments[i] \in Reference
    BY <1>4, SegmentShape
<1>6. j = Lead(segments[i]) + 1
    BY <1>1, <1>2, <1>3, <1>5, ReferenceText
<1>7. at[i] \in Nat /\ Lead(segments[i]) \in Nat
    <2>1. i \in 1 .. Len(segments) + 1
        BY SegmentShape
    <2> QED BY <2>1, LaidShape DEF Lead
<1> QED BY <1>1, <1>4, <1>6, <1>7 DEF SchemeOf

-----------------------------------------------------------------------------
(***************************************************************************)
(* The invariant                                                           *)
(***************************************************************************)

\* The pairs of the first segments, one by one.
Summed(F) == F \in [0 .. Len(segments) -> Seq(Pair)] /\ Sums(F, PairsWritten)

\* The scan has found what the first k segments hold, and goes on behind the
\* scheme of segment k.
Upto(at, k) ==
    /\ k \in 0 .. Len(segments)
    /\ k # 0 => at[k] + 2 < rest
    /\ rest <= at[k + 1] + 1

ScannerInv ==
    /\ Segmented
    /\ rest \in Nat \ {0}
    /\ \E at, F, k : Laid(at) /\ Summed(F) /\ Upto(at, k) /\ out = F[k]
    /\ ~scanning => out = Written

\* The schemes that are left are those of the references behind segment k.
LEMMA SchemesLeft ==
    ASSUME "braced" \notin Form, Segmented, rest \in Nat \ {0},
           NEW at, Laid(at), NEW k, Upto(at, k)
    PROVE  /\ \A i \in k + 1 .. Len(segments) : IsReference(i) => SchemeOf(at, i) \in SchemeAt(rest)
           /\ \A p \in SchemeAt(rest) :
                 \E i \in k + 1 .. Len(segments) : IsReference(i) /\ p = SchemeOf(at, i)
<1> DEFINE n == Len(segments)
<1>1. n \in Nat /\ k \in 0 .. n /\ text \in Seq(Token) /\ Len(text) \in Nat
    BY SegmentShape, SegmentsLaid DEF Upto
<1>2. /\ \A i \in 1 .. n + 1 : at[i] \in Nat
      /\ \A i, j \in 1 .. n + 1 : i <= j => at[i] <= at[j]
    BY LaidShape, Zenon
<1> HIDE DEF n
<1>3. ASSUME NEW i \in k + 1 .. n, IsReference(i) PROVE SchemeOf(at, i) \in SchemeAt(rest)
    <2> DEFINE p == SchemeOf(at, i)
    <2>1. i \in 1 .. n /\ i \in 1 .. n + 1 /\ k + 1 \in 1 .. n + 1 /\ k + 1 <= i
        BY <1>1
    <2>2. /\ p \in Nat /\ at[i] < p
          /\ p + 7 <= Len(text)
          /\ text[p] = "cred" /\ text[p + 1] = ":" /\ text[p + 2] = "/" /\ text[p + 3] = "/"
        <3> DEFINE e == EndOf(at, i)
        <3>1. /\ p \in Nat /\ e \in Nat /\ at[i] < p
              /\ e = IF segments[i].form = "bare_fragment" THEN p + 9 ELSE p + 7
              /\ e <= Len(text)
              /\ text[p] = "cred" /\ text[p + 1] = ":" /\ text[p + 2] = "/" /\ text[p + 3] = "/"
            BY <1>3, <2>1, ReferenceAt DEF n
        <3> HIDE DEF p, e
        <3> QED BY <1>1, <3>1
    <2> HIDE DEF p
    <2>3. at[k + 1] <= at[i] /\ at[k + 1] \in Nat /\ at[i] \in Nat
        BY <1>2, <2>1, Zenon
    <2>4. rest <= at[k + 1] + 1
        BY DEF Upto
    <2> DEFINE x == at[k + 1]
               y == at[i]
    <2>5. x <= y /\ x \in Nat /\ y \in Nat /\ rest <= x + 1 /\ y < p
        BY <2>2, <2>3, <2>4
    <2> HIDE DEF x, y
    <2>6. p \in rest .. Len(text) - 3
        BY <1>1, <2>2, <2>5
    <2>7. SubSeq(text, p, p + 3) = Scheme
        <3> DEFINE u == SubSeq(text, p, p + 3)
        <3>1. u = [j \in 1 .. 4 |-> text[p + j - 1]]
            BY <2>2
        <3>2. /\ u \in Seq(Token) /\ Len(u) = 4
              /\ u[1] = text[p] /\ u[2] = text[p + 1] /\ u[3] = text[p + 2] /\ u[4] = text[p + 3]
            BY <1>1, <2>2, <2>6
        <3> HIDE DEF u
        <3>3. /\ Scheme \in Seq(Token) /\ Len(Scheme) = 4
              /\ Scheme[1] = "cred" /\ Scheme[2] = ":" /\ Scheme[3] = "/" /\ Scheme[4] = "/"
            BY SchemeText
        <3>4. \A j \in 1 .. 4 : u[j] = Scheme[j]
            BY <2>2, <3>2, <3>3
        <3>5. u = Scheme
            BY <3>2, <3>3, <3>4, SeqEqual
        <3> QED BY <3>5 DEF u
    <2> QED BY <2>6, <2>7 DEF SchemeAt, p
<1>4. ASSUME NEW p \in SchemeAt(rest)
      PROVE  \E i \in k + 1 .. n : IsReference(i) /\ p = SchemeOf(at, i)
    <2>1. p \in rest .. Len(text) - 3 /\ SubSeq(text, p, p + 3) = Scheme
        BY DEF SchemeAt
    <2>2. p \in Nat /\ p >= rest /\ p \in 1 .. Len(text)
        BY <1>1, <2>1
    <2>3. text[p] = "cred"
        <3>1. SubSeq(text, p, p + 3)[1] = text[p]
            BY <2>2
        <3>2. Scheme[1] = "cred"
            BY DEF Scheme
        <3> QED BY <2>1, <3>1, <3>2
    <2>4. PICK i \in 1 .. n : IsReference(i) /\ p = SchemeOf(at, i)
        BY <2>2, <2>3, SchemesOnly DEF n
    <2>5. p <= at[i] + 2
        BY <2>4, ReferenceAt DEF n
    <2>6. ASSUME i <= k PROVE FALSE
        <3>1. i \in 1 .. n + 1 /\ k \in 1 .. n + 1 /\ k # 0
            BY <1>1, <2>6
        <3>2. at[i] <= at[k] /\ at[i] \in Nat /\ at[k] \in Nat
            BY <1>2, <2>6, <3>1, Zenon
        <3>3. at[k] + 2 < rest
            BY <3>1 DEF Upto
        <3> QED BY <2>2, <2>5, <3>2, <3>3
    <2> QED BY <1>1, <2>4, <2>6
<1> QED BY <1>3, <1>4 DEF n

\* The next scheme is that of the next reference.
LEMMA NextReference ==
    ASSUME "braced" \notin Form, Segmented, rest \in Nat \ {0},
           NEW at, Laid(at), NEW k, Upto(at, k), SchemeAt(rest) # {}
    PROVE  \E i \in k + 1 .. Len(segments) :
              /\ IsReference(i) /\ Min(SchemeAt(rest)) = SchemeOf(at, i)
              /\ \A j \in k + 1 .. i - 1 : ~IsReference(j)
<1>1. Len(segments) \in Nat /\ k \in 0 .. Len(segments) /\ Len(text) \in Nat
    BY SegmentShape, SegmentsLaid DEF Upto
<1>2. SchemeAt(rest) \in SUBSET Nat
    BY <1>1 DEF SchemeAt
<1>3. Min(SchemeAt(rest)) \in SchemeAt(rest) /\ \A p \in SchemeAt(rest) : Min(SchemeAt(rest)) <= p
    BY <1>2, MinIsLeast
<1>4. PICK i \in k + 1 .. Len(segments) :
         IsReference(i) /\ Min(SchemeAt(rest)) = SchemeOf(at, i)
    BY <1>3, SchemesLeft
<1>5. ASSUME NEW j \in k + 1 .. i - 1, IsReference(j) PROVE FALSE
    <2>1. /\ j \in k + 1 .. Len(segments) /\ j \in 1 .. Len(segments) /\ i \in 1 .. Len(segments)
          /\ j + 1 \in 1 .. Len(segments) + 1 /\ i \in 1 .. Len(segments) + 1 /\ j + 1 <= i
        BY <1>1, i \in k + 1 .. Len(segments)
    <2>2. SchemeOf(at, i) <= SchemeOf(at, j)
        BY <1>3, <1>4, <1>5, <2>1, SchemesLeft
    <2> DEFINE p == SchemeOf(at, i)
               q == SchemeOf(at, j)
               e == EndOf(at, j)
               a == at[i]
               b == at[j + 1]
    <2>3. p \in Nat /\ a < p
        BY <1>4, <2>1, ReferenceAt
    <2>4. /\ q \in Nat /\ e \in Nat /\ e <= b
          /\ e = IF segments[j].form = "bare_fragment" THEN q + 9 ELSE q + 7
        BY <1>5, <2>1, ReferenceAt
    <2>5. b <= a /\ a \in Nat /\ b \in Nat
        BY <2>1, LaidShape, Zenon
    <2>6. p <= q
        BY <2>2
    <2> HIDE DEF p, q, e, a, b
    <2> QED BY <2>3, <2>4, <2>5, <2>6
<1> QED BY <1>4, <1>5

\* What a turn of the loop makes of reference i (client_registry.rs:317-348).
LEMMA TurnTakes ==
    ASSUME "braced" \notin Form, Segmented, rest \in Nat \ {0},
           NEW at, Laid(at), NEW i \in 1 .. Len(segments), IsReference(i),
           SchemeAt(rest) # {}, Min(SchemeAt(rest)) = SchemeOf(at, i)
    PROVE  LET p == SchemeOf(at, i)
               e == EndOf(at, i)
           IN  /\ Slashes # {} /\ Min(Slashes) = p + 5
               /\ First(At(p + 6, Terminators), Len(text) + 1) = e
               /\ SubSeq(text, p + 4, p + 4) = <<segments[i].plugin>>
               /\ WithoutFragment(SubSeq(text, p + 6, e - 1)) = <<segments[i].target>>
<1> DEFINE p == SchemeOf(at, i)
           e == EndOf(at, i)
           s == segments[i]
<1>1. /\ p \in Nat /\ e \in Nat
      /\ at[i] < p
      /\ e = IF s.form = "bare_fragment" THEN p + 9 ELSE p + 7
      /\ e <= Len(text)
      /\ text[p + 4] = s.plugin /\ text[p + 5] = "/" /\ text[p + 6] = s.target
      /\ s.form = "bare_fragment" => text[p + 7] = "#"
      /\ text[e] \in Terminators
      /\ \A j \in p + 6 .. e - 1 : text[j] \notin Terminators
    BY ReferenceAt
<1>2. text \in Seq(Token) /\ Len(text) \in Nat /\ Len(Scheme) = 4
    BY SegmentsLaid, SchemeText
<1>3. /\ s.plugin # "/" /\ s.target # "#"
    BY SegmentShape, TokenAssumption DEF Reference
<1>4. p >= 1 /\ p + 7 <= Len(text)
    <2>1. at[i] \in Nat
        <3>1. i \in 1 .. Len(segments) + 1
            BY SegmentShape
        <3> QED BY <3>1, LaidShape, Zenon
    <2> DEFINE x == at[i]
    <2>2. x \in Nat /\ x < p
        BY <1>1, <2>1
    <2> HIDE DEF p, e, s, x
    <2>3. e <= Len(text) /\ p + 7 <= e /\ p \in Nat /\ e \in Nat
        BY <1>1
    <2> QED BY <1>2, <2>2, <2>3
<1>5. Slashes = At(p + 4, {"/"})
    BY <1>2 DEF Slashes
<1> HIDE DEF p, e, s
<1>6. Slashes # {} /\ Min(Slashes) = p + 5
    <2> DEFINE S == At(p + 4, {"/"})
    <2>1. p + 5 \in S /\ S \in SUBSET Nat
        BY <1>1, <1>2, <1>4 DEF At
    <2>2. ASSUME NEW k \in S PROVE p + 5 <= k
        <3>1. k \in Nat /\ k >= p + 4 /\ text[k] = "/"
            BY <1>1, <1>2 DEF At
        <3>2. k # p + 4
            BY <1>1, <1>3, <3>1
        <3> QED BY <1>1, <3>1, <3>2
    <2> HIDE DEF S
    <2>3. Min(S) = p + 5
        BY <2>1, <2>2, MinIs
    <2> QED BY <1>5, <2>1, <2>3 DEF S
<1>7. First(At(p + 6, Terminators), Len(text) + 1) = e
    <2> DEFINE S == At(p + 6, Terminators)
    <2>0. e >= p + 7
        BY <1>1
    <2>1. e \in S /\ S \in SUBSET Nat
        BY <1>1, <1>2, <1>4, <2>0 DEF At
    <2>2. ASSUME NEW k \in S PROVE e <= k
        <3>1. k \in Nat /\ k >= p + 6 /\ text[k] \in Terminators
            BY <1>1, <1>2 DEF At
        <3>2. ~(k \in p + 6 .. e - 1)
            BY <1>1, <3>1
        <3> QED BY <1>1, <3>1, <3>2
    <2> HIDE DEF S
    <2>3. Min(S) = e
        BY <2>1, <2>2, MinIs
    <2> QED BY <2>1, <2>3 DEF S, First
<1>8. SubSeq(text, p + 4, p + 4) = <<s.plugin>>
    <2>1. p + 4 \in 1 .. Len(text)
        BY <1>1, <1>2, <1>4
    <2> QED BY <1>1, <1>2, <2>1, SubSeqOfOne
<1>9. WithoutFragment(SubSeq(text, p + 6, e - 1)) = <<s.target>>
    <2> DEFINE u == SubSeq(text, p + 6, e - 1)
               H == {q \in DOMAIN u : u[q] = "#"}
    <2>1. p + 6 \in Int /\ e - 1 \in Int /\ \A j \in p + 6 .. e - 1 : text[j] \in Token
        <3>1. \A j \in p + 6 .. e - 1 : j \in 1 .. Len(text)
            BY <1>1, <1>2, <1>4
        <3> QED BY <1>1, <1>2, <3>1
    <2>2. /\ u \in Seq(Token)
          /\ Len(u) = IF p + 6 <= e - 1 THEN (e - 1) - (p + 6) + 1 ELSE 0
          /\ \A j \in 1 .. (e - 1) - (p + 6) + 1 : u[j] = text[(p + 6) + j - 1]
        BY <2>1, SubSeqProperties
    <2> HIDE DEF u
    <2>3. /\ u \in Seq(Token) /\ Len(u) = e - p - 6
          /\ DOMAIN u = 1 .. e - p - 6
          /\ \A j \in 1 .. e - p - 6 : u[j] = text[j + p + 5]
        <3>1. e \in Nat /\ p \in Nat /\ e >= p + 7
            BY <1>1
        <3>2. Len(u) = e - p - 6 /\ \A j \in Nat : (p + 6) + j - 1 = j + p + 5
            BY <2>2, <3>1
        <3> QED BY <2>2, <3>1, <3>2
    <2>4. 1 \in DOMAIN u /\ u[1] = s.target /\ Len(u) \in Nat /\ DOMAIN u = 1 .. Len(u)
        <3>1. 1 \in 1 .. e - p - 6 /\ 1 + p + 5 = p + 6 /\ e - p - 6 \in Nat
            BY <1>1
        <3> QED BY <1>1, <2>3, <3>1
    <2>5. First(H, Len(u) + 1) = 2
        <3>1. CASE s.form = "bare_fragment"
            <4>1. e - p - 6 = 3 /\ 2 + p + 5 = p + 7
                BY <1>1, <3>1
            <4>2. 2 \in H /\ 1 \notin H /\ H \in SUBSET Nat
                BY <1>1, <1>3, <2>3, <2>4, <3>1, <4>1
            <4>3. \A k \in H : 2 <= k
                BY <2>4, <4>2
            <4> HIDE DEF H
            <4>4. Min(H) = 2
                BY <4>2, <4>3, MinIs
            <4> QED BY <4>2, <4>4 DEF First
        <3>2. CASE s.form # "bare_fragment"
            <4>1. e - p - 6 = 1
                BY <1>1, <3>2
            <4>2. H = {}
                BY <1>3, <2>3, <2>4, <4>1
            <4> HIDE DEF H
            <4> QED BY <2>3, <4>1, <4>2 DEF First
        <3> QED BY <3>1, <3>2
    <2>6. WithoutFragment(u) = SubSeq(u, 1, First(H, Len(u) + 1) - 1)
        BY DEF WithoutFragment
    <2> HIDE DEF H
    <2>7. SubSeq(u, 1, 1) = <<u[1]>>
        BY <2>3, <2>4, SubSeqOfOne
    <2>8. WithoutFragment(u) = <<s.target>>
        BY <2>4, <2>5, <2>6, <2>7
    <2> QED BY <2>8 DEF u
<1> QED BY <1>6, <1>7, <1>8, <1>9 DEF p, e, s

\* Literals add no pair.
LEMMA LiteralsAddNone ==
    ASSUME "braced" \notin Form, Segmented, NEW F, Summed(F),
           NEW k \in 0 .. Len(segments), NEW m \in k .. Len(segments),
           \A i \in k + 1 .. m : ~IsReference(i)
    PROVE  F[m] = F[k]
<1> DEFINE n == Len(segments)
           S == {x \in Nat : x \in k .. m => F[x] = F[k]}
<1>1. n \in Nat /\ k \in Nat /\ m \in Nat /\ k <= m /\ m <= n
    BY SegmentShape
<1>2. Len(PairsWritten) = n /\ \A i \in 1 .. n : PairsWritten[i] = WrittenIn(segments[i])
    BY SegmentShape DEF PairsWritten
<1>3. 0 \in S
    BY <1>1
<1>4. ASSUME NEW x \in Nat, x \in S PROVE x + 1 \in S
    <2> SUFFICES ASSUME x + 1 \in k .. m PROVE F[x + 1] = F[k]
        OBVIOUS
    <2>1. CASE x + 1 = k
        BY <2>1
    <2>2. CASE x + 1 # k
        <3>1. x \in k .. m /\ x + 1 \in k + 1 .. m /\ x \in 0 .. n - 1 /\ x + 1 \in 1 .. n
              /\ x \in 0 .. n
            BY <1>1, <2>2
        <3>2. F[x + 1] = F[x] \o PairsWritten[x + 1]
            BY <1>2, <3>1, Zenon DEF Summed, Sums
        <3>3. PairsWritten[x + 1] = <<>>
            BY <1>2, <3>1 DEF WrittenIn, IsReference
        <3>4. F[x] \in Seq(Pair)
            BY <3>1 DEF Summed
        <3>5. F[x] \o <<>> = F[x]
            BY <3>4, ConcatEmptySeq
        <3>6. F[x] = F[k]
            BY <1>4, <3>1
        <3> QED BY <3>2, <3>3, <3>5, <3>6
    <2> QED BY <2>1, <2>2
<1>5. Nat \subseteq S
    <2> HIDE DEF S
    <2> QED BY <1>3, <1>4, SetInduction, Zenon
<1> QED BY <1>1, <1>5

\* The pairs that are written, segment by segment.
LEMMA PairsShape ==
    ASSUME "braced" \notin Form, Segmented
    PROVE  /\ PairsWritten \in Seq(Seq(Pair)) /\ Len(PairsWritten) = Len(segments)
           /\ \A i \in 1 .. Len(segments) :
                 IsReference(i) => PairsWritten[i] = <<<<<<segments[i].plugin>>, <<segments[i].target>>>>>>
           /\ \A F : Summed(F) => Written = F[Len(segments)]
           /\ \E F : Summed(F)
<1> DEFINE n == Len(segments)
<1>1. n \in Nat /\ DOMAIN segments = 1 .. n
    BY SegmentShape
<1>2. ASSUME NEW i \in 1 .. n PROVE WrittenIn(segments[i]) \in Seq(Pair)
    <2>1. CASE IsReference(i)
        <3>1. segments[i].plugin \in Plugin /\ segments[i].target \in Target
            BY <2>1, SegmentShape DEF Reference
        <3> DEFINE d == <<<<segments[i].plugin>>, <<segments[i].target>>>>
        <3>2. d \in Pair
            BY <3>1 DEF Pair
        <3>3. WrittenIn(segments[i]) = <<d>>
            BY <2>1 DEF WrittenIn, IsReference
        <3> HIDE DEF d
        <3> QED BY <3>2, <3>3
    <2>2. CASE ~IsReference(i)
        BY <2>2 DEF WrittenIn, IsReference
    <2> QED BY <2>1, <2>2
<1>3. PairsWritten = [i \in 1 .. n |-> WrittenIn(segments[i])]
    BY <1>1 DEF PairsWritten
<1>4. PairsWritten \in Seq(Seq(Pair)) /\ Len(PairsWritten) = n
    BY <1>1, <1>2, <1>3
<1>5. \A i \in 1 .. n : IsReference(i) =>
         PairsWritten[i] = <<<<<<segments[i].plugin>>, <<segments[i].target>>>>>>
    BY <1>3 DEF WrittenIn, IsReference
<1>6. Written = FlattenSeq(PairsWritten)
    BY DEF Written, PairsWritten
<1>7. ASSUME NEW F, Summed(F) PROVE Written = F[n]
    <2>1. F \in [0 .. Len(PairsWritten) -> Seq(Pair)] /\ Sums(F, PairsWritten)
        BY <1>4, <1>7 DEF Summed
    <2> QED BY <1>4, <1>6, <2>1, FlattenIsLast
<1>8. \E F : Summed(F)
    BY <1>4, SumsExist DEF Summed
<1> QED BY <1>4, <1>5, <1>7, <1>8

\* The scan starts on a sequence of segments.
LEMMA SegmentsAreSeq == ScannerInit => segments \in Seq(Reference \cup {Literal})
<1> DEFINE S == Reference \cup {Literal}
<1>1. ScannerInit => segments \in BoundedSeq(S, MaxSegments)
    BY DEF ScannerInit
<1> HIDE DEF S
<1>2. BoundedSeq(S, MaxSegments) \subseteq Seq(S)
    BY ScannerAssumption DEF BoundedSeq, SeqOf
<1> QED BY <1>1, <1>2 DEF S

\* The invariant holds at the start: the first segment is next.
LEMMA ScannerInitInv ==
    ASSUME "braced" \notin Form, ScannerInit
    PROVE  ScannerInv
<1>1. Segmented
    <2>1. segments \in Seq(Reference \cup {Literal})
        BY SegmentsAreSeq
    <2> QED BY <2>1 DEF ScannerInit, Segmented, Texts
<1>2. PICK at : Laid(at)
    BY <1>1, SegmentsLaid
<1>3. PICK F : Summed(F)
    BY <1>1, PairsShape
<1>4. rest = 1 /\ out = <<>> /\ scanning
    BY DEF ScannerInit
<1>5. at[1] = 0 /\ Len(segments) \in Nat
    BY <1>1, <1>2, LaidShape, SegmentShape
<1>6. Upto(at, 0)
    BY <1>4, <1>5 DEF Upto
<1>7. F[0] = <<>>
    BY <1>3, Zenon DEF Summed, Sums
<1> QED BY <1>1, <1>2, <1>3, <1>4, <1>6, <1>7 DEF ScannerInv

\* A turn takes the next reference and goes on behind it.
LEMMA ScanInv ==
    ASSUME "braced" \notin Form, ScannerInv, Scan
    PROVE  ScannerInv'
<1>1. /\ Segmented /\ rest \in Nat \ {0}
      /\ segments' = segments /\ text' = text /\ scanning
    BY DEF ScannerInv, Scan
<1>2. PICK at, F, k : Laid(at) /\ Summed(F) /\ Upto(at, k) /\ out = F[k]
    BY DEF ScannerInv
<1>3. SchemeAt(rest) # {}
    BY DEF Scan, Slashes
<1>4. PICK i \in k + 1 .. Len(segments) :
         /\ IsReference(i) /\ Min(SchemeAt(rest)) = SchemeOf(at, i)
         /\ \A j \in k + 1 .. i - 1 : ~IsReference(j)
    BY <1>1, <1>2, <1>3, NextReference
<1> DEFINE p == SchemeOf(at, i)
           e == EndOf(at, i)
           plugin == <<segments[i].plugin>>
           target == <<segments[i].target>>
<1>5. /\ Len(segments) \in Nat /\ k \in 0 .. Len(segments) /\ i \in 1 .. Len(segments)
      /\ i - 1 \in k .. Len(segments) /\ i - 1 \in 0 .. Len(segments) - 1 /\ (i - 1) + 1 = i
      /\ i # 0 /\ i \in 0 .. Len(segments)
    <2>1. Len(segments) \in Nat /\ k \in 0 .. Len(segments)
        BY <1>1, <1>2, SegmentShape DEF Upto
    <2> QED BY <2>1
<1>6. /\ Min(Slashes) = p + 5
      /\ First(At(p + 6, Terminators), Len(text) + 1) = e
      /\ SubSeq(text, p + 4, p + 4) = plugin
      /\ WithoutFragment(SubSeq(text, p + 6, e - 1)) = target
    BY <1>1, <1>2, <1>3, <1>4, <1>5, TurnTakes
<1>7. /\ p \in Nat /\ e \in Nat /\ p <= at[i] + 2 /\ p + 7 <= e
      /\ e <= at[i + 1] /\ e <= Len(text)
    <2>1. /\ p \in Nat /\ e \in Nat /\ p <= at[i] + 2
          /\ e = IF segments[i].form = "bare_fragment" THEN p + 9 ELSE p + 7
          /\ e <= at[i + 1] /\ e <= Len(text)
        BY <1>1, <1>2, <1>4, <1>5, ReferenceAt
    <2> HIDE DEF p, e
    <2> QED BY <2>1
<1>8. plugin # <<>> /\ target # <<>>
    OBVIOUS
<1> HIDE DEF p, e, plugin, target
<1>9. out' = Append(out, <<plugin, target>>) /\ rest' = e /\ scanning' = (e <= Len(text))
    <2>1. Min(SchemeAt(rest)) = p
        BY <1>4 DEF p
    <2> DEFINE E == First(At(Min(Slashes) + 1, Terminators), Len(text) + 1)
               P == SubSeq(text, Min(SchemeAt(rest)) + Len(Scheme), Min(Slashes) - 1)
               T == WithoutFragment(SubSeq(text, Min(Slashes) + 1, E - 1))
    <2>2. /\ out' = IF P # <<>> /\ T # <<>> THEN Append(out, <<P, T>>) ELSE out
          /\ rest' = E /\ scanning' = (E <= Len(text))
        BY Zenon DEF Scan, Advance
    <2>3. /\ Min(Slashes) + 1 = p + 6 /\ Min(Slashes) - 1 = p + 4
          /\ Min(SchemeAt(rest)) + Len(Scheme) = p + 4
        <3> DEFINE x == Min(Slashes)
                   y == Len(Scheme)
        <3>1. x = p + 5 /\ y = 4 /\ p \in Nat
            BY <1>6, <1>7, SchemeText
        <3> HIDE DEF x, y
        <3>2. x + 1 = p + 6 /\ x - 1 = p + 4 /\ p + y = p + 4
            BY <3>1
        <3> QED BY <2>1, <3>2 DEF x, y
    <2>4. E = e
        BY <1>6, <2>3, Zenon
    <2>5. P = plugin
        BY <1>6, <2>3, Zenon
    <2>6. T = target
        BY <1>6, <2>3, <2>4, Zenon
    <2> HIDE DEF E, P, T
    <2> QED BY <1>8, <2>2, <2>4, <2>5, <2>6, Zenon
<1>10. out' = F[i]
    <2>1. F[i - 1] = F[k]
        BY <1>1, <1>2, <1>4, <1>5, LiteralsAddNone
    <2>2. F[(i - 1) + 1] = F[i - 1] \o PairsWritten[(i - 1) + 1]
        <3>1. Len(PairsWritten) = Len(segments)
            BY <1>1, PairsShape
        <3>2. i - 1 \in 0 .. Len(PairsWritten) - 1
            BY <1>5, <3>1
        <3> QED BY <1>2, <3>2, Zenon DEF Summed, Sums
    <2>3. PairsWritten[i] = <<<<plugin, target>>>>
        BY <1>1, <1>4, <1>5, PairsShape DEF plugin, target
    <2>4. F[k] \in Seq(Pair)
        BY <1>2, <1>5 DEF Summed
    <2>5. <<plugin, target>> \in Pair
        <3>1. segments[i] \in Reference
            BY <1>1, <1>4, <1>5, SegmentShape
        <3>2. segments[i].plugin \in Plugin /\ segments[i].target \in Target
            BY <3>1 DEF Reference
        <3>3. plugin \in Seq(Plugin) /\ target \in Seq(Target)
            BY <3>2 DEF plugin, target
        <3> QED BY <3>3 DEF Pair
    <2> DEFINE d == <<plugin, target>>
               s == F[k]
    <2>6. s \in Seq(Pair) /\ d \in Pair
        BY <2>4, <2>5
    <2> HIDE DEF d, s
    <2>7. s \o <<d>> = Append(s, d)
        BY <2>6
    <2> QED BY <1>2, <1>5, <1>9, <2>1, <2>2, <2>3, <2>7 DEF d, s
<1>11. Segmented' /\ Laid(at)' /\ Summed(F)'
    BY <1>1, <1>2 DEF Segmented, Laid, Summed, Texts, PairsWritten
<1>12. Upto(at, i)'
    <2>1. i \in 1 .. Len(segments) + 1 /\ i + 1 \in 1 .. Len(segments) + 1
        BY <1>5
    <2>2. at[i] \in Nat /\ at[i + 1] \in Nat
        BY <1>1, <1>2, <2>1, LaidShape, Zenon
    <2> DEFINE a == at[i]
               b == at[i + 1]
    <2>3. a + 2 < e /\ e <= b + 1
        <3>1. a \in Nat /\ b \in Nat /\ p <= a + 2 /\ e <= b
            BY <1>7, <2>2
        <3>2. at[i] < p
            BY <1>1, <1>2, <1>4, <1>5, ReferenceAt DEF p
        <3>3. a < p
            BY <3>2
        <3> HIDE DEF a, b
        <3> QED BY <1>7, <3>1, <3>3
    <2> QED BY <1>1, <1>5, <1>9, <2>3 DEF Upto
<1>13. rest' \in Nat \ {0}
    BY <1>7, <1>9
<1>14. scanning'
    BY <1>7, <1>9, Zenon
<1> QED BY <1>10, <1>11, <1>12, <1>13, <1>14 DEF ScannerInv

\* When no reference is left all of them have been taken.
LEMMA StopInv ==
    ASSUME "braced" \notin Form, ScannerInv, Stop
    PROVE  ScannerInv'
<1>1. /\ Segmented /\ rest \in Nat \ {0} /\ UNCHANGED <<segments, text, rest, out>>
    BY DEF ScannerInv, Stop
<1>2. PICK at, F, k : Laid(at) /\ Summed(F) /\ Upto(at, k) /\ out = F[k]
    BY DEF ScannerInv
<1>3. Len(segments) \in Nat /\ k \in 0 .. Len(segments)
    BY <1>1, <1>2, SegmentShape DEF Upto
<1>4. SchemeAt(rest) = {}
    <2> SUFFICES ASSUME SchemeAt(rest) # {} PROVE FALSE
        OBVIOUS
    <2>1. PICK i \in k + 1 .. Len(segments) :
             IsReference(i) /\ Min(SchemeAt(rest)) = SchemeOf(at, i)
        BY <1>1, <1>2, NextReference
    <2>2. i \in 1 .. Len(segments)
        BY <1>3
    <2>3. Slashes # {}
        BY <1>1, <1>2, <2>1, <2>2, TurnTakes
    <2> QED BY <2>3 DEF Stop
<1>5. \A i \in k + 1 .. Len(segments) : ~IsReference(i)
    BY <1>1, <1>2, <1>4, SchemesLeft
<1>6. F[Len(segments)] = F[k]
    BY <1>1, <1>2, <1>3, <1>5, LiteralsAddNone
<1>7. out = Written
    BY <1>1, <1>2, <1>6, PairsShape
<1>8. Written' = Written
    BY <1>1 DEF Written
<1>9. Segmented' /\ Laid(at)' /\ Summed(F)' /\ Upto(at, k)'
    BY <1>1, <1>2 DEF Segmented, Laid, Summed, Upto, Texts, PairsWritten
<1> QED BY <1>1, <1>2, <1>7, <1>8, <1>9 DEF ScannerInv

\* It does not depend on anything but the variables.
LEMMA ScannerStutterInv ==
    ASSUME ScannerInv, UNCHANGED scannerVars
    PROVE  ScannerInv'
<1>1. UNCHANGED <<segments, text, rest, out, scanning>>
    BY DEF scannerVars
<1>2. PICK at, F, k : Laid(at) /\ Summed(F) /\ Upto(at, k) /\ out = F[k]
    BY DEF ScannerInv
<1>3. Segmented' /\ Laid(at)' /\ Summed(F)' /\ Upto(at, k)'
    BY <1>1, <1>2 DEF ScannerInv, Segmented, Laid, Summed, Upto, Texts, PairsWritten
<1>4. Written' = Written
    BY <1>1 DEF Written
<1> QED BY <1>1, <1>2, <1>3, <1>4 DEF ScannerInv

-----------------------------------------------------------------------------
(***************************************************************************)
(* The theorems                                                            *)
(***************************************************************************)

\* Of the forms the scan knows, every reference that is written is found as
\* it was written, in order, and nothing else is (client_registry.rs:313-350).
\* The form it does not know is the one the finding is about.
THEOREM FindsAllReferences ==
    "braced" \notin Form => (ScannerSpec => []FindsWhatIsWritten)
<1> SUFFICES ASSUME "braced" \notin Form PROVE ScannerSpec => []FindsWhatIsWritten
    OBVIOUS
<1>1. ScannerInit => ScannerInv
    BY ScannerInitInv
<1>2. ScannerInv /\ [ScannerNext]_scannerVars => ScannerInv'
    BY ScanInv, StopInv, ScannerStutterInv DEF ScannerNext
<1>3. ScannerInv => FindsWhatIsWritten
    BY DEF ScannerInv, FindsWhatIsWritten
<1> QED BY <1>1, <1>2, <1>3, PTL DEF ScannerSpec

\* The text of a segment is a sequence of tokens, in any form.
LEMMA TextIsSeq ==
    ASSUME NEW s \in Reference \cup {Literal}
    PROVE  Text(s) \in Seq(Token)
<1> DEFINE u == Scheme \o <<s.plugin, "/", s.target>>
<1>1. CASE s = Literal
    BY <1>1, LiteralText
<1>2. CASE s \in Reference
    <2>1. s.plugin \in Token /\ s.target \in Token
        BY <1>2 DEF Reference, Token
    <2>2. u \in Seq(Token)
        BY <2>1, UriText
    <2>3. s.form \in Forms
        BY <1>2, ScannerAssumption DEF Reference
    <2>4. /\ <<"space">> \in Seq(Token) /\ <<"?", "kind", "space">> \in Seq(Token)
          /\ <<"#", "field", "space">> \in Seq(Token) /\ <<"open">> \in Seq(Token)
          /\ <<"close">> \in Seq(Token) /\ <<"?", "kind", "close">> \in Seq(Token)
        <3>1. /\ "space" \in Token /\ "?" \in Token /\ "kind" \in Token /\ "#" \in Token
              /\ "field" \in Token /\ "open" \in Token /\ "close" \in Token
            BY Zenon DEF Token
        <3> QED BY <3>1
    <2>5. \/ Text(s) = u \o <<"space">>
          \/ Text(s) = u \o <<"?", "kind", "space">>
          \/ Text(s) = u \o <<"#", "field", "space">>
          \/ Text(s) = <<"open">> \o u \o <<"close">>
          \/ Text(s) = <<"open">> \o u \o <<"?", "kind", "close">>
        BY <2>3, Zenon DEF Text, Forms
    <2> HIDE DEF u
    <2>6. \A x, y \in Seq(Token) : x \o y \in Seq(Token)
        OBVIOUS
    <2>7. <<"open">> \o u \in Seq(Token)
        BY <2>2, <2>4, <2>6, Zenon
    <2> QED BY <2>2, <2>4, <2>5, <2>6, <2>7, Zenon
<1> QED BY <1>1, <1>2

\* Every turn that is followed by another leaves less text to scan, whatever
\* the text is: forms the scan does not know included
\* (client_registry.rs:317-348).
LEMMA TurnAdvances ==
    ASSUME rest \in Nat, Len(text) \in Nat, Scan
    PROVE  rest' \in Nat /\ rest' > rest
<1> DEFINE p == Min(SchemeAt(rest))
           q == Min(Slashes)
           e == First(At(q + 1, Terminators), Len(text) + 1)
<1>1. Slashes # {} /\ SchemeAt(rest) # {}
    BY DEF Scan, Slashes
<1>2. p \in SchemeAt(rest)
    <2>1. SchemeAt(rest) \in SUBSET Nat
        BY DEF SchemeAt
    <2> QED BY <1>1, <2>1, MinIsLeast
<1>3. p \in Nat /\ p >= rest
    BY <1>2 DEF SchemeAt
<1>4. q \in Nat /\ q >= p + 4 /\ q <= Len(text)
    <2> HIDE DEF p
    <2>1. Slashes = At(p + 4, {"/"})
        BY <1>1, SchemeText DEF Slashes, p
    <2>2. Slashes \in SUBSET Nat
        BY <1>3, <2>1 DEF At
    <2>3. Min(Slashes) \in Slashes
        BY <1>1, <2>2, MinIsLeast
    <2> QED BY <1>3, <2>1, <2>3 DEF At
<1>5. e \in Nat /\ e >= q + 1
    <2> DEFINE S == At(q + 1, Terminators)
    <2> HIDE DEF q
    <2>1. S \in SUBSET (q + 1 .. Len(text)) /\ S \in SUBSET Nat
        BY <1>4 DEF At
    <2>2. S # {} => Min(S) \in S
        BY <2>1, MinIsLeast
    <2>3. e = IF S = {} THEN Len(text) + 1 ELSE Min(S)
        BY DEF First
    <2> HIDE DEF S, e
    <2> QED BY <1>4, <2>1, <2>2, <2>3
<1>6. rest' = e
    BY DEF Scan, Advance
<1> HIDE DEF p, q, e
<1> QED BY <1>3, <1>4, <1>5, <1>6

\* So the loop ends on any text.
THEOREM TurnsAlwaysAdvance == ScannerSpec => TurnsAdvance
<1> DEFINE I == rest \in Nat /\ Len(text) \in Nat
<1>1. ScannerInit => I
    <2> SUFFICES ASSUME ScannerInit PROVE I
        OBVIOUS
    <2>1. segments \in Seq(Reference \cup {Literal})
        BY SegmentsAreSeq
    <2>2. Texts \in Seq(Seq(Token))
        <3> DEFINE S == Reference \cup {Literal}
        <3>1. \A s \in S : Text(s) \in Seq(Token)
            BY TextIsSeq
        <3> HIDE DEF S
        <3>2. DOMAIN segments = 1 .. Len(segments) /\ Len(segments) \in Nat
            BY <2>1
        <3>3. \A i \in 1 .. Len(segments) : Text(segments[i]) \in Seq(Token)
            BY <2>1, <3>1, <3>2 DEF S
        <3>4. Texts = [i \in 1 .. Len(segments) |-> Text(segments[i])]
            BY <3>2 DEF Texts
        <3> QED BY <3>2, <3>3, <3>4
    <2>3. text \in Seq(Token)
        BY <2>2, FlattenLayout DEF ScannerInit, Texts
    <2>4. rest = 1 /\ Len(text) \in Nat
        BY <2>3 DEF ScannerInit
    <2> QED BY <2>4
<1>2. I /\ [ScannerNext]_scannerVars => I' /\ [scanning' => rest' > rest]_scannerVars
    BY TurnAdvances DEF ScannerNext, Stop, Scan, scannerVars
<1> QED BY <1>1, <1>2, PTL DEF ScannerSpec, TurnsAdvance
================================================================================
