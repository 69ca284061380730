---------------------------- MODULE QueryStringProofs ----------------------------
(***************************************************************************)
(* Proofs about QueryString, for any bytes, keys, texts and URLs.          *)
(*                                                                         *)
(* An upstream reads a query byte by byte, so what it has read of s \o t is *)
(* what it reads of t from where it is after s (ReadConcat).  From there:  *)
(* a byte that was escaped is read as it was, so is a text, so is a pair,  *)
(* and so are the pairs of an object, from any separator on (ReadBuilt),   *)
(* be it the beginning or the end of the operator's own query.             *)
(***************************************************************************)
EXTENDS QueryString, SequenceLemmas

(***************************************************************************)
(* Reading, byte by byte                                                   *)
(***************************************************************************)

\* R holds what the reader knows after each byte of q.
Run(R, r, q) ==
    /\ R[0] = r
    /\ \A i \in 0 .. Len(q) - 1 : R[i + 1] = ReadByte(R[i], q[i + 1])

\* Every sequence is read to some state after each of its bytes.
LEMMA RunExists ==
    ASSUME NEW r, NEW q, Len(q) \in Nat
    PROVE  \E R : Run(R, r, q)
<1> DEFINE Upto(R, n) == R[0] = r /\ \A i \in 0 .. n - 1 : R[i + 1] = ReadByte(R[i], q[i + 1])
           S == {n \in Nat : \E R : Upto(R, n)}
<1> HIDE DEF Upto
<1>1. 0 \in S
    <2> DEFINE G == [i \in 0 .. 0 |-> r]
    <2>1. Upto(G, 0)
        BY DEF Upto
    <2> QED BY <2>1
<1>2. ASSUME NEW n \in Nat, n \in S PROVE n + 1 \in S
    <2>1. PICK R : Upto(R, n)
        BY <1>2
    <2> DEFINE next == ReadByte(R[n], q[n + 1])
               G == [i \in 0 .. n + 1 |-> IF i = n + 1 THEN next ELSE R[i]]
    <2> HIDE DEF next
    <2>2. G[0] = r
        BY <2>1 DEF Upto
    <2>3. ASSUME NEW i \in 0 .. (n + 1) - 1 PROVE G[i + 1] = ReadByte(G[i], q[i + 1])
        <3>1. CASE i = n
            <4>1. G[n + 1] = next /\ G[n] = R[n]
                OBVIOUS
            <4> QED BY <3>1, <4>1, Zenon DEF next
        <3>2. CASE i # n
            <4>1. i \in 0 .. n - 1
                BY <3>2
            <4>2. R[i + 1] = ReadByte(R[i], q[i + 1])
                BY <2>1, <4>1, Zenon DEF Upto
            <4>3. G[i + 1] = R[i + 1] /\ G[i] = R[i]
                BY <4>1
            <4> QED BY <4>2, <4>3, Zenon
        <3> QED BY <3>1, <3>2
    <2> HIDE DEF G
    <2>4. Upto(G, n + 1)
        BY <2>2, <2>3 DEF Upto
    <2> QED BY <2>4
<1>3. Nat \subseteq S
    <2> HIDE DEF S
    <2> QED BY <1>1, <1>2, SetInduction, Zenon
<1>4. PICK R : Upto(R, Len(q))
    BY <1>3
<1> QED BY <1>4 DEF Upto, Run

\* ReadFrom is what it ends with.
LEMMA RunIs ==
    ASSUME NEW r, NEW q, Len(q) \in Nat, NEW R, Run(R, r, q)
    PROVE  ReadFrom(r, q) = R[Len(q)]
<1> DEFINE n == Len(q)
           Body(g) == [i \in 0 .. n |-> IF i = 0 THEN r ELSE ReadByte(g[i - 1], q[i])]
           H == [i \in 0 .. n |-> R[i]]
           run == CHOOSE g : g = Body(g)
<1>1. H = Body(H)
    <2>1. ASSUME NEW i \in 0 .. n, i # 0 PROVE H[i] = ReadByte(H[i - 1], q[i])
        <3>1. i - 1 \in 0 .. n - 1 /\ (i - 1) + 1 = i /\ i - 1 \in 0 .. n
            BY <2>1
        <3>2. R[(i - 1) + 1] = ReadByte(R[i - 1], q[(i - 1) + 1])
            BY <3>1, Zenon DEF Run
        <3>3. H[i] = R[i] /\ H[i - 1] = R[i - 1]
            BY <3>1
        <3> QED BY <3>1, <3>2, <3>3, Zenon
    <2>2. H[0] = r
        BY DEF Run
    <2>3. H = [i \in 0 .. n |-> H[i]]
        OBVIOUS
    <2> HIDE DEF H
    <2> QED BY <2>1, <2>2, <2>3
<1>2. run = Body(run)
    <2> HIDE DEF Body
    <2> QED BY <1>1
<1>3. ReadFrom(r, q) = run[n]
    BY DEF ReadFrom
<1> HIDE DEF run, H
<1> DEFINE S == {i \in Nat : i \in 0 .. n => run[i] = R[i]}
<1>4. 0 \in S
    <2>1. run[0] = r
        BY <1>2
    <2> QED BY <2>1 DEF Run
<1>5. ASSUME NEW i \in Nat, i \in S PROVE i + 1 \in S
    <2> SUFFICES ASSUME i + 1 \in 0 .. n PROVE run[i + 1] = R[i + 1]
        OBVIOUS
    <2>1. run[i] = R[i]
        BY <1>5
    <2>2. run[i + 1] = ReadByte(run[i], q[i + 1])
        <3> DEFINE k == i + 1
        <3>1. k \in 0 .. n /\ k # 0 /\ k - 1 = i
            OBVIOUS
        <3> HIDE DEF k
        <3>2. run[k] = ReadByte(run[k - 1], q[k])
            BY <1>2, <3>1
        <3> QED BY <3>1, <3>2, Zenon DEF k
    <2>3. R[i + 1] = ReadByte(R[i], q[i + 1])
        <3>1. i \in 0 .. n - 1
            OBVIOUS
        <3> QED BY <3>1, Zenon DEF Run
    <2> QED BY <2>1, <2>2, <2>3, Zenon
<1>6. Nat \subseteq S
    <2> HIDE DEF S
    <2> QED BY <1>4, <1>5, SetInduction, Zenon
<1> QED BY <1>3, <1>6

\* Nothing is read from nothing.
LEMMA ReadEmpty == ASSUME NEW r PROVE ReadFrom(r, <<>>) = r
<1> DEFINE q == <<>>
<1>1. Len(q) = 0 /\ Len(q) \in Nat
    OBVIOUS
<1> HIDE DEF q
<1>2. PICK R : Run(R, r, q)
    BY <1>1, RunExists
<1>3. ReadFrom(r, q) = R[0] /\ R[0] = r
    BY <1>1, <1>2, RunIs DEF Run
<1> QED BY <1>3 DEF q

\* A sequence is read as its parts are, one after the other.
LEMMA ReadConcat ==
    ASSUME NEW T, NEW s \in Seq(T), NEW t \in Seq(T), NEW r
    PROVE  ReadFrom(r, s \o t) = ReadFrom(ReadFrom(r, s), t)
<1> DEFINE q == s \o t
           m == Len(s)
           n == Len(t)
<1>1. /\ m \in Nat /\ n \in Nat /\ Len(q) = m + n
      /\ \A k \in 1 .. m : q[k] = s[k]
      /\ \A k \in 1 .. n : q[m + k] = t[k]
    BY ConcatTells
<1> HIDE DEF q
<1>2. Len(q) \in Nat
    BY <1>1
<1>3. PICK R : Run(R, r, q)
    BY <1>2, RunExists
<1>4. Run(R, r, s)
    <2>1. ASSUME NEW i \in 0 .. m - 1 PROVE R[i + 1] = ReadByte(R[i], s[i + 1])
        <3>1. i \in 0 .. Len(q) - 1 /\ i + 1 \in 1 .. m
            BY <1>1
        <3>2. R[i + 1] = ReadByte(R[i], q[i + 1])
            BY <1>3, <3>1, Zenon DEF Run
        <3> QED BY <1>1, <3>1, <3>2, Zenon
    <2> QED BY <1>3, <2>1 DEF Run
<1>5. ReadFrom(r, s) = R[m]
    BY <1>1, <1>4, RunIs
<1> DEFINE G == [i \in 0 .. n |-> R[m + i]]
<1>6. Run(G, R[m], t)
    <2>1. ASSUME NEW i \in 0 .. n - 1 PROVE G[i + 1] = ReadByte(G[i], t[i + 1])
        <3>1. m + i \in 0 .. Len(q) - 1 /\ i + 1 \in 1 .. n /\ (m + i) + 1 = m + (i + 1)
            BY <1>1
        <3>2. R[(m + i) + 1] = ReadByte(R[m + i], q[(m + i) + 1])
            BY <1>3, <3>1, Zenon DEF Run
        <3>3. q[m + (i + 1)] = t[i + 1]
            BY <1>1, <3>1, Zenon
        <3>4. G[i + 1] = R[m + (i + 1)] /\ G[i] = R[m + i]
            BY <1>1
        <3> QED BY <3>1, <3>2, <3>3, <3>4, Zenon
    <2>2. G[0] = R[m]
        BY <1>1
    <2> HIDE DEF G
    <2> QED BY <2>1, <2>2 DEF Run
<1>7. G[n] = R[m + n]
    BY <1>1
<1> HIDE DEF G
<1>8. ReadFrom(R[m], t) = G[n]
    BY <1>1, <1>6, RunIs
<1>9. ReadFrom(r, q) = R[m + n]
    BY <1>1, <1>2, <1>3, RunIs
<1> QED BY <1>5, <1>7, <1>8, <1>9 DEF q

\* A sequence of one byte is read as that byte.
LEMMA ReadOne == ASSUME NEW r, NEW b PROVE ReadFrom(r, <<b>>) = ReadByte(r, b)
<1> DEFINE q == <<b>>
<1>1. Len(q) = 1 /\ Len(q) \in Nat /\ q[1] = b
    OBVIOUS
<1> HIDE DEF q
<1>2. PICK R : Run(R, r, q)
    BY <1>1, RunExists
<1>3. ReadFrom(r, q) = R[1] /\ R[0] = r
    BY <1>1, <1>2, RunIs DEF Run
<1>4. R[0 + 1] = ReadByte(R[0], q[0 + 1])
    <2>1. 0 \in 0 .. Len(q) - 1
        BY <1>1
    <2> QED BY <1>2, <2>1, Zenon DEF Run
<1>5. 0 + 1 = 1
    OBVIOUS
<1> QED BY <1>1, <1>3, <1>4, <1>5, Zenon DEF q

-----------------------------------------------------------------------------
(***************************************************************************)
(* Reading a text that has been escaped                                    *)
(***************************************************************************)

\* The reader between two bytes, in no escape.
State(p, n, v, a) == [pairs |-> p, name |-> n, value |-> v, at |-> a, esc |-> None]

\* It has read x as a value, or as a name.
Having(p, n, a, x) ==
    IF a = "value" THEN State(p, n, x, "value")
    ELSE State(p, x, <<>>, IF x = <<>> THEN "start" ELSE "name")

\* In an escape, of which it has read e.
Escaping(r, e) == [r EXCEPT !.esc = e]

\* Where a piece begins, nothing of it has been read.
LEMMA StartIs == ASSUME NEW p PROVE Start(p) = State(p, <<>>, <<>>, "start")
BY DEF Start, State

\* A byte goes to the value, or else to the name, and ends an escape.
LEMMA PutInto ==
    ASSUME NEW p, NEW n, NEW v, NEW at, NEW e, NEW b, NEW q,
           q = [pairs |-> p, name |-> n, value |-> v, at |-> at, esc |-> e]
    PROVE  /\ at = "value" => Put(q, b) = State(p, n, Append(v, b), "value")
           /\ at # "value" => Put(q, b) = State(p, Append(n, b), v, "name")
<1>1. CASE at = "value"
    BY <1>1 DEF Put, State
<1>2. CASE at # "value"
    BY <1>2 DEF Put, State
<1> QED BY <1>1, <1>2

\* The same, in an escape or not.
LEMMA PutIs ==
    ASSUME NEW p, NEW n, NEW v, NEW at, NEW e, NEW b
    PROVE  /\ at = "value" => Put(Escaping(State(p, n, v, at), e), b) = State(p, n, Append(v, b), "value")
           /\ at # "value" => Put(Escaping(State(p, n, v, at), e), b) = State(p, Append(n, b), v, "name")
<1> DEFINE q == Escaping(State(p, n, v, at), e)
<1>1. q = [pairs |-> p, name |-> n, value |-> v, at |-> at, esc |-> e]
    BY DEF State, Escaping
<1> HIDE DEF q
<1>2. /\ at = "value" => Put(q, b) = State(p, n, Append(v, b), "value")
      /\ at # "value" => Put(q, b) = State(p, Append(n, b), v, "name")
    BY <1>1, PutInto
<1> QED BY <1>2 DEF q

\* A byte is added to what the reader has.
LEMMA PutAdds ==
    ASSUME NEW p, NEW n, NEW a \in {"start", "value"}, NEW x \in Seq(Byte), NEW b \in Byte, NEW e
    PROVE  Put(Escaping(Having(p, n, a, x), e), b) = Having(p, n, a, Append(x, b))
<1>1. Append(x, b) # <<>>
    <2>1. Len(Append(x, b)) = Len(x) + 1 /\ Len(x) \in Nat
        OBVIOUS
    <2>2. Len(x) + 1 # 0
        BY <2>1
    <2>3. Len(<<>>) = 0
        OBVIOUS
    <2> QED BY <2>1, <2>2, <2>3, Zenon
<1>2. CASE a = "value"
    <2>1. Having(p, n, a, x) = State(p, n, x, "value")
        BY <1>2, Zenon DEF Having
    <2>3. Put(Escaping(State(p, n, x, "value"), e), b) = State(p, n, Append(x, b), "value")
        BY PutIs
    <2>4. Having(p, n, a, Append(x, b)) = State(p, n, Append(x, b), "value")
        BY <1>2, Zenon DEF Having
    <2> QED BY <2>1, <2>3, <2>4, Zenon
<1>3. CASE a = "start"
    <2> DEFINE at == IF x = <<>> THEN "start" ELSE "name"
    <2>1. Having(p, n, a, x) = State(p, x, <<>>, at) /\ at # "value"
        BY <1>3 DEF Having
    <2> HIDE DEF at
    <2>3. Put(Escaping(State(p, x, <<>>, at), e), b) = State(p, Append(x, b), <<>>, "name")
        BY <2>1, PutIs
    <2>4. Having(p, n, a, Append(x, b)) = State(p, Append(x, b), <<>>, "name")
        BY <1>1, <1>3 DEF Having
    <2> QED BY <2>1, <2>3, <2>4, Zenon
<1> QED BY <1>2, <1>3

\* percent_encode, byte by byte (exec.rs:83-93).
Escaped(b) == IF b \in DOMAIN Hex THEN <<"%">> \o Hex[b] ELSE <<b>>

\* A byte that is not escaped is read as it is,
LEMMA ReadPlain ==
    ASSUME NEW p, NEW n, NEW a \in {"start", "value"}, NEW x \in Seq(Byte),
           NEW b \in Byte, b \notin DOMAIN Hex
    PROVE  ReadFrom(Having(p, n, a, x), Escaped(b)) = Having(p, n, a, Append(x, b))
<1> DEFINE r == Having(p, n, a, x)
<1>1. b \notin {"&", "=", "+", "%"}
    BY HexAssumption
<1>2. r.esc = None /\ r = Escaping(r, None)
    BY DEF Having, State, Escaping
<1>3. None # <<>>
    BY QueryAssumption, EmptySeq
<1>0. Put(r, b) = Having(p, n, a, Append(x, b))
    <2>1. a \in {"start", "value"} /\ x \in Seq(Byte) /\ b \in Byte
        OBVIOUS
    <2> QED BY <1>2, <2>1, PutAdds
<1> HIDE DEF r
<1>4. ReadByte(r, b) = Put(r, b)
    BY <1>1, <1>2, <1>3, Zenon DEF ReadByte
<1>5. ReadFrom(r, <<b>>) = Having(p, n, a, Append(x, b))
    BY <1>0, <1>4, ReadOne
<1> QED BY <1>5 DEF r, Escaped

\* and one that is escaped is read as it was.
LEMMA ReadEscaped ==
    ASSUME NEW p, NEW n, NEW a \in {"start", "value"}, NEW x \in Seq(Byte),
           NEW b \in DOMAIN Hex
    PROVE  ReadFrom(Having(p, n, a, x), Escaped(b)) = Having(p, n, a, Append(x, b))
<1> DEFINE r == Having(p, n, a, x)
           c == Hex[b][1]
           d == Hex[b][2]
<1>1. /\ Hex[b] \in Seq(Byte \ DOMAIN Hex) /\ Len(Hex[b]) = 2
      /\ "%" \in DOMAIN Hex /\ "%" \in Byte
    BY HexAssumption
<1>2. c \in Byte \ DOMAIN Hex /\ d \in Byte \ DOMAIN Hex
    <2>1. 1 \in 1 .. Len(Hex[b]) /\ 2 \in 1 .. Len(Hex[b])
        BY <1>1
    <2> QED BY <1>1, <2>1, ElementOfSeq
<1>3. Hex[b] = <<c>> \o <<d>> /\ Hex[b] = Append(<<c>>, d)
    BY <1>1, <1>2
<1>4. /\ c \notin {"&", "=", "+", "%"} /\ d \notin {"&", "=", "+", "%"}
    BY <1>2, HexAssumption
<1>5. r.esc = None /\ DOMAIN r = {"pairs", "name", "value", "at", "esc"}
    BY DEF Having, State
<1>6. None # <<>> /\ None # <<c>> /\ <<c>> # <<>>
    <2>1. <<c>> \in Seq(Byte) /\ <<>> \in Seq(Byte)
        BY <1>2
    <2> QED BY <2>1, QueryAssumption
<1>0. b \in Byte
    BY HexAssumption
<1>12. ASSUME NEW e PROVE Put(Escaping(r, e), b) = Having(p, n, a, Append(x, b))
    <2> DEFINE q == Escaping(r, e)
    <2>1. a \in {"start", "value"} /\ x \in Seq(Byte) /\ q = Escaping(Having(p, n, a, x), e)
        OBVIOUS
    <2> HIDE DEF q
    <2>2. Put(q, b) = Having(p, n, a, Append(x, b))
        BY <1>0, <2>1, PutAdds
    <2> QED BY <2>2 DEF q
<1> HIDE DEF r, c, d
<1> DEFINE r1 == [r EXCEPT !.esc = <<>>]
           r2 == [r EXCEPT !.esc = <<c>>]
<1>7. ReadByte(r, "%") = r1
    BY <1>5, <1>6, Zenon DEF ReadByte
<1>8. r1.esc = <<>> /\ [r1 EXCEPT !.esc = <<c>>] = r2 /\ r2.esc = <<c>>
    BY <1>5
<1> HIDE DEF r1
<1>9. ReadByte(r1, c) = r2
    BY <1>4, <1>6, <1>8, Zenon DEF ReadByte
<1> HIDE DEF r2
<1>10. ReadByte(r2, d) = Put(r2, Unhex(Hex[b]))
    BY <1>3, <1>4, <1>6, <1>8, Zenon DEF ReadByte
<1>11. Unhex(Hex[b]) = b
    BY HexAssumption, Zenon DEF Unhex
<1>13. Put(r2, b) = Having(p, n, a, Append(x, b))
    BY <1>12 DEF r2, Escaping
<1>14. <<"%">> \in Seq(Byte) /\ <<c>> \in Seq(Byte) /\ <<d>> \in Seq(Byte)
    BY <1>1, <1>2
<1>15. ReadFrom(r, <<"%">> \o (<<c>> \o <<d>>)) = Having(p, n, a, Append(x, b))
    <2>1. ReadFrom(r, <<"%">>) = r1
        BY <1>7, ReadOne
    <2>2. ReadFrom(r1, <<c>> \o <<d>>) = ReadFrom(ReadFrom(r1, <<c>>), <<d>>)
        BY <1>14, ReadConcat
    <2>3. ReadFrom(r1, <<c>>) = r2 /\ ReadFrom(r2, <<d>>) = Having(p, n, a, Append(x, b))
        BY <1>9, <1>10, <1>11, <1>13, ReadOne
    <2>4. <<c>> \o <<d>> \in Seq(Byte)
        BY <1>14
    <2>5. ReadFrom(r, <<"%">> \o (<<c>> \o <<d>>)) = ReadFrom(ReadFrom(r, <<"%">>), <<c>> \o <<d>>)
        BY <1>14, <2>4, ReadConcat
    <2> QED BY <2>1, <2>2, <2>3, <2>5, Zenon
<1> QED BY <1>3, <1>15 DEF r, Escaped

\* So a byte is read as it was, escaped or not.
LEMMA ReadEither ==
    ASSUME NEW p, NEW n, NEW a \in {"start", "value"}, NEW x \in Seq(Byte), NEW b \in Byte
    PROVE  ReadFrom(Having(p, n, a, x), Escaped(b)) = Having(p, n, a, Append(x, b))
<1>1. CASE b \in DOMAIN Hex
    BY <1>1, ReadEscaped
<1>2. CASE b \notin DOMAIN Hex
    BY <1>2, ReadPlain
<1> QED BY <1>1, <1>2

\* What percent_encode writes is read as the text it was given.
LEMMA ReadEncoded ==
    ASSUME NEW p, NEW n, NEW a \in {"start", "value"}, NEW text \in Seq(Byte)
    PROVE  /\ percent_encode(text) \in Seq(Byte)
           /\ ReadFrom(Having(p, n, a, <<>>), percent_encode(text)) = Having(p, n, a, text)
<1> DEFINE m == Len(text)
           ss == [i \in 1 .. m |-> Escaped(text[i])]
           x(i) == SubSeq(text, 1, i)
<1>1. m \in Nat /\ DOMAIN text = 1 .. m
    OBVIOUS
<1>2. percent_encode(text) = FlattenSeq(ss)
    <2>1. ss = [i \in DOMAIN text |->
                    IF text[i] \in DOMAIN Hex THEN <<"%">> \o Hex[text[i]] ELSE <<text[i]>>]
        BY <1>1, Zenon DEF Escaped
    <2> QED BY <2>1, Zenon DEF percent_encode
<1>3. ASSUME NEW b \in Byte PROVE Escaped(b) \in Seq(Byte)
    <2>1. CASE b \in DOMAIN Hex
        <3>1. Hex[b] \in Seq(Byte \ DOMAIN Hex) /\ "%" \in Byte
            BY <2>1, HexAssumption
        <3>2. Hex[b] \in Seq(Byte) /\ <<"%">> \in Seq(Byte)
            BY <3>1
        <3> DEFINE u == <<"%">>
        <3> HIDE DEF u
        <3>3. u \o Hex[b] \in Seq(Byte)
            BY <3>2 DEF u
        <3> QED BY <2>1, <3>3 DEF Escaped, u
    <2>2. CASE b \notin DOMAIN Hex
        BY <2>2 DEF Escaped
    <2> QED BY <2>1, <2>2
<1>4. \A i \in 1 .. m : text[i] \in Byte
    BY <1>1
<1>5. ss \in Seq(Seq(Byte)) /\ Len(ss) = m /\ \A i \in 1 .. m : ss[i] = Escaped(text[i])
    <2>1. \A i \in 1 .. m : Escaped(text[i]) \in Seq(Byte)
        BY <1>3, <1>4
    <2> QED BY <1>1, <2>1
<1> HIDE DEF ss, m, x
<1>6. PICK F \in [0 .. m -> Seq(Byte)] : Sums(F, ss)
    BY <1>5, SumsExist
<1>7. percent_encode(text) = F[m] /\ F[m] \in Seq(Byte)
    <2>1. F \in [0 .. Len(ss) -> Seq(Byte)]
        BY <1>5, <1>6
    <2>2. FlattenSeq(ss) = F[Len(ss)]
        BY <1>5, <1>6, <2>1, FlattenIsLast
    <2> QED BY <1>1, <1>2, <1>5, <1>6, <2>2
<1> DEFINE r == Having(p, n, a, <<>>)
           S == {i \in Nat : i \in 0 .. m => ReadFrom(r, F[i]) = Having(p, n, a, x(i))}
<1>8. 0 \in S
    <2>1. F[0] = <<>> /\ x(0) = <<>>
        BY <1>6, Beginnings, Zenon DEF Sums, x
    <2>2. ReadFrom(r, F[0]) = Having(p, n, a, x(0))
        BY <2>1, ReadEmpty, Zenon
    <2> QED BY <2>2
<1>9. ASSUME NEW i \in Nat, i \in S PROVE i + 1 \in S
    <2> SUFFICES ASSUME i + 1 \in 0 .. m
                 PROVE  ReadFrom(r, F[i + 1]) = Having(p, n, a, x(i + 1))
        OBVIOUS
    <2>1. i \in 0 .. m - 1 /\ i \in 0 .. m /\ i + 1 \in 1 .. m
        BY <1>1
    <2>2. ReadFrom(r, F[i]) = Having(p, n, a, x(i))
        BY <1>9, <2>1
    <2> DEFINE b == text[i + 1]
    <2>3. F[i + 1] = F[i] \o Escaped(b)
        BY <1>5, <1>6, <2>1, Zenon DEF Sums
    <2>4. /\ x(i) \in Seq(Byte) /\ b \in Byte /\ x(i + 1) = Append(x(i), b)
        BY <2>1, Beginnings DEF x, m
    <2> HIDE DEF r, b
    <2>5. ReadFrom(r, F[i] \o Escaped(b)) = ReadFrom(ReadFrom(r, F[i]), Escaped(b))
        <3>1. F[i] \in Seq(Byte) /\ Escaped(b) \in Seq(Byte)
            BY <1>3, <2>1, <2>4
        <3> QED BY <3>1, ReadConcat
    <2>6. ReadFrom(Having(p, n, a, x(i)), Escaped(b)) = Having(p, n, a, Append(x(i), b))
        <3> DEFINE y == x(i)
        <3>0. a \in {"start", "value"} /\ y \in Seq(Byte) /\ b \in Byte
            BY <2>4
        <3> HIDE DEF y
        <3>1. ReadFrom(Having(p, n, a, y), Escaped(b)) = Having(p, n, a, Append(y, b))
            BY <3>0, ReadEither
        <3> QED BY <3>1 DEF y
    <2> QED BY <2>2, <2>3, <2>4, <2>5, <2>6, Zenon
<1>10. Nat \subseteq S
    <2> HIDE DEF S
    <2> QED BY <1>8, <1>9, SetInduction, Zenon
<1>11. ReadFrom(r, F[m]) = Having(p, n, a, x(m))
    BY <1>1, <1>10
<1>12. x(m) = text
    BY Beginnings DEF x, m
<1> QED BY <1>7, <1>11, <1>12, Zenon

-----------------------------------------------------------------------------
(***************************************************************************)
(* Reading a query that was built                                          *)
(***************************************************************************)

\* A pair as build_query_string joins it, behind its separator.
Segment(k, v) == <<"&">> \o percent_encode(k) \o <<"=">> \o percent_encode(v)

\* At a separator the reader has read P; one pair later, that pair too.
LEMMA ReadPair ==
    ASSUME NEW P, NEW k \in Seq(Byte), NEW v \in Seq(Byte),
           NEW r, ReadByte(r, "&") = Start(P)
    PROVE  /\ Segment(k, v) \in Seq(Byte)
           /\ ReadByte(ReadFrom(r, Segment(k, v)), "&") = Start(Append(P, <<k, v>>))
<1> DEFINE ek == percent_encode(k)
           ev == percent_encode(v)
           amp == <<"&">>
           eq == <<"=">>
<1>1. ek \in Seq(Byte) /\ ReadFrom(Having(P, <<>>, "start", <<>>), ek) = Having(P, <<>>, "start", k)
    BY ReadEncoded
<1>2. ev \in Seq(Byte) /\ ReadFrom(Having(P, k, "value", <<>>), ev) = Having(P, k, "value", v)
    BY ReadEncoded
<1>3. amp \in Seq(Byte) /\ eq \in Seq(Byte)
    BY HexAssumption
<1>4. ReadFrom(r, amp) = Having(P, <<>>, "start", <<>>)
    <2>1. ReadFrom(r, amp) = Start(P)
        BY ReadOne
    <2>2. Start(P) = Having(P, <<>>, "start", <<>>)
        BY StartIs DEF Having
    <2> QED BY <2>1, <2>2, Zenon
<1>5. ReadFrom(Having(P, <<>>, "start", k), eq) = Having(P, k, "value", <<>>)
    <2> DEFINE q == Having(P, <<>>, "start", k)
               at == IF k = <<>> THEN "start" ELSE "name"
    <2>1. q = State(P, k, <<>>, at) /\ at # "value"
        BY DEF Having
    <2>2. Having(P, k, "value", <<>>) = State(P, k, <<>>, "value")
        BY DEF Having
    <2> HIDE DEF q, at
    <2>3. q.at # "value" /\ Whole(q) = q /\ [q EXCEPT !.at = "value"] = State(P, k, <<>>, "value")
        BY <2>1 DEF State, Whole
    <2>4. ReadByte(q, "=") = [Whole(q) EXCEPT !.at = "value"]
        BY <2>3 DEF ReadByte
    <2>5. ReadByte(q, "=") = State(P, k, <<>>, "value")
        BY <2>3, <2>4, Zenon
    <2>6. ReadFrom(q, eq) = ReadByte(q, "=")
        BY ReadOne
    <2> QED BY <2>2, <2>5, <2>6 DEF q
<1>6. ReadByte(Having(P, k, "value", v), "&") = Start(Append(P, <<k, v>>))
    <2> DEFINE q == Having(P, k, "value", v)
    <2>1. q = State(P, k, v, "value")
        BY DEF Having
    <2> HIDE DEF q
    <2>2. q.at # "start" /\ Whole(q) = q /\ q.pairs = P /\ q.name = k /\ q.value = v
        BY <2>1 DEF State, Whole
    <2>3. Close(q) = Append(P, <<k, v>>)
        BY <2>2, Zenon DEF Close
    <2> QED BY <2>2, <2>3, Zenon DEF ReadByte, q
<1>7. Segment(k, v) = ((amp \o ek) \o eq) \o ev
    BY Zenon DEF Segment
<1> HIDE DEF ek, ev, amp, eq
<1>8. amp \o ek \in Seq(Byte) /\ (amp \o ek) \o eq \in Seq(Byte)
      /\ ((amp \o ek) \o eq) \o ev \in Seq(Byte)
    BY <1>1, <1>2, <1>3
<1>9. ReadFrom(r, amp \o ek) = Having(P, <<>>, "start", k)
    BY <1>1, <1>3, <1>4, ReadConcat
<1>10. ReadFrom(r, (amp \o ek) \o eq) = Having(P, k, "value", <<>>)
    <2> DEFINE s == amp \o ek
    <2>1. s \in Seq(Byte) /\ eq \in Seq(Byte)
        BY <1>3, <1>8
    <2> HIDE DEF s
    <2>2. ReadFrom(r, s \o eq) = ReadFrom(ReadFrom(r, s), eq)
        BY <2>1, ReadConcat
    <2> QED BY <1>5, <1>9, <2>2, Zenon DEF s
<1>11. ReadFrom(r, ((amp \o ek) \o eq) \o ev) = Having(P, k, "value", v)
    <2> DEFINE s == (amp \o ek) \o eq
    <2>1. s \in Seq(Byte) /\ ev \in Seq(Byte)
        BY <1>2, <1>8
    <2> HIDE DEF s
    <2>2. ReadFrom(r, s \o ev) = ReadFrom(ReadFrom(r, s), ev)
        BY <2>1, ReadConcat
    <2> QED BY <1>2, <1>10, <2>2, Zenon DEF s
<1> QED BY <1>6, <1>7, <1>8, <1>11, Zenon

\* The pairs, joined, each behind its separator.
Joined(pairs) ==
    FlattenSeq([i \in DOMAIN pairs |->
        <<"&">> \o percent_encode(pairs[i][1]) \o <<"=">> \o percent_encode(pairs[i][2])])

\* From any separator on, they are read as they are.
LEMMA ReadJoined ==
    ASSUME NEW pairs \in Seq(Seq(Byte) \X Seq(Byte)), NEW P \in Seq(Seq(Byte) \X Seq(Byte)),
           NEW r, ReadByte(r, "&") = Start(P)
    PROVE  /\ Joined(pairs) \in Seq(Byte)
           /\ ReadByte(ReadFrom(r, Joined(pairs)), "&") = Start(P \o pairs)
<1> DEFINE m == Len(pairs)
           ss == [i \in 1 .. m |-> Segment(pairs[i][1], pairs[i][2])]
           x(i) == SubSeq(pairs, 1, i)
<1>1. m \in Nat /\ DOMAIN pairs = 1 .. m
    OBVIOUS
<1>2. Joined(pairs) = FlattenSeq(ss)
    BY <1>1 DEF Joined, Segment
<1>3. ASSUME NEW i \in 1 .. m
      PROVE  /\ pairs[i] = <<pairs[i][1], pairs[i][2]>>
             /\ pairs[i][1] \in Seq(Byte) /\ pairs[i][2] \in Seq(Byte)
    <2>1. pairs[i] \in Seq(Byte) \X Seq(Byte)
        BY <1>1
    <2> QED BY <2>1
<1>4. ss \in Seq(Seq(Byte)) /\ Len(ss) = m /\ \A i \in 1 .. m : ss[i] = Segment(pairs[i][1], pairs[i][2])
    <2>1. \A i \in 1 .. m : Segment(pairs[i][1], pairs[i][2]) \in Seq(Byte)
        <3> TAKE i \in 1 .. m
        <3> DEFINE k == pairs[i][1]
                   v == pairs[i][2]
        <3>1. k \in Seq(Byte) /\ v \in Seq(Byte)
            BY <1>3
        <3> HIDE DEF k, v
        <3>2. Segment(k, v) \in Seq(Byte)
            BY <3>1, ReadPair
        <3> QED BY <3>2 DEF k, v
    <2> QED BY <1>1, <2>1
<1> HIDE DEF ss, m, x
<1>5. PICK F \in [0 .. m -> Seq(Byte)] : Sums(F, ss)
    BY <1>4, SumsExist
<1>6. Joined(pairs) = F[m] /\ F[m] \in Seq(Byte)
    <2>1. F \in [0 .. Len(ss) -> Seq(Byte)]
        BY <1>4, <1>5
    <2>2. FlattenSeq(ss) = F[Len(ss)]
        BY <1>4, <1>5, <2>1, FlattenIsLast
    <2> QED BY <1>1, <1>2, <1>4, <1>5, <2>2
<1> DEFINE S == {i \in Nat : i \in 0 .. m => ReadByte(ReadFrom(r, F[i]), "&") = Start(P \o x(i))}
<1>7. 0 \in S
    <2>1. F[0] = <<>> /\ x(0) = <<>>
        BY <1>5, Beginnings, Zenon DEF Sums, x
    <2>2. P \o x(0) = P
        BY <2>1
    <2>3. ReadByte(ReadFrom(r, F[0]), "&") = Start(P \o x(0))
        BY <2>1, <2>2, ReadEmpty, Zenon
    <2> QED BY <2>3
<1>8. ASSUME NEW i \in Nat, i \in S PROVE i + 1 \in S
    <2> SUFFICES ASSUME i + 1 \in 0 .. m
                 PROVE  ReadByte(ReadFrom(r, F[i + 1]), "&") = Start(P \o x(i + 1))
        OBVIOUS
    <2>1. i \in 0 .. m - 1 /\ i \in 0 .. m /\ i + 1 \in 1 .. m
        BY <1>1
    <2>2. ReadByte(ReadFrom(r, F[i]), "&") = Start(P \o x(i))
        BY <1>8, <2>1
    <2> DEFINE k == pairs[i + 1][1]
               v == pairs[i + 1][2]
    <2>3. F[i + 1] = F[i] \o Segment(k, v)
        BY <1>4, <1>5, <2>1, Zenon DEF Sums
    <2>4. k \in Seq(Byte) /\ v \in Seq(Byte) /\ pairs[i + 1] = <<k, v>>
        BY <1>3, <2>1
    <2>5. x(i) \in Seq(Seq(Byte) \X Seq(Byte)) /\ x(i + 1) = Append(x(i), pairs[i + 1])
        BY <2>1, Beginnings DEF x, m
    <2> HIDE DEF k, v
    <2>6. /\ Segment(k, v) \in Seq(Byte)
          /\ ReadByte(ReadFrom(ReadFrom(r, F[i]), Segment(k, v)), "&") = Start(Append(P \o x(i), <<k, v>>))
        BY <2>2, <2>4, ReadPair
    <2>7. ReadFrom(r, F[i] \o Segment(k, v)) = ReadFrom(ReadFrom(r, F[i]), Segment(k, v))
        <3>1. F[i] \in Seq(Byte)
            BY <2>1
        <3> QED BY <2>6, <3>1, ReadConcat
    <2>8. Append(P \o x(i), <<k, v>>) = P \o x(i + 1)
        <3> DEFINE y == x(i)
                   e == <<k, v>>
                   Pr == Seq(Byte) \X Seq(Byte)
        <3>1. P \in Seq(Pr) /\ y \in Seq(Pr) /\ e \in Pr
            BY <2>4, <2>5
        <3> HIDE DEF y, e, Pr
        <3>2. Append(P \o y, e) = P \o Append(y, e)
            <4>1. /\ Append(P \o y, e) = (P \o y) \o <<e>>
                  /\ Append(y, e) = y \o <<e>>
                BY <3>1, AppendIsConcat, ConcatProperties
            <4>2. (P \o y) \o <<e>> = P \o (y \o <<e>>)
                BY <3>1, ConcatAssociative
            <4> QED BY <4>1, <4>2, Zenon
        <3> QED BY <2>4, <2>5, <3>2 DEF y, e
    <2> QED BY <2>3, <2>6, <2>7, <2>8, Zenon
<1>9. Nat \subseteq S
    <2> HIDE DEF S
    <2> QED BY <1>7, <1>8, SetInduction, Zenon
<1>10. ReadByte(ReadFrom(r, F[m]), "&") = Start(P \o x(m))
    BY <1>1, <1>9
<1>11. x(m) = pairs
    BY Beginnings DEF x, m
<1> QED BY <1>6, <1>10, <1>11, Zenon

-----------------------------------------------------------------------------
(***************************************************************************)
(* A query is built from the arguments, and read as they are               *)
(***************************************************************************)

\* The pairs of an object are names and values.
LEMMA PairsTyped ==
    ASSUME NEW object \in Object
    PROVE  Pairs(object) \in Seq(Seq(Byte) \X Seq(Byte))
<1> DEFINE T == Seq(Byte) \X Seq(Byte)
           part(k) == IF object[k] = None THEN <<>> ELSE PairsOf(Keys[k], object[k])
           n == Len(Keys)
<1>1. n \in Nat /\ DOMAIN Keys = 1 .. n
    BY QueryAssumption
<1>2. ASSUME NEW k \in 1 .. n PROVE part(k) \in Seq(T)
    <2>1. Keys[k] \in Seq(Byte)
        BY QueryAssumption
    <2>2. object[k] \in Argument \cup {None}
        BY <1>1 DEF Object
    <2>3. CASE object[k] = None
        BY <2>3
    <2>4. CASE object[k] # None
        <3>1. object[k] \in Seq(Text)
            BY <2>2, <2>4 DEF Argument, BoundedSeq, SeqOf
        <3> DEFINE a == object[k]
                   key == Keys[k]
        <3>2. a \in Seq(Text) /\ key \in Seq(Byte)
            BY <2>1, <3>1
        <3>3. part(k) = PairsOf(key, a)
            BY <2>4
        <3> HIDE DEF a, key
        <3>4. DOMAIN a = 1 .. Len(a) /\ Len(a) \in Nat /\ \A i \in 1 .. Len(a) : a[i] \in Seq(Byte)
            BY <3>2, QueryAssumption
        <3>5. \A i \in 1 .. Len(a) : <<key, a[i]>> \in T
            BY <3>2, <3>4
        <3> HIDE DEF T
        <3>6. PairsOf(key, a) \in Seq(T)
            BY <3>4, <3>5 DEF PairsOf
        <3> QED BY <3>3, <3>6, Zenon
    <2> QED BY <2>3, <2>4
<1> DEFINE ss == [k \in 1 .. n |-> part(k)]
<1>3. Pairs(object) = FlattenSeq(ss)
    BY <1>1, Zenon DEF Pairs
<1>4. ss \in Seq(Seq(T))
    <2> HIDE DEF part, T, n
    <2> QED BY <1>1, <1>2
<1> HIDE DEF ss, T
<1>5. FlattenSeq(ss) \in Seq(T)
    BY <1>4, FlattenLayout
<1> QED BY <1>3, <1>5 DEF T

\* What is appended leaves the first element alone.
LEMMA ConcatBegins ==
    ASSUME NEW T, NEW s \in Seq(T), NEW t \in Seq(T), s # <<>>
    PROVE  s \o t \in Seq(T) /\ Len(s \o t) \in Nat \ {0} /\ (s \o t)[1] = s[1]
<1>1. Len(s) \in Nat \ {0} /\ Len(t) \in Nat
    BY EmptySeq
<1>2. s \o t \in Seq(T) /\ Len(s \o t) = Len(s) + Len(t)
    BY ConcatProperties
<1>3. (s \o t)[1] = s[1]
    <2>1. 1 \in 1 .. Len(s)
        BY <1>1
    <2> QED BY <2>1, ConcatTells
<1> QED BY <1>1, <1>2, <1>3

\* If anything was joined, a separator is in front of it.
LEMMA JoinedBegins ==
    ASSUME NEW pairs \in Seq(Seq(Byte) \X Seq(Byte)), Joined(pairs) # <<>>
    PROVE  Tail(Joined(pairs)) \in Seq(Byte) /\ Joined(pairs) = <<"&">> \o Tail(Joined(pairs))
<1> DEFINE m == Len(pairs)
           ss == [i \in 1 .. m |-> Segment(pairs[i][1], pairs[i][2])]
           j == Joined(pairs)
<1>1. m \in Nat /\ DOMAIN pairs = 1 .. m
    OBVIOUS
<1>2. j = FlattenSeq(ss)
    BY <1>1 DEF Joined, Segment
<1>3. ASSUME NEW i \in 1 .. m
      PROVE  /\ ss[i] \in Seq(Byte)
             /\ Len(ss[i]) \in Nat /\ Len(ss[i]) >= 1 /\ ss[i][1] = "&"
    <2> DEFINE k == pairs[i][1]
               v == pairs[i][2]
               w == (percent_encode(k) \o <<"=">>) \o percent_encode(v)
               amp == <<"&">>
    <2>1. pairs[i] \in Seq(Byte) \X Seq(Byte)
        BY <1>1
    <2>2. k \in Seq(Byte) /\ v \in Seq(Byte)
        BY <2>1
    <2>3. ss[i] = Segment(k, v)
        OBVIOUS
    <2> HIDE DEF k, v, ss, w, amp
    <2> DEFINE ek == percent_encode(k)
               ev == percent_encode(v)
               eq == <<"=">>
    <2>4. ek \in Seq(Byte) /\ ev \in Seq(Byte)
        BY <2>2, ReadEncoded
    <2>5. eq \in Seq(Byte) /\ amp \in Seq(Byte) /\ Len(amp) = 1 /\ amp[1] = "&"
        BY HexAssumption DEF amp
    <2>6. Segment(k, v) = ((amp \o ek) \o eq) \o ev
        BY Zenon DEF Segment, amp
    <2> HIDE DEF ek, ev, eq
    <2> DEFINE s1 == amp \o ek
               s2 == s1 \o eq
               s3 == s2 \o ev
    <2>7. s1 \in Seq(Byte) /\ Len(s1) \in Nat \ {0} /\ s1[1] = "&"
        <3>1. amp # <<>>
            <4>1. Len(<<>>) = 0 /\ 1 # 0
                OBVIOUS
            <4> QED BY <2>5, <4>1, Zenon
        <3> QED BY <2>4, <2>5, <3>1, ConcatBegins
    <2> HIDE DEF s1
    <2>8. s2 \in Seq(Byte) /\ Len(s2) \in Nat \ {0} /\ s2[1] = "&"
        <3>1. s1 # <<>>
            BY <2>7
        <3> QED BY <2>5, <2>7, <3>1, ConcatBegins
    <2> HIDE DEF s2
    <2>9. s3 \in Seq(Byte) /\ Len(s3) \in Nat \ {0} /\ s3[1] = "&"
        <3>1. s2 # <<>>
            BY <2>8
        <3> QED BY <2>4, <2>8, <3>1, ConcatBegins
    <2>10. ss[i] = s3
        BY <2>3, <2>6 DEF s1, s2
    <2> HIDE DEF s3
    <2>11. Len(s3) \in Nat /\ Len(s3) >= 1
        BY <2>9
    <2> QED BY <2>9, <2>10, <2>11, Zenon
<1>4. ss \in Seq(Seq(Byte)) /\ Len(ss) = m
    <2>1. \A i \in 1 .. m : Segment(pairs[i][1], pairs[i][2]) \in Seq(Byte)
        BY <1>3
    <2> QED BY <1>1, <2>1
<1> HIDE DEF ss, m
<1>5. j \in Seq(Byte)
    BY <1>2, <1>4, FlattenLayout
<1>6. PICK at \in [1 .. Len(ss) + 1 -> Nat] : Layout(at, ss)
    BY <1>4, FlattenLayout
<1>7. m # 0
    <2> SUFFICES ASSUME m = 0 PROVE FALSE
        OBVIOUS
    <2>1. Len(FlattenSeq(ss)) = at[0 + 1] /\ at[1] = 0
        BY <1>4, <1>6 DEF Layout
    <2>2. Len(j) = 0
        BY <1>2, <2>1
    <2> QED BY <1>5, <2>2, EmptySeq
<1>8. j[1] = "&"
    <2>1. 1 \in 1 .. m
        BY <1>1, <1>7
    <2>2. 1 \in 1 .. Len(ss) /\ 1 \in 1 .. Len(ss[1]) /\ ss[1][1] = "&"
        BY <1>3, <1>4, <2>1
    <2>3. FlattenSeq(ss)[at[1] + 1] = ss[1][1] /\ at[1] = 0
        BY <1>6, <2>2, Zenon DEF Layout
    <2>4. 0 + 1 = 1
        OBVIOUS
    <2> QED BY <1>2, <2>2, <2>3, <2>4, Zenon
<1> HIDE DEF j
<1>9. Tail(j) \in Seq(Byte) /\ j = <<j[1]>> \o Tail(j)
    <2> DEFINE l == Len(j)
    <2>1. l \in Nat \ {0} /\ j # <<>>
        BY <1>5, EmptySeq DEF j
    <2>2. Tail(j) = SubSeq(j, 2, l) /\ Tail(j) \in Seq(Byte)
        BY <1>5, <2>1, TailIsSubSeq, HeadTailProperties
    <2>3. SubSeq(j, 1, l) = j
        BY <1>5, SubSeqFull
    <2>4. 1 \in 1 .. l /\ l \in 1 .. l /\ 1 + 1 = 2
        BY <2>1
    <2>5. SubSeq(j, 1, l) = <<j[1]>> \o SubSeq(j, 1 + 1, l)
        BY <1>5, <2>4, SubSeqRecursiveFirst
    <2> HIDE DEF l
    <2> QED BY <2>2, <2>3, <2>4, <2>5, Zenon
<1> QED BY <1>8, <1>9 DEF j

\* From any separator on, what was built is read as the pairs it was built from.
LEMMA ReadBuilt ==
    ASSUME NEW object \in Object, NEW P \in Seq(Seq(Byte) \X Seq(Byte))
    PROVE  /\ build_query_string(object) \in Seq(Byte)
           /\ ReadByte(ReadFrom(Start(P), build_query_string(object)), "&") = Start(P \o Pairs(object))
<1> DEFINE pairs == Pairs(object)
           j == Joined(pairs)
           r == Start(P)
<1>1. pairs \in Seq(Seq(Byte) \X Seq(Byte))
    BY PairsTyped
<1>2. build_query_string(object) = IF j = <<>> THEN j ELSE Tail(j)
    BY DEF build_query_string, Joined
<1>3. ReadByte(r, "&") = r
    BY DEF ReadByte, Start, Whole, Close
<1> HIDE DEF pairs, r
<1>4. j \in Seq(Byte) /\ ReadByte(ReadFrom(r, j), "&") = Start(P \o pairs)
    BY <1>1, <1>3, ReadJoined DEF r
<1>5. CASE j = <<>>
    BY <1>2, <1>4, <1>5 DEF pairs, r
<1>6. CASE j # <<>>
    <2> DEFINE t == Tail(j)
               amp == <<"&">>
    <2>1. t \in Seq(Byte) /\ j = amp \o t
        BY <1>1, <1>6, JoinedBegins
    <2>2. amp \in Seq(Byte)
        BY HexAssumption
    <2>3. ReadFrom(r, amp) = r
        BY <1>3, ReadOne
    <2> HIDE DEF j, t, amp
    <2>4. ReadFrom(r, amp \o t) = ReadFrom(ReadFrom(r, amp), t)
        BY <2>1, <2>2, ReadConcat
    <2>5. ReadFrom(r, j) = ReadFrom(r, t)
        BY <2>1, <2>3, <2>4, Zenon
    <2>6. build_query_string(object) = t
        BY <1>2, <1>6 DEF t
    <2> QED BY <1>4, <2>1, <2>5, <2>6, Zenon DEF pairs, r
<1> QED BY <1>5, <1>6
-----------------------------------------------------------------------------
(***************************************************************************)
(* The reader's state, and a query in front of another                     *)
(***************************************************************************)

Reader ==
    [pairs : Seq(Seq(Byte) \X Seq(Byte)), name : Seq(Byte), value : Seq(Byte),
     at : {"start", "name", "value"}, esc : Seq(Byte) \cup {None}]

\* The reader starts in one of its states,
LEMMA StartTyped ==
    ASSUME NEW P \in Seq(Seq(Byte) \X Seq(Byte))
    PROVE  Start(P) \in Reader
BY DEF Start, Reader

\* a byte leads to another one,
LEMMA PutTyped ==
    ASSUME NEW r \in Reader, NEW b \in Byte
    PROVE  Put(r, b) \in Reader
<1>1. Append(r.name, b) \in Seq(Byte) /\ Append(r.value, b) \in Seq(Byte)
    BY DEF Reader
<1> QED BY <1>1 DEF Put, Reader

\* and so does the end of an escape;
LEMMA WholeTyped ==
    ASSUME NEW r \in Reader
    PROVE  Whole(r) \in Reader
<1>1. "?" \in Byte
    BY HexAssumption
<1> QED BY <1>1, PutTyped DEF Whole

\* it has read pairs of names and values;
LEMMA CloseTyped ==
    ASSUME NEW r \in Reader
    PROVE  Close(r) \in Seq(Seq(Byte) \X Seq(Byte))
<1> DEFINE T == Seq(Byte) \X Seq(Byte)
           e == <<r.name, r.value>>
<1>1. r.pairs \in Seq(T) /\ e \in T
    BY DEF Reader
<1> HIDE DEF T, e
<1>2. Append(r.pairs, e) \in Seq(T)
    BY <1>1
<1> QED BY <1>1, <1>2 DEF Close, T, e

\* so every byte leads from a state to a state,
LEMMA ReadByteTyped ==
    ASSUME NEW r \in Reader, NEW b \in Byte
    PROVE  ReadByte(r, b) \in Reader
<1>1. Start(Close(Whole(r))) \in Reader
    BY WholeTyped, CloseTyped, StartTyped
<1>2. [Whole(r) EXCEPT !.at = "value"] \in Reader
    BY WholeTyped DEF Reader
<1>3. [r EXCEPT !.esc = <<>>] \in Reader /\ [r EXCEPT !.esc = <<b>>] \in Reader
    <2>1. ASSUME NEW e \in Seq(Byte) \cup {None} PROVE [r EXCEPT !.esc = e] \in Reader
        BY DEF Reader
    <2>2. <<>> \in Seq(Byte) /\ <<b>> \in Seq(Byte)
        OBVIOUS
    <2> QED BY <2>1, <2>2
<1>4. Put(r, "space") \in Reader /\ Put(r, b) \in Reader
    BY HexAssumption, PutTyped
<1>5. Put(r, Unhex(Append(r.esc, b))) \in Reader
    <2>1. \A d : Unhex(d) \in Byte
        BY HexAssumption DEF Unhex
    <2> QED BY <2>1, PutTyped
<1> QED BY <1>1, <1>2, <1>3, <1>4, <1>5 DEF ReadByte

\* and every query does.
LEMMA ReadFromTyped ==
    ASSUME NEW r \in Reader, NEW q \in Seq(Byte)
    PROVE  ReadFrom(r, q) \in Reader
<1> DEFINE n == Len(q)
<1>1. n \in Nat
    OBVIOUS
<1>2. PICK R : Run(R, r, q)
    BY <1>1, RunExists
<1> DEFINE S == {i \in Nat : i \in 0 .. n => R[i] \in Reader}
<1>3. 0 \in S
    BY <1>2 DEF Run
<1>4. ASSUME NEW i \in Nat, i \in S PROVE i + 1 \in S
    <2> SUFFICES ASSUME i + 1 \in 0 .. n PROVE R[i + 1] \in Reader
        OBVIOUS
    <2>1. i \in 0 .. n - 1 /\ i \in 0 .. n /\ i + 1 \in 1 .. n
        BY <1>1
    <2>2. R[i] \in Reader /\ q[i + 1] \in Byte
        BY <1>4, <2>1
    <2>3. R[i + 1] = ReadByte(R[i], q[i + 1])
        BY <1>2, <2>1, Zenon DEF Run
    <2> HIDE DEF n
    <2> QED BY <2>2, <2>3, ReadByteTyped
<1>5. Nat \subseteq S
    <2> HIDE DEF S
    <2> QED BY <1>3, <1>4, SetInduction, Zenon
<1>6. R[n] \in Reader
    BY <1>1, <1>5
<1> QED BY <1>1, <1>2, <1>6, RunIs

\* Read, without the end of the query: a last separator.
LEMMA ReadIs ==
    ASSUME NEW q \in Seq(Byte)
    PROVE  /\ ReadByte(ReadFrom(Start(<<>>), q), "&") = Start(Read(q))
           /\ Read(q) \in Seq(Seq(Byte) \X Seq(Byte))
<1> DEFINE r == ReadFrom(Start(<<>>), q)
           amp == <<"&">>
           P == Close(Whole(r))
<1>1. q # None
    BY QueryAssumption
<1>2. Append(q, "&") = q \o amp /\ amp \in Seq(Byte)
    BY HexAssumption, AppendIsConcat
<1>3. ReadFrom(Start(<<>>), q \o amp) = ReadFrom(r, amp)
    BY <1>2, ReadConcat
<1>4. ReadFrom(r, amp) = ReadByte(r, "&")
    BY ReadOne
<1>5. r \in Reader
    <2>1. Start(<<>>) \in Reader
        BY StartTyped, EmptySeq
    <2> QED BY <2>1, ReadFromTyped
<1> HIDE DEF r, amp
<1>6. ReadByte(r, "&") = Start(P)
    BY Zenon DEF ReadByte
<1>7. P \in Seq(Seq(Byte) \X Seq(Byte))
    BY <1>5, WholeTyped, CloseTyped
<1>8. Read(q) = Start(P).pairs
    BY <1>1, <1>2, <1>3, <1>4, <1>6, Zenon DEF Read
<1> HIDE DEF P
<1>9. Start(P).pairs = P
    BY DEF Start
<1> QED BY <1>6, <1>7, <1>8, <1>9, Zenon DEF r

\* Where a piece begins, the pairs before it tell all.
LEMMA StartTells == ASSUME NEW X, NEW Y, Start(X) = Start(Y) PROVE X = Y
<1>1. Start(X).pairs = X /\ Start(Y).pairs = Y
    BY DEF Start
<1> QED BY <1>1, Zenon

\* No pair is read where nothing is.
LEMMA ReadNothing == Read(<<>>) = <<>> /\ Read(None) = <<>>
<1>1. ReadByte(Start(<<>>), "&") = Start(<<>>)
    BY DEF ReadByte, Start, Whole, Close
<1>2. Start(<<>>) = Start(Read(<<>>))
    <2>1. <<>> \in Seq(Byte)
        OBVIOUS
    <2>2. ReadByte(ReadFrom(Start(<<>>), <<>>), "&") = Start(Read(<<>>))
        BY <2>1, ReadIs
    <2> QED BY <1>1, <2>2, ReadEmpty, Zenon
<1>3. Read(<<>>) = <<>>
    BY <1>2, StartTells, Zenon
<1> QED BY <1>3 DEF Read

\* A query that stands alone is read as the pairs it was built from.
LEMMA ReadArguments ==
    ASSUME NEW object \in Object
    PROVE  Read(build_query_string(object)) = Pairs(object)
<1> DEFINE q == build_query_string(object)
           pairs == Pairs(object)
<1>1. <<>> \in Seq(Seq(Byte) \X Seq(Byte))
    OBVIOUS
<1>2. q \in Seq(Byte) /\ ReadByte(ReadFrom(Start(<<>>), q), "&") = Start(<<>> \o pairs)
    BY <1>1, ReadBuilt
<1>3. pairs \in Seq(Seq(Byte) \X Seq(Byte))
    BY PairsTyped
<1> HIDE DEF q, pairs
<1>4. ReadByte(ReadFrom(Start(<<>>), q), "&") = Start(Read(q))
    BY <1>2, ReadIs
<1>5. <<>> \o pairs = pairs
    BY <1>3, ConcatEmptySeq
<1>6. Read(q) = pairs
    <2>1. Start(Read(q)) = Start(pairs)
        BY <1>2, <1>4, <1>5, Zenon
    <2> QED BY <2>1, StartTells, Zenon
<1> QED BY <1>6 DEF q, pairs

\* What is appended to a query is read after it.
LEMMA ReadAppended ==
    ASSUME NEW base \in Seq(Byte), NEW object \in Object
    PROVE  Read((base \o <<"&">>) \o build_query_string(object)) = Read(base) \o Pairs(object)
<1> DEFINE q == build_query_string(object)
           pairs == Pairs(object)
           amp == <<"&">>
           P == Read(base)
           r == Start(<<>>)
           front == base \o amp
<1>1. P \in Seq(Seq(Byte) \X Seq(Byte)) /\ ReadByte(ReadFrom(r, base), "&") = Start(P)
    BY ReadIs
<1>2. q \in Seq(Byte) /\ ReadByte(ReadFrom(Start(P), q), "&") = Start(P \o pairs)
    BY <1>1, ReadBuilt
<1>3. amp \in Seq(Byte)
    BY HexAssumption
<1>4. ReadFrom(r, front) = Start(P)
    <2>1. ReadFrom(r, front) = ReadFrom(ReadFrom(r, base), amp)
        BY <1>3, ReadConcat
    <2>2. ReadFrom(ReadFrom(r, base), amp) = ReadByte(ReadFrom(r, base), "&")
        BY ReadOne
    <2> QED BY <1>1, <2>1, <2>2, Zenon
<1>5. front \in Seq(Byte)
    BY <1>3
<1> HIDE DEF q, pairs, amp, P, r, front
<1>6. ReadFrom(r, front \o q) = ReadFrom(Start(P), q)
    <2>1. ReadFrom(r, front \o q) = ReadFrom(ReadFrom(r, front), q)
        BY <1>2, <1>5, ReadConcat
    <2> QED BY <1>4, <2>1, Zenon
<1>7. front \o q \in Seq(Byte)
    BY <1>2, <1>5
<1>8. ReadByte(ReadFrom(r, front \o q), "&") = Start(Read(front \o q))
    BY <1>7, ReadIs DEF r
<1>9. Read(front \o q) = P \o pairs
    <2>1. Start(Read(front \o q)) = Start(P \o pairs)
        BY <1>2, <1>6, <1>8, Zenon
    <2> QED BY <2>1, StartTells, Zenon
<1> QED BY <1>9 DEF q, pairs, front, P, amp

-----------------------------------------------------------------------------
(***************************************************************************)
(* The theorems                                                            *)
(***************************************************************************)

QueryInv ==
    /\ arguments \in Object \cup {None}
    /\ stage \in {"arguments", "query"} => url \in Seq(Byte) \cup {None}
    /\ stage \in {"query", "url"} => arguments # None /\ query = build_query_string(arguments)

\* QueryInv holds in every state.
LEMMA QueryInvHolds == QuerySpec => []QueryInv
<1>1. QueryInit => QueryInv
    BY QueryAssumption DEF QueryInit, QueryInv
<1>2. QueryInv /\ [QueryNext]_queryVars => QueryInv'
    <2> SUFFICES ASSUME QueryInv, [QueryNext]_queryVars PROVE QueryInv'
        OBVIOUS
    <2>1. CASE Formatted
        BY <2>1 DEF QueryInv, Formatted
    <2>2. CASE NotAnObject
        BY <2>2 DEF QueryInv, NotAnObject
    <2>3. CASE Appended
        BY <2>3 DEF QueryInv, Appended
    <2>4. CASE UNCHANGED queryVars
        BY <2>4 DEF QueryInv, queryVars
    <2> QED BY <2>1, <2>2, <2>3, <2>4 DEF QueryNext
<1> QED BY <1>1, <1>2, PTL DEF QuerySpec

\* An upstream that parses the query as a form reads the arguments as they
\* were given, whatever bytes they contain.
THEOREM ArgumentsAlwaysArrive == QuerySpec => []ArgumentsArrive
<1>1. QueryInv => ArgumentsArrive
    <2> SUFFICES ASSUME QueryInv, stage = "query"
                 PROVE  Read(query) = FlattenSeq([k \in DOMAIN Keys |->
                            IF arguments[k] = None THEN <<>>
                            ELSE [i \in DOMAIN arguments[k] |-> <<Keys[k], arguments[k][i]>>]])
        BY DEF ArgumentsArrive
    <2>1. arguments \in Object /\ query = build_query_string(arguments)
        BY DEF QueryInv
    <2>2. Read(query) = Pairs(arguments)
        BY <2>1, ReadArguments
    <2> QED BY <2>2, Zenon DEF Pairs, PairsOf
<1> QED BY <1>1, QueryInvHolds, PTL

\* What the operator wrote into the URL is read first, whole, and the
\* arguments after it.
THEOREM OperatorQueryAlwaysStays == QuerySpec => OperatorQueryStays
<1>1. QueryInv /\ [QueryNext]_queryVars
        => [stage' = "url" => Read(url') = Read(url) \o Read(query)]_queryVars
    <2> SUFFICES ASSUME QueryInv, QueryNext, stage' = "url"
                 PROVE  Read(url') = Read(url) \o Read(query)
        BY DEF queryVars
    <2>1. Appended
        BY DEF QueryNext, Formatted, NotAnObject
    <2>2. /\ arguments \in Object /\ query = build_query_string(arguments)
          /\ url \in Seq(Byte) \cup {None}
          /\ url' = with_query_string(url, query)
        BY <2>1 DEF QueryInv, Appended
    <2> DEFINE pairs == Pairs(arguments)
    <2>3. Read(query) = pairs
        BY <2>2, ReadArguments
    <2>4. pairs \in Seq(Seq(Byte) \X Seq(Byte))
        BY <2>2, PairsTyped
    <2> HIDE DEF pairs
    <2>5. CASE query = <<>>
        <3>1. Read(query) = <<>>
            BY <2>5, ReadNothing
        <3>2. Read(url) \in Seq(Seq(Byte) \X Seq(Byte))
            <4>1. CASE url \in Seq(Byte)
                BY <4>1, ReadIs
            <4>2. CASE url = None
                BY <4>2, ReadNothing, EmptySeq
            <4> QED BY <2>2, <4>1, <4>2
        <3>3. url' = url
            BY <2>2, <2>5 DEF with_query_string
        <3>4. Read(url) \o <<>> = Read(url)
            BY <3>2, ConcatEmptySeq
        <3> QED BY <3>1, <3>3, <3>4, Zenon
    <2>6. CASE query # <<>> /\ url \in {None, <<>>}
        <3>1. Read(url) = <<>>
            BY <2>6, ReadNothing
        <3>2. url' = query
            BY <2>2, <2>6 DEF with_query_string
        <3>3. <<>> \o pairs = pairs
            BY <2>4, ConcatEmptySeq
        <3> QED BY <2>3, <3>1, <3>2, <3>3, Zenon
    <2>7. CASE query # <<>> /\ url \notin {None, <<>>}
        <3>1. url' = (url \o <<"&">>) \o query
            BY <2>2, <2>7 DEF with_query_string
        <3>2. url \in Seq(Byte)
            BY <2>2, <2>7
        <3>3. Read((url \o <<"&">>) \o build_query_string(arguments)) = Read(url) \o pairs
            BY <2>2, <3>2, ReadAppended DEF pairs
        <3> QED BY <2>2, <2>3, <3>1, <3>3, Zenon
    <2> QED BY <2>5, <2>6, <2>7
<1> QED BY <1>1, QueryInvHolds, PTL DEF QuerySpec, OperatorQueryStays
================================================================================
