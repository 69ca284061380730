------------------------------- MODULE QueryString -------------------------------
(***************************************************************************)
(* The query of a GET: build_query_string of src/src/exec.rs over the      *)
(* arguments of a call, and with_query_string, which adds it to the URL    *)
(* the template evaluated to.  What they are for is stated by Read, the    *)
(* form-urlencoded parser of an upstream (external).                       *)
(*                                                                         *)
(* A text is a sequence of bytes.  null, booleans, numbers and nested      *)
(* values are the text they are written as.                                *)
(***************************************************************************)
EXTENDS Naturals, Sequences, SequencesExt

CONSTANTS
    Byte,        \* bytes; those with a meaning here are named by their character
    Keys,        \* argument names, as a sequence in byte order
    Text,        \* texts an argument can be
    MaxItems,    \* bound: length of an argument that is an array
    BaseQuery,   \* queries of the URL, encoded; None if it has none
    Hex,         \* byte |-> its two hexadecimal digits, where it is escaped
    None         \* no query, no argument, not an object

ASSUME QueryAssumption ==
    /\ Keys \in Seq(Seq(Byte))
    /\ Text \subseteq Seq(Byte)
    /\ BaseQuery \subseteq Seq(Byte) \cup {None}
    /\ MaxItems \in Nat
    /\ None \notin Seq(Byte)

\* Two digits say which byte it was; a digit is alphanumeric and not escaped,
\* the bytes with a meaning in a query are.
ASSUME HexAssumption ==
    /\ {"&", "=", "+", "%"} \subseteq DOMAIN Hex
    /\ DOMAIN Hex \cup {"space", "?"} \subseteq Byte
    /\ \A b \in DOMAIN Hex :
          /\ Hex[b] \in Seq(Byte \ DOMAIN Hex) /\ Len(Hex[b]) = 2
          /\ \A c \in DOMAIN Hex : Hex[b] = Hex[c] => b = c

VARIABLES
    arguments,  \* an object: per key its texts, or None; None if not an object
    query,      \* what build_query_string returned
    url,        \* the query of the URL
    stage       \* "arguments", "query", "url"; "failed" if not an object

queryVars == <<arguments, query, url, stage>>

\* The texts of an array; a scalar gives one pair, as an array of one does.
Argument == BoundedSeq(Text, MaxItems)

Object == [DOMAIN Keys -> Argument \cup {None}]

-----------------------------------------------------------------------------
\* Mutant: `%` itself is left alone.
percent_encode_once(text) ==
    FlattenSeq([i \in DOMAIN text |->
        IF text[i] \in DOMAIN Hex \ {"%"} THEN <<"%">> \o Hex[text[i]] ELSE <<text[i]>>])

percent_encode(text) ==
    FlattenSeq([i \in DOMAIN text |->
        IF text[i] \in DOMAIN Hex THEN <<"%">> \o Hex[text[i]] ELSE <<text[i]>>])

\* Mutant: an array becomes one pair.
PairsOfFirst(key, argument) ==
    [i \in DOMAIN argument \cap {1} |-> <<key, argument[i]>>]

\* An array repeats its key.
PairsOf(key, argument) ==
    [i \in DOMAIN argument |-> <<key, argument[i]>>]

\* The pairs of an object, its keys in order.
Pairs(object) ==
    FlattenSeq([k \in DOMAIN Keys |->
        IF object[k] = None THEN <<>> ELSE PairsOf(Keys[k], object[k])])

\* pairs.join("&")
build_query_string(object) ==
    LET pairs == Pairs(object)
        joined == FlattenSeq([i \in DOMAIN pairs |->
            <<"&">> \o percent_encode(pairs[i][1]) \o <<"=">> \o percent_encode(pairs[i][2])])
    IN  IF joined = <<>> THEN joined ELSE Tail(joined)

\* Mutant: the query the operator wrote is replaced.
with_query_string_replacing(base, added) == IF added = <<>> THEN base ELSE added

with_query_string(base, added) ==
    IF added = <<>> THEN base
    ELSE IF base \in {None, <<>>} THEN added
    ELSE base \o <<"&">> \o added

QueryInit ==
    /\ arguments \in Object \cup {None}
    /\ url \in BaseQuery
    /\ query = None
    /\ stage = "arguments"

Formatted ==
    /\ stage = "arguments" /\ arguments # None
    /\ query' = build_query_string(arguments)
    /\ stage' = "query"
    /\ UNCHANGED <<arguments, url>>

NotAnObject ==
    /\ stage = "arguments" /\ arguments = None
    /\ stage' = "failed"
    /\ UNCHANGED <<arguments, query, url>>

\* execute_http_call, before it sends.
Appended ==
    /\ stage = "query"
    /\ url' = with_query_string(url, query)
    /\ stage' = "url"
    /\ UNCHANGED <<arguments, query>>

QueryNext == Formatted \/ NotAnObject \/ Appended

QuerySpec == QueryInit /\ [][QueryNext]_queryVars

-----------------------------------------------------------------------------
(***************************************************************************)
(* What an upstream reads from a query: pieces between `&`, the name       *)
(* before the first `=`, `+` for a space, and the bytes that are escaped.  *)
(***************************************************************************)
Unhex(digits) ==
    IF \E b \in DOMAIN Hex : Hex[b] = digits
    THEN CHOOSE b \in DOMAIN Hex : Hex[b] = digits
    ELSE "?"

Start(pairs) ==
    [pairs |-> pairs, name |-> <<>>, value |-> <<>>, at |-> "start", esc |-> None]

\* A byte b of the name or of the value.
Put(r, b) ==
    IF r.at = "value"
    THEN [r EXCEPT !.value = Append(@, b), !.esc = None]
    ELSE [r EXCEPT !.name = Append(@, b), !.at = "name", !.esc = None]

\* An escape that is cut short is a byte of its own.
Whole(r) == IF r.esc = None THEN r ELSE Put(r, "?")

\* The pair that ends here; an empty piece is none.
Close(r) == IF r.at = "start" THEN r.pairs ELSE Append(r.pairs, <<r.name, r.value>>)

\* `&` and the first `=` end an escape that is cut short.
ReadByte(r, b) ==
    IF b = "&" THEN Start(Close(Whole(r)))
    ELSE IF b = "=" /\ r.at # "value" THEN [Whole(r) EXCEPT !.at = "value"]
    ELSE IF r.esc = None
    THEN CASE b = "%" -> [r EXCEPT !.esc = <<>>]
           [] b = "+" -> Put(r, "space")
           [] OTHER -> Put(r, b)
    ELSE IF r.esc = <<>> THEN [r EXCEPT !.esc = <<b>>]
    ELSE Put(r, Unhex(Append(r.esc, b)))

ReadFrom(r, q) ==
    LET run[i \in 0 .. Len(q)] == IF i = 0 THEN r ELSE ReadByte(run[i - 1], q[i])
    IN  run[Len(q)]

Read(q) == IF q = None THEN <<>> ELSE ReadFrom(Start(<<>>), Append(q, "&")).pairs

(***************************************************************************)
(* Properties                                                              *)
(***************************************************************************)

\* The upstream reads the arguments as they were given, key by key in order,
\* whatever bytes they contain, and nothing else.
ArgumentsArrive ==
    stage = "query" =>
        Read(query) = FlattenSeq([k \in DOMAIN Keys |->
            IF arguments[k] = None THEN <<>>
            ELSE [i \in DOMAIN arguments[k] |-> <<Keys[k], arguments[k][i]>>]])

\* What the operator wrote into the URL stays: the upstream reads it first,
\* then the arguments, whatever they contain.
OperatorQueryStays ==
    [][stage' = "url" => Read(url') = Read(url) \o Read(query)]_queryVars
================================================================================
