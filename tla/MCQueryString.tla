------------------------------ MODULE MCQueryString ------------------------------
(* Small instances of QueryString for TLC. *)
EXTENDS QueryString, TLC

\* The bytes that have a meaning in a query, among those that are escaped.
Escapes ==
    "&" :> <<"2", "6">> @@ "=" :> <<"3", "D">> @@ "%" :> <<"2", "5">> @@
    "+" :> <<"2", "B">> @@ "space" :> <<"2", "0">>

Bytes ==
    DOMAIN Escapes \cup {"a", "b", "0", "2", "3", "5", "6", "B", "D", "?"}

KeySeq == << <<"&", "a">>, <<"a">> >>

\* No byte, one, two; and one that looks as if it were encoded already.
Texts ==
    {<<>>, <<"a">>, <<"%", "2", "6">>} \cup {<<b>> : b \in DOMAIN Escapes}
        \cup {<<"a", "=">>}

\* None, empty, one escaped, one without a value, one that ends in a
\* separator, one in the middle of an escape.
Queries ==
    {None, <<>>, <<"b", "=", "%", "2", "6">>, <<"b">>,
     <<"a", "=", "+", "&">>, <<"b", "%", "2">>}
================================================================================
