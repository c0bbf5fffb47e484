----------------------------- MODULE MCExchange -----------------------------
(***************************************************************************)
(* A bounded instance of Exchange: int of 8 bits and long of 16; texts of  *)
(* at most two pieces; JSON of depth three where two is allowed.           *)
(***************************************************************************)
EXTENDS Exchange

Strings_Only == STRING

Typed_Number ==
    ("0" :> 0) @@ ("10" :> 100) @@ ("11" :> 110) @@ ("127" :> 1270) @@ ("128" :> 1280)
        @@ ("261" :> 2610) @@ ("40000" :> 400000)
        @@ ("-1" :> -10) @@ ("-0.5" :> -5) @@ ("-40000" :> -400000)
        @@ ("7.5" :> 75) @@ ("10.1" :> 101) @@ ("nan" :> NaN)

Digits == {"0", "10", "11", "127", "128", "261", "40000"}

\* The characters of numbers that occur, and what strtod takes of them.
Figures == Lead \cup {".", "e", "x"}

DecimalDigits == Lead \ {"-"}

IsNumeralOf(numeral) ==
    LET sign == IF numeral[1] = "-" THEN 1 ELSE 0
        unsigned == SubSeq(numeral, sign + 1, Len(numeral))
        Counts(m, n, chars) == m <= n /\ \A i \in m..n : unsigned[i] \in chars
        points == SelectSeq(unsigned, LAMBDA c : c = ".")
        mantissa == SelectInSeq(unsigned, LAMBDA c : c = "e")
        last == IF mantissa = 0 THEN Len(unsigned) ELSE mantissa - 1
    IN  \/ /\ Len(points) <= 1 /\ <<".">> # SubSeq(unsigned, 1, last)
           /\ Counts(1, last, DecimalDigits \cup {"."})
           /\ mantissa = 0 \/ Counts(mantissa + 1, Len(unsigned), DecimalDigits)
        \/ Len(unsigned) > 2 /\ unsigned[1] = "0" /\ unsigned[2] = "x"
              /\ Counts(3, Len(unsigned), DecimalDigits \cup {"e"})

\* The one number that no double of this instance holds.
TooLarge == {<<"1", "e", "2", "0">>}

Chars(string) == [i \in 1..Len(string) |-> SubSeq(string, i, i)]

NumberTextOf(number) ==
    LET size == IF number < 0 THEN -number ELSE number IN
    (IF number < 0 THEN <<"-">> ELSE <<>>) \o Chars(ToString(size \div 10))
        \o (IF size % 10 = 0 THEN <<>> ELSE <<".">> \o Chars(ToString(size % 10)))

Names == {<<>>, <<"a">>, <<"a", " ">>, <<Backslash, Quote>>, <<"latin1">>, <<Astral, Control>>}
Ids == {<<>>, <<"a">>, <<"128">>}

TypedTexts ==
    [admin_username |-> Names,
     username |-> Names,
     password |-> {<<"a">>, <<" ">>, <<"/">>},
     title |-> {<<>>, <<"a", Backslash>>, <<Quote>>, <<"latin1">>},
     year |-> {<<>>, <<"a">>, <<"10", "a">>, <<" ", "10">>} \cup {<<d>> : d \in Digits},
     description |-> {<<>>, <<"a", Control>>},
     rating |-> {<<>>, <<"a">>, <<"7.5", "a">>, <<" ", "7.5">>}
                    \cup {<<n>> : n \in DOMAIN Typed_Number},
     id |-> Ids, collection_id |-> Ids,
     movie_id |-> Ids \cup {<<" ", " ", "7.5", "a">>, <<"40000">>, <<"-40000">>, <<"-0.5">>}]

Attributes == {<<";", " Path=/">>, <<";", " HttpOnly", ";", " Path=/">>}
HeldCookies == {<<>>, <<"session=1">>}
HeldTokens == {<<"jwt">>}

\* parson's own two, that of a server that writes ASCII, and of one that leaves
\* blank lines.
Layouts == {[newline |-> <<>>, ascii |-> FALSE], [newline |-> <<NewLine>>, ascii |-> FALSE],
            [newline |-> <<>>, ascii |-> TRUE],
            [newline |-> <<Crlf, Crlf>>, ascii |-> TRUE]}

-----------------------------------------------------------------------------
(* What the server may reply.                                              *)

Letters == {"a", Quote, Backslash, "/", NewLine, Control, Nul, Astral}
Valued(type, of) == [type |-> type, of |-> of]
Strings == {Valued("string", chars) : chars \in BoundedSeq(Letters, 2)}
Small == {Valued("string", <<"a">>), Valued("literal", <<"true">>),
          Valued("number", <<"0">>), Valued("number", <<"1", "0">>)}
Numbers == {Valued("number", numeral) :
              numeral \in {<<"-", "1">>, <<"0", ".", "5">>, <<"1", "e", "2">>}}
Wrapped(values) ==
    {Valued("array", of) : of \in BoundedSeq(values, 2)}
        \cup {Valued("object", of) :
                 of \in BoundedSeq([name : {<<"a">>, <<Quote>>, <<"a", Nul>>}, value : values], 2)}
Single(values) ==
    {Valued("array", <<v>>) : v \in values}
        \cup {Valued("object", <<[name |-> <<"a">>, value |-> v]>>) : v \in values}
ServerValues ==
    LET flat == Wrapped(Small) IN
    Strings \cup Numbers \cup Small \cup flat \cup Single(flat) \cup Single(Single(Single(Small)))
=============================================================================
