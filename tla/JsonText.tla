------------------------------- MODULE JsonText -------------------------------
(***************************************************************************)
(* JSON as text, written and read by parson.c.  A text is a sequence of    *)
(* pieces: one character each, except literals, the four digits of a \u    *)
(* escape and the mark of the byte order; behind the last one stands its   *)
(* '\0'.  A value is a record of its type and what it is made of:          *)
(* elements, fields, characters, a numeral or a literal.                   *)
(*                                                                         *)
(* What the code does by recursion and in loops is written as recursive    *)
(* functions.  parson's pointer into the text is here the text that is     *)
(* left from there on.                                                     *)
(***************************************************************************)
EXTENDS Integers, Sequences, SequencesExt

CONSTANTS
    Piece,        \* of what the texts consist
    Literals,     \* true, false and null
    Figure,       \* the characters of numbers
    IsNumeral(_), \* strtod takes all of the text for a number
    Huge,         \* the numbers that no double holds, or that JSON does not have
    MaxNesting,   \* MAX_NESTING (2048)
    Deepest       \* how deep the values nest that are written

Quote == "\""
Backslash == "\\"
NewLine == "newline"
Control == "control"    \* 0x01
Nul == "nul"
Astral == "astral"      \* beyond the basic plane: a pair of surrogates
Crlf == "\r\n"
WhiteSpace == {" ", NewLine, Crlf}
Structure == {Quote, "{", "}", "[", "]", ",", ":"} \cup WhiteSpace
Bom == "BOM"

\* By these parse_value knows a number.
Lead == {"-", "0", "1", "2", "3", "4", "5", "6", "7", "8", "9"}

Numerals == {text \in Seq(Figure) : text # <<>> /\ IsNumeral(text)}

ASSUME PiecesAssumption ==
    /\ Structure \subseteq Piece
    /\ {Backslash, "/", Control, Nul, Astral} \subseteq Piece
    /\ {"n", "u", "0001", "0000", "D83D", "DE00"} \subseteq Piece
    /\ Bom \in Piece \ Structure
    /\ Literals \subseteq Piece \ (Structure \cup {Bom})

ASSUME FiguresAssumption ==
    /\ Lead \subseteq Figure
    /\ Figure \subseteq Piece \ (Structure \cup Literals \cup {Bom})
    /\ <<"0">> \in Numerals \ Huge

ASSUME NestingAssumption == MaxNesting \in Nat \ {0} /\ Deepest \in Nat

Text == Seq(Piece)

-----------------------------------------------------------------------------
(* Values.                                                                 *)

\* No zero leads, but alone or before a point, and nothing is hexadecimal.
is_decimal(numeral) ==
    /\ Len(numeral) > 1 /\ numeral[1] = "0" => numeral[2] = "."
    /\ Len(numeral) > 2 /\ numeral[1] = "-" /\ numeral[2] = "0" => numeral[3] = "."
    /\ {"x", "X"} \cap ToSet(numeral) = {}

\* A number is told by its numeral.
Decimals == {text \in Numerals \ Huge : Head(text) \in Lead /\ is_decimal(text)}

\* A line end of HTTP is no character of a string.
Char == Piece \ {Crlf}

\* json_object_add: no name stands twice.
Distinct(fields) ==
    \A i, j \in DOMAIN fields : fields[i].name = fields[j].name => i = j

\* The values made of such inner ones; the valid ones name no member twice and none
\* with a '\0'.
Made(valid, Inner) ==
    [type : {"literal"}, of : {<<literal>> : literal \in Literals}]
    \cup [type : {"number"}, of : Decimals]
    \cup [type : {"string"}, of : Seq(Char)]
    \cup [type : {"array"}, of : Seq(Inner)]
    \cup [type : {"object"},
          of : {fields \in Seq([name : Seq(IF valid THEN Char \ {Nul} ELSE Char),
                                value : Inner]) : valid => Distinct(fields)}]

\* The values that nest so many levels deep at most.
Json(valid) ==
    LET nested[levels \in Nat] ==
            Made(valid, IF levels = 0 THEN {} ELSE nested[levels - 1])
    IN  nested

Value == Json(FALSE)[Deepest]

\* No element stands deeper than MAX_NESTING.
WellFormed(json) == json \in Json(TRUE)[MaxNesting]

-----------------------------------------------------------------------------
(* Writing.                                                                *)

\* A slip: the backslash itself is written as it is.
Escaped_Backslash(char, ascii) ==
    CASE char \in {Quote, "/"} -> <<Backslash, char>>
      [] char = NewLine -> <<Backslash, "n">>
      [] char = Control -> <<Backslash, "u", "0001">>
      [] char = Nul -> <<Backslash, "u", "0000">>
      [] OTHER -> <<char>>

\* json_serialize_string, one character; other programs write what is not ASCII
\* as an escape too ("ascii").
Escaped(char, ascii) ==
    CASE char \in {Quote, Backslash, "/"} -> <<Backslash, char>>
      [] char = NewLine -> <<Backslash, "n">>
      [] char = Control -> <<Backslash, "u", "0001">>
      [] char = Nul -> <<Backslash, "u", "0000">>
      [] char = Astral /\ ascii ->
            <<Backslash, "u", "D83D", Backslash, "u", "DE00">>
      [] OTHER -> <<char>>

Quoted(chars, ascii) ==
    <<Quote>> \o FlattenSeq([i \in DOMAIN chars |-> Escaped(chars[i], ascii)])
              \o <<Quote>>

\* APPEND_INDENT
Indent(level, newline) == IF newline = <<>> THEN <<>> ELSE [i \in 1..level |-> " "]

\* An array or object of these parts, in one line or (is_pretty) one per line;
\* other programs end their lines in other ways.
Bracketed(open, parts, close, level, newline) ==
    LET line(i) == Indent(level + 1, newline) \o parts[i]
                      \o (IF i < Len(parts) THEN <<",">> ELSE <<>>) \o newline
    IN  IF parts = <<>> THEN <<open, close>>
        ELSE <<open>> \o newline \o FlattenSeq([i \in DOMAIN parts |-> line(i)])
                      \o Indent(level, newline) \o <<close>>

FieldText(name, text, newline, ascii) ==
    Quoted(name, ascii) \o <<":">>
        \o (IF newline = <<>> THEN <<>> ELSE <<" ">>) \o text

\* json_serialize_to_buffer_r for one value, "written" being what it has written of
\* the values inside.
Layout(newline, ascii, written, json) ==
    [level \in Nat |->
        CASE json.type = "array" ->
                Bracketed("[", [i \in DOMAIN json.of |-> written[json.of[i]][level + 1]],
                          "]", level, newline)
          [] json.type = "object" ->
                Bracketed("{", [i \in DOMAIN json.of |->
                                   FieldText(json.of[i].name,
                                             written[json.of[i].value][level + 1],
                                             newline, ascii)],
                          "}", level, newline)
          [] json.type = "string" -> Quoted(json.of, ascii)
          [] json.type \in {"literal", "number"} -> json.of]

Serialized(newline, ascii) ==
    LET written[json \in Value] == Layout(newline, ascii, written, json)
    IN  written

TextOf(json, newline, ascii) == Serialized(newline, ascii)[json][0]

-----------------------------------------------------------------------------
(* Reading.  Each reader gives what it read and the text that is left.     *)

Failure == [ok |-> FALSE]
Read(json, rest) == [ok |-> TRUE, json |-> json, rest |-> rest]

Begins(text, pieces) == text # <<>> /\ Head(text) \in pieces
Behind(text, n) == SubSeq(text, n + 1, Len(text))

\* SKIP_WHITESPACES
Skipped[text \in Text] ==
    IF Begins(text, WhiteSpace) THEN Skipped[Tail(text)] ELSE text

\* skip_quotes, from behind the opening quote: what begins with the closing one.
skip_quotes[text \in Text] ==
    CASE text = <<>> \/ Begins(text, {Quote}) -> text
      [] Begins(text, {Backslash}) /\ Len(text) > 1 -> skip_quotes[Behind(text, 2)]
      [] OTHER -> skip_quotes[Tail(text)]

\* A character that stands for so many pieces; of none: it is refused.
Stands(char, pieces) == [char |-> char, pieces |-> pieces]
Refused == Stands(Nul, 0)

\* A slip: only the first half of a pair is passed.
parse_utf16_Half(text) ==
    CASE IsPrefix(<<Backslash, "u", "0001">>, text) -> Stands(Control, 3)
      [] IsPrefix(<<Backslash, "u", "0000">>, text) -> Stands(Nul, 3)
      [] IsPrefix(<<Backslash, "u", "D83D", Backslash, "u", "DE00">>, text) -> Stands(Astral, 3)
      [] OTHER -> Refused

parse_utf16(text) ==
    CASE IsPrefix(<<Backslash, "u", "0001">>, text) -> Stands(Control, 3)
      [] IsPrefix(<<Backslash, "u", "0000">>, text) -> Stands(Nul, 3)
      [] IsPrefix(<<Backslash, "u", "D83D", Backslash, "u", "DE00">>, text) -> Stands(Astral, 6)
      [] OTHER -> Refused

\* One round of process_string's loop.
Character(text) ==
    CASE Begins(text, {NewLine, Crlf, Control, Nul}) -> Refused
      [] Begins(text, {Backslash}) ->
            (CASE Begins(Tail(text), {Quote, Backslash, "/"}) -> Stands(text[2], 2)
               [] Begins(Tail(text), {"n"}) -> Stands(NewLine, 2)
               [] OTHER -> parse_utf16(text))
      [] OTHER -> Stands(Head(text), 1)

process_string[text \in Text] ==
    LET char == Character(text)
        others == process_string[Behind(text, char.pieces)]
    IN  IF text = <<>> THEN Read(<<>>, <<>>)
        ELSE IF char.pieces > 0 /\ others.ok THEN Read(<<char.char>> \o others.json, <<>>)
        ELSE Failure

get_quoted_string(text) ==
    LET end == skip_quotes[Tail(text)]
        string == process_string[SubSeq(text, 2, Len(text) - Len(end))]
    IN  IF Begins(text, {Quote}) /\ end # <<>> /\ string.ok
        THEN Read(string.json, Tail(end)) ELSE Failure

\* A member whose name was read: no '\0' in it, then a colon and a value.
Member(value, name) ==
    LET colon == Skipped[name.rest]
        read == value[Tail(colon)]
    IN  IF /\ name.ok
           /\ Nul \notin ToSet(name.json)
           /\ Begins(colon, {":"})
           /\ read.ok
        THEN Read([name |-> name.json, value |-> read.json], read.rest)
        ELSE Failure

\* The body of parse_object_value's loop.
parse_field(value, text) == Member(value, get_quoted_string(text))

Close(type) == IF type = "array" THEN "]" ELSE "}"

\* A slip: the text may end before the closing bracket.
Closed_AtEnd(text, type) == text = <<>> \/ Begins(text, {Close(type)})

Closed(text, type) == Begins(text, {Close(type)})

\* A round of the loops, "elements" being what the others make: behind an element
\* that was read comes a comma or the closing bracket, or one after the other.
Continued(type, element, elements) ==
    LET after == Skipped[element.rest]
        next == IF Begins(after, {","}) THEN Skipped[Tail(after)] ELSE after
        others == elements[next]
    IN  IF ~element.ok THEN Failure
        ELSE IF Closed(next, type) THEN Read(<<element.json>>, Behind(next, 1))
        ELSE IF Begins(after, {","}) /\ others.ok
        THEN Read(<<element.json>> \o others.json, others.rest)
        ELSE Failure

\* The loops of parse_object_value and parse_array_value, "value" being the
\* parse_value they call.
Elements(type, value) ==
    LET elements[text \in Text] ==
            Continued(type,
                      IF type = "array" THEN value[text] ELSE parse_field(value, text),
                      elements)
    IN  elements

\* parse_object_value and parse_array_value; a name that json_object_add finds
\* there already makes the whole fail.
Container(type, value, text) ==
    LET first == Skipped[Tail(text)]
        elements == Elements(type, value)[first]
    IN  IF Begins(first, {Close(type)}) THEN Read([type |-> type, of |-> <<>>], Tail(first))
        ELSE IF elements.ok /\ (type = "object" => Distinct(elements.json))
        THEN Read([type |-> type, of |-> elements.json], elements.rest)
        ELSE Failure

parse_string_value(text) ==
    LET read == get_quoted_string(text) IN
    IF read.ok THEN Read([type |-> "string", of |-> read.json], read.rest)
    ELSE Failure

\* parse_boolean_value and parse_null_value.
parse_literal_value(text) ==
    Read([type |-> "literal", of |-> <<Head(text)>>], Tail(text))

\* How much of a text strtod takes: the longest numeral it begins with.
Taken(text) == Max({0} \cup {n \in 1..Len(text) : SubSeq(text, 1, n) \in Numerals})

\* Where there is no numeral strtod stays and gives 0: so it does on "-".
parse_number_value(text) ==
    LET numeral == SubSeq(text, 1, Taken(text))
        number == IF numeral = <<>> THEN <<"0">> ELSE numeral
    IN  IF is_decimal(numeral) /\ numeral \notin Huge
        THEN Read([type |-> "number", of |-> number], Behind(text, Len(numeral)))
        ELSE Failure

\* A slip: one level more is read.
TooDeep_OffByOne(nesting) == nesting > MaxNesting + 1

TooDeep(nesting) == nesting > MaxNesting

\* What begins at one depth, "inner" being what parse_value reads one deeper.
Nested(nesting, inner) ==
    [start \in Text |->
        LET text == Skipped[start] IN
        CASE TooDeep(nesting) -> Failure
          [] ~TooDeep(nesting) /\ Begins(text, {"{"}) -> Container("object", inner, text)
          [] ~TooDeep(nesting) /\ Begins(text, {"["}) -> Container("array", inner, text)
          [] ~TooDeep(nesting) /\ Begins(text, {Quote}) -> parse_string_value(text)
          [] ~TooDeep(nesting) /\ Begins(text, Literals) -> parse_literal_value(text)
          [] ~TooDeep(nesting) /\ Begins(text, Lead) -> parse_number_value(text)
          [] OTHER -> Failure]

parse_value[nesting \in Nat] == Nested(nesting, parse_value[nesting + 1])

\* A mark of the byte order is skipped; what follows the value is not looked at.
json_parse_string(text) ==
    parse_value[0][IF Begins(text, {Bom}) THEN Tail(text) ELSE text]
=============================================================================
