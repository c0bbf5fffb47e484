---------------------------- MODULE ExchangeProofs ----------------------------
(***************************************************************************)
(* Proofs about Exchange: whatever the user types and whatever the server  *)
(* replies, the server reads the request that was meant and stores what    *)
(* was typed, the client takes the cookie and the token that the server    *)
(* gave, and reads a body as what it means or, if its end is missing and   *)
(* it is no number, not at all.                                            *)
(*                                                                         *)
(* The invariant follows the message: what is on the connection is the     *)
(* request that the answers compose (Underway), then a reply whose fields  *)
(* and body are known (ReplySound), and what is parsed is that body.  A    *)
(* second one (BodyInv) keeps what the server meant by the body, and what  *)
(* became of it, up to what the client makes of it.  That texts are read   *)
(* as what was written is TextProofs'.                                     *)
(***************************************************************************)
EXTENDS Exchange, TextProofs

\* A length is written as one piece that no reader looks for.
LengthsWritten == \A n \in Nat : Decimal(n) \in Piece \ Reserved

Plain == Seq(Piece \ Reserved)

Statuses == {OK, CREATED, NO_CONTENT, NoContent, NotFound}

\* What the client holds goes into one line.
HeldSound ==
    phase # "done" => cookie \in Plain \cup {NULL} /\ token \in Plain \cup {NULL}

\* Accepted answers, and the request that they make.
Underway ==
    phase \in {"request", "received"} =>
        /\ typed \in Answers[command] /\ Accepted(command, typed)
        /\ phase = "request" => wire = Composed(Meant(command, typed))

\* The object that the answers make.
ObjectSound ==
    /\ phase = "received" /\ HasBody(command) =>
         text = TextOf(Object(command, typed), <<>>, FALSE)
    /\ phase = "answering" /\ HasBody(command) =>
         /\ typed \in Answers[command] /\ Accepted(command, typed)
         /\ decoded = json_parse_string(TextOf(Object(command, typed), <<>>, FALSE))

Carried(fields) ==
    /\ wire = Reply(reply.status, fields, Len(reply.body), reply.body)
    /\ reply.status \in Statuses
    /\ reply.body \in Seq(Piece)

\* A granted login's reply has the cookie in a field of its own.
CookieSent ==
    /\ command = "login_user"
    /\ reply.given \in Cookies
    /\ reply.status \in Positive(command)
    /\ \E fields \in FieldsWith(reply.given) : Carried(fields)

\* The body gives this token.
Gives(body, given) ==
    /\ given \in Tokens
    /\ \E style \in Styles :
          body = TextOf(Said("token", given), style.newline, style.ascii)

\* Any other has the token in its body, if it gives one.
CookieNotSent ==
    /\ \E fields \in TypeFields : Carried(fields)
    /\ reply.given # NULL =>
         /\ command = "get_access"
         /\ reply.status \in Positive(command)
         /\ Gives(reply.body, reply.given)

ReplySound == phase \in {"reply", "parsing"} => CookieSent \/ CookieNotSent

\* A cookie is taken, not parsed for.
ParsingSound ==
    phase = "parsing" =>
        /\ text = reply.body
        /\ reply.given # NULL => command = "get_access" /\ Granted(wire, Positive(command))

\* What has been taken out of the reply.
TakenSound ==
    phase = "done" /\ reply.given # NULL =>
        IF command = "login_user" THEN reply.given = cookie
        ELSE /\ Gives(reply.body, reply.given)
             /\ token = Contents(json_parse_string(reply.body), "token")

\* Held at every step, and enough for the next one.
IInv ==
    /\ command \in DOMAIN Answers
    /\ HeldSound /\ Underway /\ ReadAsMeant /\ ObjectSound
    /\ ReplySound /\ ParsingSound /\ TakenSound

\* What a server says.
Sayings == Values \cup {Titled, Numbered, Denied} \cup {Said("token", given) : given \in Tokens}

\* The body of a reply is what its value is written as, but for what became of it.
OriginSound ==
    phase \in {"reply", "parsing", "done"} =>
        /\ reply.value \in Sayings
        /\ \E style \in Styles :
              [fault |-> reply.fault, sent |-> reply.body]
                  \in Damaged(TextOf(reply.value, style.newline, style.ascii))

\* The result is what parson reads of that body.
ResultSound ==
    result # NULL => phase = "done" /\ result = json_parse_string(reply.body)

\* What the client makes of a body.
BodyInv == OriginSound /\ ResultSound

-----------------------------------------------------------------------------
\* The texts.

\* No number is taken for NULL.
LEMMA LengthsAreTexts ==
    ASSUME LengthsWritten
    PROVE  \A n \in Nat : NULL # <<Decimal(n)>>
<1> SUFFICES ASSUME NEW n \in Nat PROVE NULL # <<Decimal(n)>>
  OBVIOUS
<1> DEFINE number == Decimal(n)
<1>1. number \in Piece
  BY DEF LengthsWritten
<1> HIDE DEF number
<1>2. <<number>> \in Text
  BY <1>1 DEF Text
<1>3. NULL # <<number>>
  BY <1>2, NullAssumption
<1> QED
  BY <1>3 DEF number

\* parson writes the object of a handler as a text.
LEMMA RequestText ==
    ASSUME NEW c \in DOMAIN Answers, NEW answers \in Answers[c],
           Accepted(c, answers), HasBody(c)
    PROVE  /\ TextOf(Object(c, answers), <<>>, FALSE) \in Text
           /\ TextOf(Object(c, answers), <<>>, FALSE) # NULL
<1> DEFINE object == Object(c, answers)
           newline == <<>>
           ascii == FALSE
<1>1. object \in Value
  BY RequestsAssumption
<1>2. newline \in Seq(WhiteSpace) /\ ascii \in BOOLEAN
  OBVIOUS
<1> HIDE DEF object, newline, ascii
<1>3. TextOf(object, newline, ascii) \in Text
  BY <1>1, <1>2, WrittenIsRead
<1>4. TextOf(object, newline, ascii) # NULL
  BY <1>3, NullAssumption
<1> QED
  BY <1>3, <1>4 DEF object, newline, ascii

\* So is everything that a server says.
LEMMA ReplyText ==
    ASSUME NEW style \in Styles,
           NEW value \in Values \cup {Titled, Numbered, Denied}
                            \cup {Said("token", given) : given \in Tokens}
    PROVE  /\ value \in Value
           /\ style.newline \in Seq(WhiteSpace) /\ style.ascii \in BOOLEAN
           /\ TextOf(value, style.newline, style.ascii) \in Seq(Piece)
<1> DEFINE newline == style.newline
           ascii == style.ascii
<1>1. newline \in Seq(WhiteSpace) /\ ascii \in BOOLEAN
  BY RepliesAssumption
<1>2. value \in Value
  BY RepliesAssumption
<1> HIDE DEF newline, ascii
<1>3. TextOf(value, newline, ascii) \in Text
  BY <1>1, <1>2, WrittenIsRead
<1> QED
  BY <1>1, <1>2, <1>3 DEF newline, ascii, Text

\* An object of strings and numbers that names no member twice, and none with a
\* '\0', is within parson's limits.
LEMMA FlatIsWellFormed ==
    ASSUME NEW json \in Value, json.type = "object", Distinct(json.of),
           \A i \in 1..Len(json.of) :
              /\ Nul \notin ToSet(json.of[i].name)
              /\ json.of[i].value.type \in {"string", "number"}
    PROVE  WellFormed(json)
<1> DEFINE m == MaxNesting - 1
           inner == Inner(TRUE, m)
           J == Inner(TRUE, MaxNesting)
<1>1. MaxNesting \in Nat /\ MaxNesting # 0 /\ m \in Nat
  BY NestingAssumption
<1>2. Json(TRUE)[MaxNesting] = Made(TRUE, J) /\ Json(TRUE)[m] = Made(TRUE, inner)
  BY <1>1, JsonEquation
<1>3. J = Made(TRUE, inner)
  BY <1>1, <1>2 DEF Inner
<1> HIDE DEF m, inner, J
<1>4. ASSUME NEW i \in 1..Len(json.of)
      PROVE  json.of[i].value \in J
  <2> DEFINE value == json.of[i].value
  <2>1. value \in Value
    BY ValueForms DEF InnerOf
  <2>2. value.type \in {"string", "number"}
    OBVIOUS
  <2> HIDE DEF value
  <2>3. value \in Made(TRUE, inner)
    BY <2>1, <2>2, ValidForms
  <2> QED
    BY <1>3, <2>3 DEF value
<1>5. 1..Len(json.of) \subseteq Fit(json, J)
  BY <1>4 DEF Fit, InnerOf
<1>6. json \in Made(TRUE, J)
  BY <1>5, ValidForms
<1> QED
  BY <1>2, <1>6 DEF WellFormed

\* A reply with a token is read as what it is.
LEMMA TokenRead ==
    ASSUME NEW style \in Styles, NEW given \in Tokens
    PROVE  json_parse_string(TextOf(Said("token", given), style.newline, style.ascii)).json
              = Said("token", given)
<1> DEFINE said == Said("token", given)
           newline == style.newline
           ascii == style.ascii
<1>1. said \in Value /\ newline \in Seq(WhiteSpace) /\ ascii \in BOOLEAN
  BY ReplyText
<1>2. WellFormed(said)
  <2> DEFINE string == [type |-> "string", of |-> given]
             name == <<"token">>
             field == [name |-> name, value |-> string]
  <2>1. said.type = "object" /\ said.of = <<field>> /\ string.type = "string"
    BY DEF Said
  <2>2. Nul \notin ToSet(name)
    <3>1. DOMAIN name = {1} /\ name[1] = "token"
      OBVIOUS
    <3> HIDE DEF name
    <3> QED
      BY <3>1 DEF ToSet, Nul
  <2>3. field.name = name /\ field.value = string
    OBVIOUS
  <2> HIDE DEF string, name, field
  <2>4. DOMAIN said.of = {1} /\ Len(said.of) = 1 /\ said.of[1] = field
    BY <2>1
  <2>5. Distinct(said.of)
    BY <2>4 DEF Distinct
  <2> HIDE DEF said
  <2>6. \A i \in 1..Len(said.of) : i = 1
    BY <2>4
  <2> QED
    BY <1>1, <2>1, <2>2, <2>3, <2>4, <2>5, <2>6, FlatIsWellFormed
<1> HIDE DEF said, newline, ascii
<1>3. json_parse_string(TextOf(said, newline, ascii)) = Read(said, <<>>)
  BY <1>1, <1>2, WrittenIsRead
<1>4. json_parse_string(TextOf(said, newline, ascii)).json = said
  BY <1>3 DEF Read
<1> QED
  BY <1>4 DEF said, newline, ascii

-----------------------------------------------------------------------------
\* The request.

\* Path, cookie, token and body that a handler passes on are what requests.c can
\* be given: nothing reserved in the first three.
LEMMA MeantIsACall ==
    ASSUME HeldSound, phase # "done",
           NEW c \in DOMAIN Answers, NEW answers \in Answers[c], Accepted(c, answers)
    PROVE  Meant(c, answers) \in Calls(Piece)
<1> DEFINE meant == Meant(c, answers)
           body == TextOf(Object(c, answers), <<>>, FALSE)
<1>1. c \in {"login_user", "add_user", "get_access", "get_movies", "get_movie",
             "add_movie", "update_movie", "delete_movie", "add_collection",
             "add_movie_to_collection"}
  BY DEF Answers
<1>2. Method[c] \in {"GET", "DELETE", "POST", "PUT"}
  BY <1>1 DEF Method
<1>3. Url(c, answers) \in Plain
  BY PathsAssumption DEF Plain
<1>4. HasBody(c) => body \in Seq(Piece)
  BY RequestText DEF Text
<1>5. cookie \in Plain \cup {NULL} /\ token \in Plain \cup {NULL}
  BY DEF HeldSound
<1> HIDE DEF body
<1>6. /\ meant = [method |-> meant.method, url |-> meant.url, cookie |-> meant.cookie,
                  token |-> meant.token, body |-> meant.body]
      /\ meant.method = Method[c]
      /\ meant.url = Url(c, answers)
      /\ meant.cookie \in {cookie, NULL}
      /\ meant.token \in {token, NULL}
      /\ meant.body = IF HasBody(c) THEN body ELSE NULL
  BY DEF Meant, body
<1> HIDE DEF meant
<1>7. meant \in Calls(Piece)
  <2>1. CASE HasBody(c)
    <3>1. Method[c] \in {"POST", "PUT"} /\ meant.body \in Seq(Piece)
      BY <1>4, <1>6, <2>1 DEF HasBody
    <3> QED
      BY <1>3, <1>5, <1>6, <3>1 DEF Calls, Plain
  <2>2. CASE ~HasBody(c)
    <3>1. Method[c] \in {"GET", "DELETE"} /\ meant.body = NULL
      BY <1>2, <1>6, <2>2 DEF HasBody
    <3> QED
      BY <1>3, <1>5, <1>6, <3>1 DEF Calls, Plain
  <2> QED
    BY <2>1, <2>2
<1> QED
  BY <1>7 DEF meant

-----------------------------------------------------------------------------
\* The reply.

\* The first piece of a text stays the first, whatever follows it.
LEMMA FirstStays ==
    ASSUME NEW S, NEW s \in Seq(S), NEW t \in Seq(S), NEW piece,
           Len(s) # 0, s[1] = piece
    PROVE  s \o t \in Seq(S) /\ Len(s \o t) # 0 /\ (s \o t)[1] = piece
<1> DEFINE whole == s \o t
<1>1. Joins(S, s, t, whole)
  BY Joined
<1> HIDE DEF whole
<1>2. PICK m \in Nat, n \in Nat : m = Len(s) /\ n = Len(t)
  BY <1>1 DEF Joins
<1>3. m # 0 /\ 1 \in 1..m
  BY <1>2
<1>4. Len(whole) = m + n /\ whole[1] = s[1] /\ whole \in Seq(S)
  BY <1>1, <1>2, <1>3 DEF Joins
<1>5. Len(whole) # 0
  BY <1>2, <1>3, <1>4
<1> QED
  BY <1>4, <1>5 DEF whole

\* The handlers see that a request was granted.
LEMMA PositiveIsGranted ==
    ASSUME NEW S, {LineEnd, LengthTag} \subseteq S, NEW status \in S, NEW fields \in Seq(S),
           NEW length, Decimal(length) \in S, NEW body \in Seq(S)
    PROVE  \A statuses : status \in statuses =>
              Granted(Reply(status, fields, length, body), statuses)
<1> DEFINE only == <<status>>
           blank == <<LineEnd>>
           lengthLine == Line(<<LengthTag, Decimal(length)>>)
           reply_sent == Reply(status, fields, length, body)
<1>1. only \in Seq(S) /\ Len(only) # 0 /\ only[1] = status /\ blank \in Seq(S)
  OBVIOUS
<1>2. lengthLine \in Seq(S)
  <2> DEFINE number == Decimal(length)
             pair == <<LengthTag, number>>
  <2> HIDE DEF number
  <2>1. pair \in Seq(S)
    BY DEF number
  <2> HIDE DEF pair, blank
  <2>2. pair \o blank \in Seq(S)
    BY <1>1, <2>1, Joined DEF Joins
  <2> QED
    BY <2>2 DEF Line, pair, number, blank
<1>3. reply_sent = only \o blank \o fields \o lengthLine \o blank \o body
  BY DEF Reply, Line, LengthTag
<1> HIDE DEF only, blank, lengthLine, reply_sent
<1>4. /\ only \o blank \in Seq(S) /\ Len(only \o blank) # 0
      /\ (only \o blank)[1] = status
  BY <1>1, FirstStays
<1> DEFINE a == only \o blank
           b == a \o fields
           c == b \o lengthLine
           d == c \o blank
<1> HIDE DEF a
<1>5. b \in Seq(S) /\ Len(b) # 0 /\ b[1] = status
  BY <1>4, FirstStays DEF a
<1> HIDE DEF b
<1>6. c \in Seq(S) /\ Len(c) # 0 /\ c[1] = status
  BY <1>2, <1>5, FirstStays
<1> HIDE DEF c
<1>7. d \in Seq(S) /\ Len(d) # 0 /\ d[1] = status
  BY <1>1, <1>6, FirstStays
<1> HIDE DEF d
<1>8. d \o body \in Seq(S) /\ Len(d \o body) # 0 /\ (d \o body)[1] = status
  BY <1>7, FirstStays
<1>9. reply_sent = d \o body
  BY <1>3 DEF a, b, c, d
<1>10. reply_sent \in Seq(S) /\ Len(reply_sent) # 0 /\ reply_sent[1] = status
  BY <1>8, <1>9
<1>11. 1 \in Nat \ {0} /\ 1 \in 1..Len(reply_sent) /\ \A j \in 1..(1 - 1) : reply_sent[j] # status
  BY <1>10, LenProperties
<1>12. PlaceOf(reply_sent, status, 1) = 1
  BY <1>10, <1>11, FirstPlace
<1> QED
  BY <1>12 DEF Granted, reply_sent

\* What may get into a body on its way: a figure, the mark of the byte order, and
\* two pieces that go on with no number.
LEMMA PiecesOnTheWay ==
    /\ {"a", "]", "0", Bom} \subseteq Piece
    /\ {"a", "]"} \cap Figure = {}
  BY RepliesAssumption, PiecesAssumption, FiguresAssumption DEF Lead

\* What becomes of a body on its way is still a text.
LEMMA DamagedIsText ==
    ASSUME NEW S, {"a", "]", "0", Bom} \subseteq S, NEW body \in Seq(S),
           NEW damaged \in Damaged(body)
    PROVE  damaged.sent \in Seq(S)
<1> DEFINE a == "a"
           b == "]"
           zero == "0"
           mark == Bom
<1>1. PICK n \in Nat : n = Len(body)
  BY LenProperties
<1>2. a \in S /\ b \in S /\ zero \in S /\ mark \in S
  OBVIOUS
<1>3. \/ damaged.sent = body
      \/ \E i \in 0..(n - 1) : damaged.sent = SubSeq(body, 1, i)
      \/ damaged.sent = body \o <<a>> \/ damaged.sent = body \o <<b>>
      \/ damaged.sent = <<mark>> \o body \/ damaged.sent = body \o <<zero>>
      \/ \E i \in DOMAIN body : damaged.sent = RemoveAt(body, i)
  BY <1>1 DEF Damaged
<1> HIDE DEF a, b, zero, mark
<1>4. ASSUME NEW i \in 0..(n - 1)
      PROVE  SubSeq(body, 1, i) \in Seq(S)
  <2>1. 1 \in Nat \ {0} /\ i \in (1 - 1)..Len(body)
    BY <1>1
  <2> QED
    BY <2>1, Parted DEF IsPart
<1>5. /\ body \o <<a>> \in Seq(S) /\ body \o <<b>> \in Seq(S)
      /\ body \o <<zero>> \in Seq(S) /\ <<mark>> \o body \in Seq(S)
  <2>1. <<a>> \in Seq(S) /\ <<b>> \in Seq(S) /\ <<zero>> \in Seq(S) /\ <<mark>> \in Seq(S)
    BY <1>2
  <2> QED
    BY <2>1, ConcatProperties
<1>6. ASSUME NEW i \in DOMAIN body
      PROVE  RemoveAt(body, i) \in Seq(S)
  <2> DEFINE front == SubSeq(body, 1, i - 1)
             back == SubSeq(body, i + 1, Len(body))
  <2>1. i \in 1..n
    BY <1>1, LenProperties
  <2>2. 1 \in Nat \ {0} /\ i - 1 \in (1 - 1)..Len(body)
    BY <1>1, <2>1
  <2>3. i + 1 \in Nat \ {0} /\ Len(body) \in ((i + 1) - 1)..Len(body)
    BY <1>1, <2>1
  <2>4. front \in Seq(S)
    BY <2>2, Parted DEF IsPart
  <2>5. back \in Seq(S)
    BY <2>3, Parted DEF IsPart
  <2>6. RemoveAt(body, i) = front \o back
    BY DEF RemoveAt
  <2> HIDE DEF front, back
  <2> QED
    BY <2>4, <2>5, <2>6, ConcatProperties
<1> QED
  BY <1>3, <1>4, <1>5, <1>6

\* A member that is alone in an object is the one that is found.
LEMMA SaidIsRead ==
    ASSUME NEW read, NEW name, NEW string, read.json = Said(name, string)
    PROVE  Contents(read, name) = string
<1> DEFINE member == [name |-> <<name>>, value |-> [type |-> "string", of |-> string]]
           members == <<member>>
<1>1. read.json.of = members
  BY DEF Said
<1>2. ToSet(members) = {member}
  <2>1. DOMAIN members = {1} /\ members[1] = member
    OBVIOUS
  <2> HIDE DEF members
  <2> QED
    BY <2>1 DEF ToSet
<1>3. member.name = <<name>> /\ member.value.of = string
  OBVIOUS
<1> HIDE DEF member, members
<1>4. (CHOOSE f \in {member} : f.name = <<name>>) = member
  BY <1>3
<1> QED
  BY <1>1, <1>2, <1>3, <1>4 DEF Contents

\* The status lines are taken for nothing else.
LEMMA StatusDiffers ==
    /\ Statuses \cap {LineEnd, CookieMark} = {}
    /\ \A c : Positive(c) \subseteq Statuses
<1>1. Statuses \cap {LineEnd, CookieMark} = {}
  BY DEF Statuses, OK, CREATED, NO_CONTENT, NoContent, NotFound, LineEnd, CookieMark
<1>2. ASSUME NEW c
      PROVE  Positive(c) \subseteq Statuses
  BY DEF Positive, Statuses
<1> QED
  BY <1>1, <1>2

\* Body, status and cookie are taken out of any reply that the server composes.
LEMMA ReplyUnderstood ==
    ASSUME LengthsWritten, CookieSent \/ CookieNotSent
    PROVE  /\ json_body(wire) = reply.body
           /\ \A statuses : reply.status \in statuses => Granted(wire, statuses)
           /\ CookieSent => extract_cookie(wire) = reply.given
<1> DEFINE length == Len(reply.body)
           S == ReplyPieces(Piece)
<1>1. CookieEnds \subseteq Seq(Piece)
  BY CredentialsAssumption
<1>2. ASSUME NEW cookie_sent \in Cookies
      PROVE  /\ cookie_sent \in Seq(Piece \ {LineEnd})
             /\ cookie_sent \in Seq(Piece \ {Semicolon})
             /\ cookie_sent \in Seq(Piece)
  <2>1. cookie_sent \in Seq(Piece \ (Reserved \cup {Semicolon}))
    BY CredentialsAssumption
  <2>2. LineEnd \in Reserved
    BY DEF Reserved
  <2>3. /\ Piece \ (Reserved \cup {Semicolon}) \subseteq Piece \ {LineEnd}
        /\ Piece \ (Reserved \cup {Semicolon}) \subseteq Piece \ {Semicolon}
        /\ Piece \ (Reserved \cup {Semicolon}) \subseteq Piece
    BY <2>2
  <2> QED
    BY <2>1, <2>3, SeqMonotonic
<1>3. Statuses \subseteq (Piece \ {LineEnd}) \cap (Piece \ {CookieMark})
  BY RepliesAssumption, StatusDiffers DEF Statuses
<1>4. \A n \in Nat : Decimal(n) \in Piece \ {LineEnd}
  BY DEF LengthsWritten, Reserved
<1>5. ASSUME NEW fields, Carried(fields),
             NEW cookie_sent \in Seq(Piece \ {LineEnd}),
             fields \in FieldsWith(cookie_sent) \cup TypeFields,
             fields \in Seq(S)
      PROVE  /\ json_body(wire) = reply.body
             /\ \A statuses : reply.status \in statuses => Granted(wire, statuses)
  <2>1. /\ wire = Reply(reply.status, fields, length, reply.body)
        /\ reply.status \in Statuses
        /\ reply.body \in Seq(Piece)
    BY <1>5 DEF Carried
  <2>2. length \in Nat
    BY <2>1, LenProperties
  <2>3. Decimal(length) \in Piece \ {LineEnd}
    BY <1>4, <2>2
  <2>4. reply.status \in Piece \ {LineEnd}
    BY <1>3, <2>1
  <2> HIDE DEF length
  <2>5. json_body(wire) = reply.body
    BY <1>1, <1>5, <2>1, <2>3, <2>4, BodyExtracted
  <2>6. \A statuses : reply.status \in statuses =>
           Granted(Reply(reply.status, fields, length, reply.body), statuses)
    <3>1. Piece \subseteq S /\ {LineEnd, LengthTag} \subseteq S
      BY DEF ReplyPieces, Written
    <3>2. reply.status \in S /\ Decimal(length) \in S
      BY <2>3, <2>4, <3>1
    <3> HIDE DEF S
    <3>3. reply.body \in Seq(S)
      BY <2>1, <3>1, SeqMonotonic
    <3> DEFINE status == reply.status
               sent == reply.body
    <3>4. status \in S /\ sent \in Seq(S)
      BY <3>2, <3>3
    <3> HIDE DEF status, sent
    <3>5. \A statuses : status \in statuses =>
             Granted(Reply(status, fields, length, sent), statuses)
      BY <1>5, <3>1, <3>2, <3>4, PositiveIsGranted
    <3> QED
      BY <3>5 DEF status, sent
  <2> QED
    BY <2>1, <2>5, <2>6
<1>6. ASSUME CookieSent
      PROVE  /\ json_body(wire) = reply.body
             /\ \A statuses : reply.status \in statuses => Granted(wire, statuses)
             /\ extract_cookie(wire) = reply.given
  <2>1. PICK fields \in FieldsWith(reply.given) : Carried(fields)
    BY <1>6 DEF CookieSent
  <2>2. reply.given \in Cookies
    BY <1>6 DEF CookieSent
  <2>3. /\ reply.given \in Seq(Piece \ {LineEnd})
        /\ reply.given \in Seq(Piece \ {Semicolon})
        /\ reply.given \in Seq(Piece)
    BY <1>2, <2>2
  <2>4. fields \in Seq(S)
    BY <1>1, <2>1, <2>3, FieldsCarry
  <2>5. /\ json_body(wire) = reply.body
        /\ \A statuses : reply.status \in statuses => Granted(wire, statuses)
    BY <1>5, <2>1, <2>3, <2>4
  <2>6. /\ wire = Reply(reply.status, fields, length, reply.body)
        /\ reply.status \in Piece \ {CookieMark}
        /\ reply.body \in Seq(Piece)
    BY <1>3, <2>1 DEF Carried
  <2>7. Decimal(length) \in Piece
    BY <1>4, <2>6, LenProperties
  <2> HIDE DEF length
  <2>8. extract_cookie(wire) = reply.given
    BY <1>1, <2>1, <2>3, <2>6, <2>7, CookieExtracted
  <2> QED
    BY <2>5, <2>8
<1>7. ASSUME CookieNotSent
      PROVE  /\ json_body(wire) = reply.body
             /\ \A statuses : reply.status \in statuses => Granted(wire, statuses)
  <2>1. PICK fields \in TypeFields : Carried(fields)
    BY <1>7 DEF CookieNotSent
  <2>2. fields \in Seq(S)
    BY <2>1, TypeLine DEF Lines
  <2>3. <<>> \in Seq(Piece \ {LineEnd})
    BY EmptySeq
  <2> QED
    BY <1>5, <2>1, <2>2, <2>3
<1> QED
  BY <1>6, <1>7

-----------------------------------------------------------------------------
\* The steps.

LEMMA InitSound ==
    ASSUME Init
    PROVE  IInv
<1>1. \A x \in Cookies \cup Tokens : x \in Plain
  <2>1. Piece \ (Reserved \cup {Semicolon}) \subseteq Piece \ Reserved
    OBVIOUS
  <2>2. Seq(Piece \ (Reserved \cup {Semicolon})) \subseteq Seq(Piece \ Reserved)
    BY <2>1, SeqMonotonic
  <2> QED
    BY <2>2, CredentialsAssumption DEF Plain
<1>2. HeldSound
  BY <1>1 DEF Init, HeldSound
<1> QED
  BY <1>2 DEF Init, IInv, Underway, ReadAsMeant, ObjectSound, ReplySound, ParsingSound,
       TakenSound

LEMMA SendSound ==
    ASSUME IInv, Send
    PROVE  IInv'
<1>1. PICK answers \in Answers[command] :
         /\ Accepted(command, answers)
         /\ typed' = answers
         /\ wire' = Composed(Meant(command, answers))
  BY DEF Send
<1>2. /\ phase' = "request"
      /\ command' = command /\ cookie' = cookie /\ token' = token
      /\ phase = "asking"
  BY DEF Send
<1>3. Meant(command, typed)' = Meant(command, answers)
  BY <1>1, <1>2 DEF Meant
<1>4. Underway'
  BY <1>1, <1>2, <1>3 DEF Underway, Meant
<1>5. HeldSound'
  BY <1>2 DEF IInv, HeldSound
<1>6. ReadAsMeant' /\ ObjectSound' /\ ReplySound' /\ ParsingSound' /\ TakenSound'
  BY <1>2 DEF ReadAsMeant, ObjectSound, ReplySound, ParsingSound, TakenSound
<1>7. (command \in DOMAIN Answers)'
  BY <1>2 DEF IInv, Answers
<1> QED
  BY <1>4, <1>5, <1>6, <1>7 DEF IInv

LEMMA RefuseSound ==
    ASSUME IInv, Refuse
    PROVE  IInv'
<1>1. /\ phase' = "refused"
      /\ command' = command /\ cookie' = cookie /\ token' = token
      /\ phase = "asking"
  BY DEF Refuse
<1>2. HeldSound' /\ (command \in DOMAIN Answers)'
  BY <1>1 DEF IInv, HeldSound, Answers
<1>3. Underway' /\ ReadAsMeant' /\ ObjectSound' /\ ReplySound' /\ ParsingSound' /\ TakenSound'
  BY <1>1 DEF Underway, ReadAsMeant, ObjectSound, ReplySound, ParsingSound, TakenSound
<1> QED
  BY <1>2, <1>3 DEF IInv

\* The server reads the request as it was meant.
LEMMA ReceiveSound ==
    ASSUME LengthsWritten, IInv, Receive
    PROVE  IInv'
<1>1. /\ phase = "request" /\ phase' = "received"
      /\ seen' = Understood(wire)
      /\ text' = IF seen'.body = NULL THEN <<>> ELSE seen'.body
      /\ command' = command /\ typed' = typed /\ cookie' = cookie /\ token' = token
  BY DEF Receive
<1> DEFINE meant == Meant(command, typed)
<1>2. /\ command \in DOMAIN Answers
      /\ typed \in Answers[command] /\ Accepted(command, typed)
      /\ wire = Composed(meant)
  BY <1>1 DEF IInv, Underway
<1>3. meant \in Calls(Piece)
  BY <1>1, <1>2, MeantIsACall DEF IInv
<1>4. seen' = AsGiven(meant)
  <2> HIDE DEF meant
  <2> QED
    BY <1>1, <1>2, <1>3, LengthsAreTexts, RequestUnderstood DEF LengthsWritten
<1>5. Meant(command, typed)' = meant
  BY <1>1 DEF Meant
<1>6. ReadAsMeant'
  BY <1>1, <1>4, <1>5 DEF ReadAsMeant
<1>7. ObjectSound'
  <2> DEFINE body == TextOf(Object(command, typed), <<>>, FALSE)
  <2>1. seen'.body = meant.body
    BY <1>4 DEF AsGiven
  <2>2. HasBody(command) => meant.body = body /\ body # NULL
    <3>1. HasBody(command) => body # NULL
      BY <1>2, RequestText
    <3> HIDE DEF body
    <3>2. meant.body = IF HasBody(command) THEN body ELSE NULL
      BY DEF Meant, body
    <3> QED
      BY <3>1, <3>2
  <2>3. HasBody(command) => text' = body
    <3> HIDE DEF body, meant
    <3> QED
      BY <1>1, <2>1, <2>2
  <2>4. HasBody(command)' = HasBody(command) /\ body' = body
    BY <1>1 DEF HasBody, Object
  <2> HIDE DEF body
  <2>5. phase' # "answering"
    BY <1>1
  <2>6. ObjectSound' <=> (HasBody(command)' => text' = body')
    BY <1>1, <2>5 DEF ObjectSound, body
  <2> QED
    BY <2>3, <2>4, <2>6
<1>8. HeldSound' /\ Underway' /\ (command \in DOMAIN Answers)'
  BY <1>1, <1>2 DEF IInv, HeldSound, Underway, Answers
<1>9. ReplySound' /\ ParsingSound' /\ TakenSound'
  BY <1>1 DEF ReplySound, ParsingSound, TakenSound
<1> QED
  BY <1>6, <1>7, <1>8, <1>9 DEF IInv

LEMMA DecodeSound ==
    ASSUME IInv, Decode
    PROVE  IInv'
<1>1. /\ phase' = "answering" /\ phase = "received"
      /\ decoded' = IF HasBody(command) THEN json_parse_string(text) ELSE NULL
      /\ command' = command /\ typed' = typed /\ cookie' = cookie /\ token' = token
  BY DEF Decode
<1>2. HeldSound' /\ (command \in DOMAIN Answers)'
  BY <1>1 DEF IInv, HeldSound, Answers
<1>3. ASSUME HasBody(command)
      PROVE  /\ typed \in Answers[command] /\ Accepted(command, typed)
             /\ decoded' = json_parse_string(TextOf(Object(command, typed), <<>>, FALSE))
  <2> DEFINE body == TextOf(Object(command, typed), <<>>, FALSE)
  <2>1. command \in DOMAIN Answers /\ typed \in Answers[command] /\ Accepted(command, typed)
    BY <1>1 DEF IInv, Underway
  <2>2. text = body
    BY <1>1, <1>3 DEF IInv, ObjectSound
  <2> HIDE DEF body
  <2>3. decoded' = json_parse_string(body)
    BY <1>1, <1>3, <2>2
  <2> QED
    BY <2>1, <2>3 DEF body
<1>4. ObjectSound'
  BY <1>1, <1>3 DEF ObjectSound, HasBody, Object, Answers
<1>5. Underway' /\ ReadAsMeant'
  BY <1>1 DEF Underway, ReadAsMeant
<1>6. ReplySound' /\ ParsingSound' /\ TakenSound'
  BY <1>1 DEF ReplySound, ParsingSound, TakenSound
<1> QED
  BY <1>2, <1>4, <1>5, <1>6 DEF IInv

\* What has to be known of a reply.
LEMMA AnsweredSound ==
    ASSUME IInv, phase = "answering", NEW status \in Statuses, NEW fields,
           NEW value, NEW body \in Seq(Piece), NEW fault, NEW given,
           Answered(status, fields, value, body, fault, given),
           \/ /\ command = "login_user" /\ status \in Positive(command)
              /\ given \in Cookies /\ fields \in FieldsWith(given)
           \/ /\ fields \in TypeFields
              /\ given # NULL => /\ command = "get_access"
                                 /\ status \in Positive(command)
                                 /\ Gives(body, given)
    PROVE  IInv'
<1>1. /\ phase' = "reply"
      /\ wire' = Reply(status, fields, Len(body), body)
      /\ reply'.status = status /\ reply'.body = body /\ reply'.given = given
      /\ command' = command /\ cookie' = cookie /\ token' = token
  BY DEF Answered
<1>2. Carried(fields)'
  BY <1>1 DEF Carried
<1>3. (CookieSent \/ CookieNotSent)'
  <2>1. CASE /\ command = "login_user" /\ status \in Positive(command)
             /\ given \in Cookies /\ fields \in FieldsWith(given)
    <3>1. reply'.given \in Cookies /\ fields \in FieldsWith(reply'.given)
      BY <1>1, <2>1
    <3>2. (\E f \in FieldsWith(reply.given) : Carried(f))'
      BY <1>2, <3>1
    <3>3. CookieSent'
      BY <1>1, <2>1, <3>1, <3>2 DEF CookieSent
    <3> QED
      BY <3>3
  <2>2. CASE /\ fields \in TypeFields
             /\ given # NULL => /\ command = "get_access"
                                /\ status \in Positive(command)
                                /\ Gives(body, given)
    <3>1. (\E f \in TypeFields : Carried(f))'
      BY <1>2, <2>2
    <3>2. CookieNotSent'
      BY <1>1, <2>2, <3>1 DEF CookieNotSent
    <3> QED
      BY <3>2
  <2> QED
    BY <2>1, <2>2
<1>4. HeldSound' /\ (command \in DOMAIN Answers)'
  BY <1>1 DEF IInv, HeldSound, Answers
<1>5. Underway' /\ ReadAsMeant' /\ ObjectSound' /\ ReplySound' /\ ParsingSound' /\ TakenSound'
  BY <1>1, <1>3 DEF Underway, ReadAsMeant, ObjectSound, ReplySound, ParsingSound, TakenSound
<1> QED
  BY <1>4, <1>5 DEF IInv

LEMMA GrantSound ==
    ASSUME IInv, Grant
    PROVE  IInv'
<1>1. phase = "answering"
  BY DEF Grant
<1>2. PICK style \in Styles,
           status \in IF command \in Reading THEN Positive(command) \cap {OK, CREATED}
                      ELSE Positive(command),
           given \in IF command = "login_user" THEN Cookies
                     ELSE IF command = "get_access" THEN Tokens ELSE {NULL} :
         \E fields \in IF command = "login_user" THEN FieldsWith(given) ELSE TypeFields :
         LET value == IF command = "get_access" THEN Said("token", given)
                      ELSE IF command = "add_collection" THEN Numbered
                      ELSE Titled
         IN  Answered(status, fields, value,
                      TextOf(value, style.newline, style.ascii), "none", given)
  BY DEF Grant
<1>3. status \in Statuses /\ status \in Positive(command)
  BY <1>2, StatusDiffers
<1> DEFINE value == IF command = "get_access" THEN Said("token", given)
                    ELSE IF command = "add_collection" THEN Numbered
                    ELSE Titled
           body == TextOf(value, style.newline, style.ascii)
<1>4. PICK fields \in IF command = "login_user" THEN FieldsWith(given) ELSE TypeFields :
         Answered(status, fields, value, body, "none", given)
  BY <1>2
<1>5. CASE command = "login_user"
  <2>1. body \in Seq(Piece)
    <3>1. value = Titled
      BY <1>5
    <3> QED
      BY <3>1, ReplyText
  <2>2. given \in Cookies /\ fields \in FieldsWith(given)
    BY <1>2, <1>5
  <2> HIDE DEF body, value
  <2> QED
    BY <1>1, <1>3, <1>4, <1>5, <2>1, <2>2, AnsweredSound
<1>6. CASE command = "get_access"
  <2>1. value = Said("token", given) /\ given \in Tokens
    BY <1>2, <1>6
  <2>2. body \in Seq(Piece) /\ Gives(body, given)
    <3>1. value \in {Said("token", other) : other \in Tokens}
      BY <2>1
    <3>2. TextOf(value, style.newline, style.ascii) \in Seq(Piece)
      <4> HIDE DEF value
      <4> QED
        BY <3>1, ReplyText
    <3> QED
      BY <2>1, <3>2 DEF Gives
  <2>3. fields \in TypeFields
    BY <1>2, <1>6
  <2> HIDE DEF body, value
  <2> QED
    BY <1>1, <1>3, <1>4, <1>6, <2>2, <2>3, AnsweredSound
<1>7. CASE command \notin {"login_user", "get_access"}
  <2>1. body \in Seq(Piece)
    <3>1. value \in {Titled, Numbered}
      BY <1>7
    <3> HIDE DEF value
    <3> QED
      BY <3>1, ReplyText
  <2>2. given = NULL /\ fields \in TypeFields
    BY <1>2, <1>7
  <2> HIDE DEF body, value
  <2> QED
    BY <1>1, <1>3, <1>4, <2>1, <2>2, AnsweredSound
<1> QED
  BY <1>5, <1>6, <1>7

LEMMA GrantMoviesSound ==
    ASSUME IInv, GrantMovies
    PROVE  IInv'
<1>1. phase = "answering"
  BY DEF GrantMovies
<1>2. PICK value \in Values, style \in Styles :
      \E damaged \in Damaged(TextOf(value, style.newline, style.ascii)) :
         Answered(OK, TypeField(<<>>), value, damaged.sent, damaged.fault, NULL)
  BY DEF GrantMovies
<1> DEFINE body == TextOf(value, style.newline, style.ascii)
<1>3. PICK damaged \in Damaged(body) :
         Answered(OK, TypeField(<<>>), value, damaged.sent, damaged.fault, NULL)
  BY <1>2
<1>4. body \in Seq(Piece) /\ {"a", "]", "0", Bom} \subseteq Piece
  BY ReplyText, PiecesOnTheWay
<1> HIDE DEF body
<1>5. damaged.sent \in Seq(Piece)
  BY <1>3, <1>4, DamagedIsText
<1>6. TypeField(<<>>) \in TypeFields /\ OK \in Statuses
  BY DEF TypeFields, Statuses
<1> QED
  BY <1>1, <1>3, <1>5, <1>6, AnsweredSound

LEMMA DenySound ==
    ASSUME IInv, Deny
    PROVE  IInv'
<1>1. phase = "answering"
  BY DEF Deny
<1>2. PICK style \in Styles, type \in TypeFields :
         Answered(NotFound, type, Denied,
                  TextOf(Denied, style.newline, style.ascii), "none", NULL)
  BY DEF Deny
<1> DEFINE body == TextOf(Denied, style.newline, style.ascii)
<1>3. body \in Seq(Piece)
  BY ReplyText
<1> HIDE DEF body
<1>4. Answered(NotFound, type, Denied, body, "none", NULL)
  BY <1>2 DEF body
<1>5. NotFound \in Statuses
  BY DEF Statuses
<1> QED
  BY <1>1, <1>3, <1>4, <1>5, AnsweredSound

LEMMA TakeCookieSound ==
    ASSUME LengthsWritten, IInv, TakeCookie
    PROVE  IInv'
<1>1. /\ phase = "reply" /\ command = "login_user"
      /\ cookie' = extract_cookie(wire) /\ phase' = "done"
      /\ command' = command /\ reply' = reply
  BY DEF TakeCookie
<1>2. CookieSent \/ CookieNotSent
  BY <1>1 DEF IInv, ReplySound
<1>3. reply.given # NULL => cookie' = reply.given
  <2>1. CASE CookieSent
    <3>1. extract_cookie(wire) = reply.given
      BY <1>2, <2>1, ReplyUnderstood
    <3> QED
      BY <1>1, <3>1
  <2>2. CASE CookieNotSent
    BY <1>1, <2>2 DEF CookieNotSent
  <2> QED
    BY <1>2, <2>1, <2>2
<1>4. TakenSound'
  BY <1>1, <1>3 DEF TakenSound
<1>5. (command \in DOMAIN Answers)'
  BY <1>1 DEF Answers
<1>6. HeldSound' /\ Underway' /\ ReadAsMeant' /\ ObjectSound' /\ ReplySound' /\ ParsingSound'
  BY <1>1 DEF HeldSound, Underway, ReadAsMeant, ObjectSound, ReplySound, ParsingSound
<1> QED
  BY <1>4, <1>5, <1>6 DEF IInv

\* A cookie is never looked for in a body.
LEMMA TakeBodySound ==
    ASSUME LengthsWritten, IInv, TakeBody
    PROVE  IInv'
<1>1. /\ phase = "reply" /\ phase' = "parsing"
      /\ ~Granted(wire, Positive(command)) \/ command \in Reading
      /\ text' = json_body(wire)
      /\ command' = command /\ cookie' = cookie /\ token' = token
      /\ wire' = wire /\ reply' = reply
  BY DEF TakeBody
<1>2. CookieSent \/ CookieNotSent
  BY <1>1 DEF IInv, ReplySound
<1>3. /\ json_body(wire) = reply.body
      /\ \A statuses : reply.status \in statuses => Granted(wire, statuses)
  BY <1>2, ReplyUnderstood
<1>4. reply.given # NULL => command = "get_access" /\ Granted(wire, Positive(command))
  <2>1. CASE CookieSent
    <3>1. command = "login_user" /\ reply.status \in Positive(command)
      BY <2>1 DEF CookieSent
    <3> QED
      BY <1>1, <1>3, <3>1 DEF Reading
  <2>2. CASE CookieNotSent
    <3>1. reply.given # NULL => command = "get_access" /\ reply.status \in Positive(command)
      BY <2>2 DEF CookieNotSent
    <3> QED
      BY <1>3, <3>1
  <2> QED
    BY <1>2, <2>1, <2>2
<1>5. ParsingSound'
  <2>1. text' = reply'.body
    BY <1>1, <1>3
  <2>2. reply'.given # NULL => command' = "get_access"
    BY <1>1, <1>4
  <2>3. reply'.given # NULL => Granted(wire, Positive(command))'
    BY <1>1, <1>4 DEF Granted, Positive
  <2> QED
    BY <2>1, <2>2, <2>3 DEF ParsingSound
<1>6. ReplySound'
  BY <1>1, <1>2 DEF ReplySound, CookieSent, CookieNotSent, Carried, Positive
<1>7. HeldSound' /\ (command \in DOMAIN Answers)'
  BY <1>1 DEF IInv, HeldSound, Answers
<1>8. Underway' /\ ReadAsMeant' /\ ObjectSound' /\ TakenSound'
  BY <1>1 DEF Underway, ReadAsMeant, ObjectSound, TakenSound
<1> QED
  BY <1>5, <1>6, <1>7, <1>8 DEF IInv

LEMMA TakeNothingSound ==
    ASSUME IInv, TakeNothing
    PROVE  IInv'
<1>1. /\ phase = "reply" /\ phase' = "done"
      /\ command \notin {"login_user", "get_access"}
      /\ command' = command /\ reply' = reply
  BY DEF TakeNothing, Reading
<1>2. CookieSent \/ CookieNotSent
  BY <1>1 DEF IInv, ReplySound
<1>3. ~(reply.given # NULL)
  BY <1>1, <1>2 DEF CookieSent, CookieNotSent
<1>4. TakenSound'
  BY <1>1, <1>3 DEF TakenSound
<1>5. (command \in DOMAIN Answers)'
  BY <1>1 DEF IInv, Answers
<1>6. HeldSound' /\ Underway' /\ ReadAsMeant' /\ ObjectSound' /\ ReplySound' /\ ParsingSound'
  BY <1>1 DEF HeldSound, Underway, ReadAsMeant, ObjectSound, ReplySound, ParsingSound
<1> QED
  BY <1>4, <1>5, <1>6 DEF IInv

LEMMA ParseSound ==
    ASSUME IInv, Parse
    PROVE  IInv'
<1>1. /\ phase = "parsing" /\ phase' = "done"
      /\ result' = json_parse_string(text)
      /\ token' = IF command = "get_access" /\ Granted(wire, Positive(command))
                  THEN Contents(result', "token") ELSE token
      /\ command' = command /\ reply' = reply
  BY DEF Parse
<1>2. CookieSent \/ CookieNotSent
  BY <1>1 DEF IInv, ReplySound
<1>3. /\ text = reply.body
      /\ reply.given # NULL => command = "get_access" /\ Granted(wire, Positive(command))
  BY <1>1 DEF IInv, ParsingSound
<1>4. ASSUME reply.given # NULL
      PROVE  /\ command # "login_user"
             /\ Gives(reply.body, reply.given)
             /\ token' = Contents(json_parse_string(reply.body), "token")
  <2>1. command = "get_access" /\ Granted(wire, Positive(command))
    BY <1>3, <1>4
  <2>2. Gives(reply.body, reply.given)
    BY <1>2, <1>4, <2>1 DEF CookieSent, CookieNotSent
  <2>3. token' = Contents(json_parse_string(text), "token")
    BY <1>1, <2>1
  <2> QED
    BY <1>3, <2>1, <2>2, <2>3
<1>5. TakenSound'
  BY <1>1, <1>4 DEF TakenSound
<1>6. (command \in DOMAIN Answers)'
  BY <1>1 DEF IInv, Answers
<1>7. HeldSound' /\ Underway' /\ ReadAsMeant' /\ ObjectSound' /\ ReplySound' /\ ParsingSound'
  BY <1>1 DEF HeldSound, Underway, ReadAsMeant, ObjectSound, ReplySound, ParsingSound
<1> QED
  BY <1>5, <1>6, <1>7 DEF IInv

\* Every step keeps the invariant.
LEMMA Inductive ==
    ASSUME LengthsWritten, IInv, [Next]_vars
    PROVE  IInv'
<1>1. CASE UNCHANGED vars
  <2>1. HeldSound' /\ Underway' /\ (command \in DOMAIN Answers)'
    BY <1>1 DEF vars, IInv, HeldSound, Underway, Meant, Answers
  <2>2. ReadAsMeant' /\ ObjectSound'
    BY <1>1 DEF vars, IInv, ReadAsMeant, ObjectSound, Meant
  <2>3. ReplySound'
    BY <1>1 DEF vars, IInv, ReplySound, CookieSent, CookieNotSent, Carried, Positive
  <2>4. ParsingSound' /\ TakenSound'
    BY <1>1 DEF vars, IInv, ParsingSound, TakenSound, Granted, Positive
  <2> QED
    BY <2>1, <2>2, <2>3, <2>4 DEF IInv
<1>2. CASE Next
  BY <1>2, SendSound, RefuseSound, ReceiveSound, DecodeSound, GrantSound,
     GrantMoviesSound, DenySound, TakeCookieSound, TakeBodySound, TakeNothingSound,
     ParseSound DEF Next
<1> QED
  BY <1>1, <1>2

LEMMA Invariance ==
    ASSUME LengthsWritten
    PROVE  Spec => []IInv
<1>1. Init => IInv
  BY InitSound
<1>2. IInv /\ [Next]_vars => IInv'
  BY Inductive
<1> QED
  BY <1>1, <1>2, PTL DEF Spec

-----------------------------------------------------------------------------
\* Bodies.

\* What may become of a body, by its fault.
LEMMA DamagedForms ==
    ASSUME NEW body, NEW fault, NEW sent, [fault |-> fault, sent |-> sent] \in Damaged(body)
    PROVE  /\ fault = "none" => sent = body
           /\ fault = "bom" => sent = <<Bom>> \o body
           /\ fault = "figure" => sent = body \o <<"0">>
           /\ fault = "more" => sent = body \o <<"a">> \/ sent = body \o <<"]">>
           /\ fault = "cut" => \E n \in 0..(Len(body) - 1) : sent = SubSeq(body, 1, n)
<1> DEFINE damaged == [fault |-> fault, sent |-> sent]
           a == body \o <<"a">>
           b == body \o <<"]">>
           zero == body \o <<"0">>
           marked == <<Bom>> \o body
           cut(n) == SubSeq(body, 1, n)
           lost(n) == RemoveAt(body, n)
<1>1. \/ damaged = [fault |-> "none", sent |-> body]
      \/ damaged = [fault |-> "bom", sent |-> marked]
      \/ damaged = [fault |-> "figure", sent |-> zero]
      \/ \E n \in 0..(Len(body) - 1) : damaged = [fault |-> "cut", sent |-> cut(n)]
      \/ damaged = [fault |-> "more", sent |-> a] \/ damaged = [fault |-> "more", sent |-> b]
      \/ \E n \in DOMAIN body : damaged = [fault |-> "lost", sent |-> lost(n)]
  BY DEF Damaged
<1> HIDE DEF a, b, zero, marked, cut, lost
<1>2. \/ fault = "none" /\ sent = body
      \/ fault = "bom" /\ sent = marked
      \/ fault = "figure" /\ sent = zero
      \/ fault = "cut" /\ \E n \in 0..(Len(body) - 1) : sent = cut(n)
      \/ fault = "more" /\ (sent = a \/ sent = b)
      \/ fault = "lost"
  BY <1>1
<1>3. /\ fault = "none" => sent = body
      /\ fault = "bom" => sent = marked
      /\ fault = "figure" => sent = zero
      /\ fault = "more" => sent = a \/ sent = b
      /\ fault = "cut" => \E n \in 0..(Len(body) - 1) : sent = cut(n)
  BY <1>2
<1> QED
  BY <1>3 DEF a, b, zero, marked, cut

\* The body of every reply is a text.
LEMMA BodyIsText ==
    ASSUME OriginSound, phase \in {"reply", "parsing", "done"}
    PROVE  reply.body \in Text
<1>1. PICK style \in Styles :
         [fault |-> reply.fault, sent |-> reply.body]
             \in Damaged(TextOf(reply.value, style.newline, style.ascii))
  BY DEF OriginSound
<1> DEFINE body == TextOf(reply.value, style.newline, style.ascii)
           damaged == [fault |-> reply.fault, sent |-> reply.body]
<1>2. body \in Seq(Piece)
  <2>1. reply.value \in Sayings
    BY DEF OriginSound
  <2> QED
    BY <2>1, ReplyText DEF Sayings
<1>3. {"a", "]", "0", Bom} \subseteq Piece
  BY PiecesOnTheWay
<1>4. damaged \in Damaged(body) /\ damaged.sent = reply.body
  BY <1>1
<1> HIDE DEF body, damaged
<1>5. damaged.sent \in Seq(Piece)
  BY <1>2, <1>3, <1>4, DamagedIsText
<1> QED
  BY <1>4, <1>5 DEF Text

LEMMA BodyInit ==
    ASSUME Init
    PROVE  BodyInv
  BY DEF Init, BodyInv, OriginSound, ResultSound

\* Nothing is replied and nothing is parsed yet.
LEMMA BodyBefore ==
    ASSUME BodyInv, Send \/ Refuse \/ Receive \/ Decode
    PROVE  BodyInv'
<1>1. /\ phase # "done" /\ result' = result
      /\ phase' \notin {"reply", "parsing", "done"}
  BY DEF Send, Refuse, Receive, Decode
<1> QED
  BY <1>1 DEF BodyInv, OriginSound, ResultSound

\* A reply is sent.
LEMMA BodyAnswered ==
    ASSUME BodyInv, phase = "answering",
           NEW style \in Styles, NEW value \in Sayings,
           NEW damaged \in Damaged(TextOf(value, style.newline, style.ascii)),
           damaged = [fault |-> damaged.fault, sent |-> damaged.sent],
           NEW status, NEW fields, NEW given,
           Answered(status, fields, value, damaged.sent, damaged.fault, given)
    PROVE  BodyInv'
<1>1. /\ phase' = "reply" /\ result' = result
      /\ reply'.value = value /\ reply'.fault = damaged.fault /\ reply'.body = damaged.sent
  BY DEF Answered
<1>2. result = NULL
  BY DEF BodyInv, ResultSound
<1>3. ResultSound'
  BY <1>1, <1>2 DEF ResultSound
<1>4. OriginSound'
  <2> DEFINE origin == Damaged(TextOf(value, style.newline, style.ascii))
             after == Damaged(TextOf(reply'.value, style.newline, style.ascii))
  <2>1. after = origin
    BY <1>1
  <2>2. [fault |-> reply'.fault, sent |-> reply'.body] \in after
    <3> HIDE DEF origin, after
    <3>1. damaged \in origin
      BY DEF origin
    <3> QED
      BY <1>1, <2>1, <3>1, Zenon
  <2>3. reply'.value \in Sayings'
    BY <1>1 DEF Sayings, Titled, Numbered, Denied, Said
  <2> QED
    BY <2>2, <2>3 DEF OriginSound
<1> QED
  BY <1>3, <1>4 DEF BodyInv

\* A body on which nothing happens.
LEMMA Undamaged ==
    ASSUME NEW body
    PROVE  [fault |-> "none", sent |-> body] \in Damaged(body)
  BY DEF Damaged

LEMMA BodyGrant ==
    ASSUME IInv, BodyInv, Grant
    PROVE  BodyInv'
<1>1. phase = "answering"
  BY DEF Grant
<1>2. PICK style \in Styles,
           status \in IF command \in Reading THEN Positive(command) \cap {OK, CREATED}
                      ELSE Positive(command),
           given \in IF command = "login_user" THEN Cookies
                     ELSE IF command = "get_access" THEN Tokens ELSE {NULL} :
         \E fields \in IF command = "login_user" THEN FieldsWith(given) ELSE TypeFields :
         LET value == IF command = "get_access" THEN Said("token", given)
                      ELSE IF command = "add_collection" THEN Numbered
                      ELSE Titled
         IN  Answered(status, fields, value,
                      TextOf(value, style.newline, style.ascii), "none", given)
  BY DEF Grant
<1> DEFINE value == IF command = "get_access" THEN Said("token", given)
                    ELSE IF command = "add_collection" THEN Numbered
                    ELSE Titled
           body == TextOf(value, style.newline, style.ascii)
           damaged == [fault |-> "none", sent |-> body]
<1>3. PICK fields : Answered(status, fields, value, body, "none", given)
  BY <1>2
<1>4. value \in Sayings
  BY <1>2 DEF Sayings
<1> HIDE DEF value
<1>5. damaged \in Damaged(body)
  <2> HIDE DEF body
  <2> QED
    BY Undamaged
<1>6. damaged.fault = "none" /\ damaged.sent = body
  OBVIOUS
<1>7. damaged = [fault |-> damaged.fault, sent |-> damaged.sent]
  OBVIOUS
<1>8. Answered(status, fields, value, damaged.sent, damaged.fault, given)
  BY <1>3, <1>6
<1> HIDE DEF damaged
<1> QED
  BY <1>1, <1>4, <1>5, <1>7, <1>8, BodyAnswered

LEMMA BodyGrantMovies ==
    ASSUME BodyInv, GrantMovies
    PROVE  BodyInv'
<1>1. phase = "answering"
  BY DEF GrantMovies
<1>2. PICK value \in Values, style \in Styles :
      \E damaged \in Damaged(TextOf(value, style.newline, style.ascii)) :
         Answered(OK, TypeField(<<>>), value, damaged.sent, damaged.fault, NULL)
  BY DEF GrantMovies
<1>3. PICK damaged \in Damaged(TextOf(value, style.newline, style.ascii)) :
         Answered(OK, TypeField(<<>>), value, damaged.sent, damaged.fault, NULL)
  BY <1>2
<1>4. damaged = [fault |-> damaged.fault, sent |-> damaged.sent]
  BY DEF Damaged
<1>5. value \in Sayings
  BY DEF Sayings
<1> QED
  BY <1>1, <1>3, <1>4, <1>5, BodyAnswered

LEMMA BodyDeny ==
    ASSUME BodyInv, Deny
    PROVE  BodyInv'
<1>1. phase = "answering"
  BY DEF Deny
<1> DEFINE body(style) == TextOf(Denied, style.newline, style.ascii)
<1>2. PICK style \in Styles, type \in TypeFields :
         Answered(NotFound, type, Denied, body(style), "none", NULL)
  BY DEF Deny
<1> DEFINE damaged == [fault |-> "none", sent |-> body(style)]
<1>3. Denied \in Sayings
  BY DEF Sayings
<1>4. damaged \in Damaged(body(style))
  <2> HIDE DEF body
  <2> QED
    BY Undamaged
<1>5. damaged.fault = "none" /\ damaged.sent = body(style)
  OBVIOUS
<1>6. damaged = [fault |-> damaged.fault, sent |-> damaged.sent]
  OBVIOUS
<1>7. Answered(NotFound, type, Denied, damaged.sent, damaged.fault, NULL)
  BY <1>2, <1>5
<1> HIDE DEF damaged
<1> QED
  BY <1>1, <1>3, <1>4, <1>6, <1>7, BodyAnswered

\* The reply stays as it is, and nothing is parsed.
LEMMA BodyTakes ==
    ASSUME BodyInv, TakeCookie \/ TakeBody \/ TakeNothing
    PROVE  BodyInv'
<1>1. /\ phase = "reply" /\ phase' \in {"parsing", "done"}
      /\ reply' = reply /\ result' = result
  BY DEF TakeCookie, TakeBody, TakeNothing
<1> QED
  BY <1>1 DEF BodyInv, OriginSound, ResultSound

\* What is parsed is the body of the reply.
LEMMA BodyParse ==
    ASSUME IInv, BodyInv, Parse
    PROVE  BodyInv'
<1>1. /\ phase = "parsing" /\ phase' = "done" /\ reply' = reply
      /\ result' = json_parse_string(text)
  BY DEF Parse
<1>2. text = reply.body
  BY <1>1 DEF IInv, ParsingSound
<1>3. result' = json_parse_string(reply.body)
  BY <1>1, <1>2
<1> QED
  BY <1>1, <1>3 DEF BodyInv, OriginSound, ResultSound

\* Every step keeps it.
LEMMA BodyInductive ==
    ASSUME IInv, BodyInv, [Next]_vars
    PROVE  BodyInv'
<1>1. CASE UNCHANGED vars
  BY <1>1 DEF vars, BodyInv, OriginSound, ResultSound
<1>2. CASE Next
  BY <1>2, BodyBefore, BodyGrant, BodyGrantMovies, BodyDeny, BodyTakes, BodyParse DEF Next
<1> QED
  BY <1>1, <1>2

LEMMA BodyInvariance ==
    ASSUME LengthsWritten
    PROVE  Spec => []BodyInv
<1>1. Init => BodyInv
  BY BodyInit
<1>2. IInv /\ BodyInv /\ [Next]_vars => BodyInv'
  BY BodyInductive
<1> QED
  BY <1>1, <1>2, Invariance, PTL DEF Spec

\* Whatever is said is read as what it means, with a mark before it or with more
\* behind it that does not go on with a number.
LEMMA MeaningRead ==
    ASSUME BodyInv, phase = "done", result # NULL,
           \/ reply.fault \in {"none", "bom", "more"}
           \/ reply.fault = "figure" /\ reply.value.type # "number",
           WellFormed(reply.value)
    PROVE  result.ok /\ result.json = reply.value
<1>1. PICK style \in Styles :
         [fault |-> reply.fault, sent |-> reply.body]
             \in Damaged(TextOf(reply.value, style.newline, style.ascii))
  BY DEF BodyInv, OriginSound
<1> DEFINE value == reply.value
           newline == style.newline
           ascii == style.ascii
           body == TextOf(value, newline, ascii)
           a == <<"a">>
           b == <<"]">>
           zero == <<"0">>
           mark == <<Bom>>
<1>2. \/ reply.body \in {body, body \o a, body \o b, mark \o body}
      \/ reply.body = body \o zero /\ value.type # "number"
  BY <1>1, DamagedForms
<1>3. value \in Value /\ newline \in Seq(WhiteSpace) /\ ascii \in BOOLEAN
  <2>1. value \in Sayings
    BY DEF BodyInv, OriginSound
  <2> QED
    BY <2>1, ReplyText DEF Sayings
<1>4. /\ a \in Text /\ b \in Text /\ zero \in Text
      /\ ~Begins(a, Figure) /\ ~Begins(b, Figure)
  BY PiecesOnTheWay DEF Text, Begins
<1>5. result = json_parse_string(reply.body)
  BY DEF BodyInv, ResultSound
<1>6. WellFormed(value)
  OBVIOUS
<1> HIDE DEF value, newline, ascii, body, a, b, zero
<1>7. /\ json_parse_string(body) = Read(value, <<>>)
      /\ json_parse_string(mark \o body) = Read(value, <<>>)
      /\ \A more \in Text :
            (value.type = "number" => ~Begins(more, Figure)) =>
               json_parse_string(body \o more) = Read(value, more)
  BY <1>3, <1>6, WrittenIsRead DEF body, mark
<1> HIDE DEF mark
<1>8. \E rest : result = Read(value, rest)
  BY <1>2, <1>4, <1>5, <1>7, Zenon
<1>9. result.ok /\ result.json = value
  BY <1>8 DEF Read
<1> QED
  BY <1>9 DEF value

\* What is cut is not read.
LEMMA EndMissed ==
    ASSUME BodyInv, phase = "done", result # NULL, reply.fault = "cut",
           reply.value.type # "number"
    PROVE  ~result.ok
<1>1. PICK style \in Styles :
         [fault |-> reply.fault, sent |-> reply.body]
             \in Damaged(TextOf(reply.value, style.newline, style.ascii))
  BY DEF BodyInv, OriginSound
<1> DEFINE value == reply.value
           newline == style.newline
           ascii == style.ascii
<1>2. PICK n \in 0..(Len(TextOf(value, newline, ascii)) - 1) :
         reply.body = SubSeq(TextOf(value, newline, ascii), 1, n)
  BY <1>1, DamagedForms
<1>3. value \in Value /\ newline \in Seq(WhiteSpace) /\ ascii \in BOOLEAN
  <2>1. value \in Sayings
    BY DEF BodyInv, OriginSound
  <2> QED
    BY <2>1, ReplyText DEF Sayings
<1>4. result = json_parse_string(reply.body)
  BY DEF BodyInv, ResultSound
<1>6. value.type # "number"
  OBVIOUS
<1> HIDE DEF value, newline, ascii
<1>5. ~json_parse_string(SubSeq(TextOf(value, newline, ascii), 1, n)).ok
  BY <1>3, <1>6, CutIsRefused
<1> QED
  BY <1>2, <1>4, <1>5, Zenon

-----------------------------------------------------------------------------
\* The members of the object.

Named(name, value) == [name |-> <<name>>, value |-> value]

\* What json_object_set_string and json_object_set_number add.
StringMembers(name, string) ==
    IF "latin1" \in ToSet(string) THEN {}
    ELSE {Named(name, [type |-> "string", of |-> string])}

NumberMembers(name, number) ==
    IF number = NaN THEN {}
    ELSE {Named(name, [type |-> "number", of |-> NumberText(number)])}

\* s is a sequence whose elements are those of the set.
Lists(s, set) == s \in Seq(set) /\ ToSet(s) = set

LEMMA ListsOne ==
    ASSUME NEW x
    PROVE  Lists(<<>>, {}) /\ Lists(<<x>>, {x})
<1>1. ToSet(<<>>) = {} /\ <<>> \in Seq({})
  BY DEF ToSet
<1> DEFINE one == <<x>>
<1>2. DOMAIN one = {1} /\ one[1] = x /\ one \in Seq({x})
  OBVIOUS
<1> HIDE DEF one
<1>3. ToSet(one) = {x}
  BY <1>2 DEF ToSet
<1> QED
  BY <1>1, <1>2, <1>3 DEF Lists, one

LEMMA SetStringAdds ==
    ASSUME NEW name, NEW string
    PROVE  Lists(SetString(name, string), StringMembers(name, string))
<1> DEFINE member == Named(name, [type |-> "string", of |-> string])
<1>1. SetString(name, string) = IF "latin1" \in ToSet(string) THEN <<>> ELSE <<member>>
  BY DEF SetString, Named
<1>2. StringMembers(name, string) = IF "latin1" \in ToSet(string) THEN {} ELSE {member}
  BY DEF StringMembers
<1> HIDE DEF member
<1> QED
  BY <1>1, <1>2, ListsOne

LEMMA SetNumberAdds ==
    ASSUME NEW name, NEW number
    PROVE  Lists(SetNumber(name, number), NumberMembers(name, number))
<1> DEFINE member == Named(name, [type |-> "number", of |-> NumberText(number)])
<1>1. SetNumber(name, number) = IF number = NaN THEN <<>> ELSE <<member>>
  BY DEF SetNumber, Named
<1>2. NumberMembers(name, number) = IF number = NaN THEN {} ELSE {member}
  BY DEF NumberMembers
<1> HIDE DEF member
<1> QED
  BY <1>1, <1>2, ListsOne

LEMMA ListsJoin ==
    ASSUME NEW s, NEW A, NEW t, NEW B, Lists(s, A), Lists(t, B)
    PROVE  Lists(s \o t, A \cup B)
<1> DEFINE S == A \cup B
           whole == s \o t
<1>1. A \subseteq S /\ B \subseteq S
  OBVIOUS
<1>2. s \in Seq(S) /\ t \in Seq(S)
  <2> HIDE DEF S
  <2> QED
    BY <1>1, SeqMonotonic DEF Lists
<1>3. Joins(S, s, t, whole)
  BY <1>2, Joined
<1> HIDE DEF whole
<1>4. PICK m \in Nat, n \in Nat : m = Len(s) /\ n = Len(t)
  BY <1>3 DEF Joins
<1>5. /\ Len(whole) = m + n
      /\ \A i \in 1..m : whole[i] = s[i]
      /\ \A i \in 1..n : whole[m + i] = t[i]
  BY <1>3, <1>4 DEF Joins
<1>6. DOMAIN s = 1..m /\ DOMAIN t = 1..n /\ DOMAIN whole = 1..(m + n)
  BY <1>2, <1>3, <1>4, <1>5, LenProperties DEF Joins
<1>7. A = {s[i] : i \in 1..m} /\ B = {t[i] : i \in 1..n}
  BY <1>6 DEF Lists, ToSet
<1>8. ToSet(whole) = {whole[i] : i \in 1..(m + n)}
  BY <1>6 DEF ToSet
<1>9. ASSUME NEW x \in S
      PROVE  x \in {whole[i] : i \in 1..(m + n)}
  <2>1. CASE x \in A
    <3>1. PICK i \in 1..m : x = s[i]
      BY <1>7, <2>1
    <3>2. i \in 1..(m + n) /\ x = whole[i]
      BY <1>5, <3>1
    <3> QED
      BY <3>2
  <2>2. CASE x \in B
    <3>1. PICK i \in 1..n : x = t[i]
      BY <1>7, <2>2
    <3>2. m + i \in 1..(m + n) /\ x = whole[m + i]
      BY <1>5, <3>1
    <3> QED
      BY <3>2
  <2> QED
    BY <2>1, <2>2
<1>10. whole \in Seq(S)
  BY <1>3 DEF Joins
<1>11. \A i \in 1..(m + n) : whole[i] \in S
  BY <1>5, <1>10, ElementOfSeq
<1> HIDE DEF S
<1>12. ToSet(whole) = S
  BY <1>8, <1>9, <1>11
<1> QED
  BY <1>10, <1>12 DEF Lists, whole, S

\* The members of every object that a handler sends.
Listed(c, t) ==
    CASE c = "login_user" ->
            StringMembers("admin_username", t.admin_username)
               \cup StringMembers("username", t.username)
               \cup StringMembers("password", t.password)
      [] c = "add_user" ->
            StringMembers("username", t.username)
               \cup StringMembers("password", t.password)
      [] c \in {"add_movie", "update_movie"} ->
            StringMembers("title", t.title)
               \cup NumberMembers("year", 10 * atoi(t.year))
               \cup StringMembers("description", t.description)
               \cup NumberMembers("rating", strtod(t.rating).value)
      [] c = "add_collection" -> StringMembers("title", t.title)
      [] c = "add_movie_to_collection" -> NumberMembers("id", 10 * atol(t.movie_id))

LEMMA MembersListed ==
    ASSUME NEW c \in {"login_user", "add_user", "add_movie", "update_movie",
                      "add_collection", "add_movie_to_collection"},
           NEW t
    PROVE  ToSet(Members(c, t)) = Listed(c, t)
<1>1. \A name, string : Lists(SetString(name, string), StringMembers(name, string))
  BY SetStringAdds
<1>2. \A name, number : Lists(SetNumber(name, number), NumberMembers(name, number))
  BY SetNumberAdds
<1>3. CASE c = "login_user"
  <2>1. Lists(SetString("admin_username", t.admin_username)
                 \o SetString("username", t.username),
              StringMembers("admin_username", t.admin_username)
                 \cup StringMembers("username", t.username))
    BY <1>1, ListsJoin
  <2>2. Lists(Members(c, t), Listed(c, t))
    BY <1>1, <1>3, <2>1, ListsJoin DEF Members, Listed
  <2> QED
    BY <2>2 DEF Lists
<1>4. CASE c = "add_user"
  <2>1. Lists(Members(c, t), Listed(c, t))
    BY <1>1, <1>4, ListsJoin DEF Members, Listed
  <2> QED
    BY <2>1 DEF Lists
<1>5. CASE c \in {"add_movie", "update_movie"}
  <2> DEFINE a == SetString("title", t.title)
             b == SetNumber("year", 10 * atoi(t.year))
             d == SetString("description", t.description)
             e == SetNumber("rating", strtod(t.rating).value)
             A == StringMembers("title", t.title)
             B == NumberMembers("year", 10 * atoi(t.year))
             D == StringMembers("description", t.description)
             E == NumberMembers("rating", strtod(t.rating).value)
  <2>1. Lists(a, A) /\ Lists(b, B) /\ Lists(d, D) /\ Lists(e, E)
    BY <1>1, <1>2
  <2>2. Members(c, t) = a \o b \o d \o e /\ Listed(c, t) = A \cup B \cup D \cup E
    BY <1>5 DEF Members, Listed
  <2> HIDE DEF a, b, d, e, A, B, D, E
  <2>3. Lists(a \o b, A \cup B)
    BY <2>1, ListsJoin
  <2>4. Lists(a \o b \o d, A \cup B \cup D)
    BY <2>1, <2>3, ListsJoin
  <2>5. Lists(a \o b \o d \o e, A \cup B \cup D \cup E)
    BY <2>1, <2>4, ListsJoin
  <2> QED
    BY <2>2, <2>5 DEF Lists
<1>6. CASE c = "add_collection"
  BY <1>1, <1>6 DEF Lists, Members, Listed
<1>7. CASE c = "add_movie_to_collection"
  BY <1>2, <1>7 DEF Lists, Members, Listed
<1> QED
  BY <1>3, <1>4, <1>5, <1>6, <1>7

\* These members, and none of the others, have the name.
Own(members, name, own) ==
    own \subseteq members /\ \A f \in members : f.name = <<name>> => f \in own

\* A string that has a name of its own is found, if it is UTF-8.
LEMMA StringFound ==
    ASSUME NEW read, NEW name, NEW string,
           Own(ToSet(read.json.of), name, StringMembers(name, string))
    PROVE  IF "latin1" \in ToSet(string) THEN <<name>> \notin NamesIn(read)
           ELSE Contents(read, name) = string
<1> DEFINE member == Named(name, [type |-> "string", of |-> string])
           members == ToSet(read.json.of)
<1>1. member.name = <<name>> /\ member.value.of = string
  BY DEF Named
<1>2. StringMembers(name, string) = IF "latin1" \in ToSet(string) THEN {} ELSE {member}
  BY DEF StringMembers
<1> HIDE DEF member, members
<1>3. Own(members, name, StringMembers(name, string))
  BY DEF members
<1>4. ASSUME "latin1" \in ToSet(string)
      PROVE  <<name>> \notin NamesIn(read)
  <2>1. \A f \in members : f.name # <<name>>
    BY <1>2, <1>3, <1>4 DEF Own
  <2> QED
    BY <2>1 DEF NamesIn, members
<1>5. ASSUME "latin1" \notin ToSet(string)
      PROVE  Contents(read, name) = string
  <2>1. member \in members /\ \A f \in members : f.name = <<name>> => f = member
    BY <1>1, <1>2, <1>3, <1>5 DEF Own
  <2>2. (CHOOSE f \in members : f.name = <<name>>) = member
    BY <1>1, <2>1
  <2> QED
    BY <1>1, <2>2 DEF Contents, members
<1> QED
  BY <1>4, <1>5

\* The same of a number, if it is one.
LEMMA NumberFound ==
    ASSUME NEW read, NEW name, NEW number,
           Own(ToSet(read.json.of), name, NumberMembers(name, number))
    PROVE  IF number = NaN THEN <<name>> \notin NamesIn(read)
           ELSE Contents(read, name) = NumberText(number)
<1> DEFINE digits == NumberText(number)
           member == Named(name, [type |-> "number", of |-> digits])
           members == ToSet(read.json.of)
<1> HIDE DEF digits
<1>1. member.name = <<name>> /\ member.value.of = digits
  BY DEF Named
<1>2. NumberMembers(name, number) = IF number = NaN THEN {} ELSE {member}
  BY DEF NumberMembers, digits
<1> HIDE DEF member, members
<1>3. Own(members, name, NumberMembers(name, number))
  BY DEF members
<1>4. ASSUME number = NaN
      PROVE  <<name>> \notin NamesIn(read)
  <2>1. \A f \in members : f.name # <<name>>
    BY <1>2, <1>3, <1>4 DEF Own
  <2> QED
    BY <2>1 DEF NamesIn, members
<1>5. ASSUME number # NaN
      PROVE  Contents(read, name) = digits
  <2>1. member \in members /\ \A f \in members : f.name = <<name>> => f = member
    BY <1>1, <1>2, <1>3, <1>5 DEF Own
  <2>2. (CHOOSE f \in members : f.name = <<name>>) = member
    BY <1>1, <2>1
  <2> QED
    BY <1>1, <2>2 DEF Contents, members
<1> QED
  BY <1>4, <1>5 DEF digits

\* Members have the name they were given.
LEMMA MembersNamed ==
    /\ \A name, string : \A f \in StringMembers(name, string) : f.name = <<name>>
    /\ \A name, number : \A f \in NumberMembers(name, number) : f.name = <<name>>
<1>1. \A name, value : Named(name, value).name = <<name>>
  BY DEF Named
<1> QED
  BY <1>1 DEF StringMembers, NumberMembers

\* No two members of an object have one name.
LEMMA NamesDiffer ==
    ASSUME NEW t
    PROVE  /\ \A p \in {"admin_username", "username", "password"} :
                Own(Listed("login_user", t), p, StringMembers(p, t[p]))
           /\ \A p \in {"username", "password"} :
                Own(Listed("add_user", t), p, StringMembers(p, t[p]))
           /\ \A c \in {"add_movie", "update_movie"} :
                /\ \A p \in {"title", "description"} :
                      Own(Listed(c, t), p, StringMembers(p, t[p]))
                /\ Own(Listed(c, t), "year", NumberMembers("year", 10 * atoi(t.year)))
                /\ Own(Listed(c, t), "rating",
                       NumberMembers("rating", strtod(t.rating).value))
           /\ Own(Listed("add_collection", t), "title", StringMembers("title", t.title))
<1>1. \A name, other : <<name>> = <<other>> => name = other
  OBVIOUS
<1>2. \A p \in {"admin_username", "username", "password"} :
        Own(Listed("login_user", t), p, StringMembers(p, t[p]))
  BY <1>1, MembersNamed DEF Listed, Own
<1>3. \A p \in {"username", "password"} :
        Own(Listed("add_user", t), p, StringMembers(p, t[p]))
  BY <1>1, MembersNamed DEF Listed, Own
<1>4. ASSUME NEW c \in {"add_movie", "update_movie"}
      PROVE  /\ \A p \in {"title", "description"} :
                   Own(Listed(c, t), p, StringMembers(p, t[p]))
             /\ Own(Listed(c, t), "year", NumberMembers("year", 10 * atoi(t.year)))
             /\ Own(Listed(c, t), "rating",
                    NumberMembers("rating", strtod(t.rating).value))
  <2> DEFINE year == NumberMembers("year", 10 * atoi(t.year))
             rating == NumberMembers("rating", strtod(t.rating).value)
  <2>1. /\ \A f \in year : f.name = <<"year">>
        /\ \A f \in rating : f.name = <<"rating">>
    BY MembersNamed
  <2>2. Listed(c, t) = StringMembers("title", t.title) \cup year
                         \cup StringMembers("description", t.description) \cup rating
    BY DEF Listed
  <2> HIDE DEF year, rating
  <2>3. \A p \in {"title", "description"} : Own(Listed(c, t), p, StringMembers(p, t[p]))
    BY <1>1, <2>1, <2>2, MembersNamed DEF Own
  <2>4. Own(Listed(c, t), "year", year) /\ Own(Listed(c, t), "rating", rating)
    BY <1>1, <2>1, <2>2, MembersNamed DEF Own
  <2> QED
    BY <2>3, <2>4 DEF year, rating
<1>5. Own(Listed("add_collection", t), "title", StringMembers("title", t.title))
  BY <1>1, MembersNamed DEF Listed, Own
<1> QED
  BY <1>2, <1>3, <1>4, <1>5

\* A sequence of members with different names, strings and numbers.
OnceNamed(s, names) ==
    /\ \E S : s \in Seq(S)
    /\ \A i \in 1..Len(s) : s[i].name \in names /\ s[i].value.type \in {"string", "number"}
    /\ Distinct(s)

\* No member has any name.
LEMMA OnceNone ==
    \A names : OnceNamed(<<>>, names)
<1> DEFINE none == <<>>
<1>1. none \in Seq({}) /\ Len(none) = 0 /\ DOMAIN none = {}
  OBVIOUS
<1> HIDE DEF none
<1>2. \A names : OnceNamed(none, names)
  BY <1>1 DEF OnceNamed, Distinct
<1> QED
  BY <1>2 DEF none

\* A single one has its own.
LEMMA OnceSingle ==
    ASSUME NEW member, NEW name,
           member.name = name, member.value.type \in {"string", "number"}
    PROVE  OnceNamed(<<member>>, {name})
<1> DEFINE one == <<member>>
<1>1. one \in Seq({member}) /\ Len(one) = 1 /\ DOMAIN one = {1} /\ one[1] = member
  OBVIOUS
<1> HIDE DEF one
<1>2. Distinct(one)
  BY <1>1 DEF Distinct
<1>3. \A i \in 1..Len(one) : one[i] = member
  BY <1>1
<1>4. OnceNamed(one, {name})
  BY <1>1, <1>2, <1>3 DEF OnceNamed
<1> QED
  BY <1>4 DEF one

\* What json_object_set_string and json_object_set_number add has one name.
LEMMA SetOnce ==
    /\ \A name, string : OnceNamed(SetString(name, string), {<<name>>})
    /\ \A name, number : OnceNamed(SetNumber(name, number), {<<name>>})
<1>1. ASSUME NEW name, NEW string
      PROVE  OnceNamed(SetString(name, string), {<<name>>})
  <2> DEFINE member == Named(name, [type |-> "string", of |-> string])
             whole == <<name>>
             none == <<>>
             set == SetString(name, string)
  <2>1. member.name = whole /\ member.value.type \in {"string", "number"}
    BY DEF Named
  <2>2. set = none \/ set = <<member>>
    BY DEF SetString, Named
  <2>3. \A names : OnceNamed(none, names)
    BY OnceNone
  <2> HIDE DEF member, whole, none, set
  <2>4. OnceNamed(<<member>>, {whole})
    BY <2>1, OnceSingle
  <2>5. OnceNamed(set, {whole})
    BY <2>2, <2>3, <2>4, Zenon
  <2> QED
    BY <2>5 DEF whole, set
<1>2. ASSUME NEW name, NEW number
      PROVE  OnceNamed(SetNumber(name, number), {<<name>>})
  <2> DEFINE member == Named(name, [type |-> "number", of |-> NumberText(number)])
             whole == <<name>>
             none == <<>>
             set == SetNumber(name, number)
  <2>1. member.name = whole /\ member.value.type \in {"string", "number"}
    BY DEF Named
  <2>2. set = none \/ set = <<member>>
    BY DEF SetNumber, Named
  <2>3. \A names : OnceNamed(none, names)
    BY OnceNone
  <2> HIDE DEF member, whole, none, set
  <2>4. OnceNamed(<<member>>, {whole})
    BY <2>1, OnceSingle
  <2>5. OnceNamed(set, {whole})
    BY <2>2, <2>3, <2>4, Zenon
  <2> QED
    BY <2>5 DEF whole, set
<1> QED
  BY <1>1, <1>2

\* Members of different names together.
LEMMA OnceJoin ==
    ASSUME NEW s, NEW A, NEW t, NEW B, OnceNamed(s, A), OnceNamed(t, B), A \cap B = {}
    PROVE  OnceNamed(s \o t, A \cup B)
<1>1. PICK S, T : s \in Seq(S) /\ t \in Seq(T)
  BY DEF OnceNamed
<1> DEFINE all == S \cup T
           whole == s \o t
<1>2. s \in Seq(all) /\ t \in Seq(all)
  <2>1. S \subseteq all /\ T \subseteq all
    OBVIOUS
  <2> HIDE DEF all
  <2> QED
    BY <1>1, <2>1, SeqMonotonic
<1> HIDE DEF all
<1>3. Joins(all, s, t, whole)
  BY <1>2, Joined
<1> HIDE DEF whole
<1>4. PICK m \in Nat, n \in Nat : m = Len(s) /\ n = Len(t)
  BY <1>3 DEF Joins
<1>5. /\ whole \in Seq(all) /\ Len(whole) = m + n
      /\ \A i \in 1..m : whole[i] = s[i]
      /\ \A i \in 1..n : whole[m + i] = t[i]
  BY <1>3, <1>4 DEF Joins
<1>6. DOMAIN s = 1..m /\ DOMAIN t = 1..n /\ DOMAIN whole = 1..(m + n)
  BY <1>2, <1>4, <1>5, LenProperties
<1>7. \A i \in 1..(m + n) : i \in 1..m \/ \E k \in 1..n : i = m + k
  <2> SUFFICES ASSUME NEW i \in 1..(m + n), i \notin 1..m
               PROVE  \E k \in 1..n : i = m + k
    OBVIOUS
  <2>1. i - m \in 1..n /\ i = m + (i - m)
    OBVIOUS
  <2> QED
    BY <2>1
<1>8. /\ \A i \in 1..m : s[i].name \in A /\ s[i].value.type \in {"string", "number"}
      /\ \A i, j \in 1..m : s[i].name = s[j].name => i = j
      /\ \A i \in 1..n : t[i].name \in B /\ t[i].value.type \in {"string", "number"}
      /\ \A i, j \in 1..n : t[i].name = t[j].name => i = j
  BY <1>4, <1>6 DEF OnceNamed, Distinct
<1>9. ASSUME NEW i \in 1..(m + n)
      PROVE  /\ whole[i].value.type \in {"string", "number"}
             /\ i \in 1..m => whole[i].name \in A
             /\ i \notin 1..m => whole[i].name \in B
  <2>1. CASE i \in 1..m
    BY <1>5, <1>8, <2>1
  <2>2. CASE i \notin 1..m
    <3>1. PICK k \in 1..n : i = m + k
      BY <1>7, <2>2
    <3>2. whole[i] = t[k]
      BY <1>5, <3>1
    <3> QED
      BY <1>8, <2>2, <3>2
  <2> QED
    BY <2>1, <2>2
<1>10. ASSUME NEW i \in 1..(m + n), NEW j \in 1..(m + n), whole[i].name = whole[j].name
       PROVE  i = j
  <2>1. i \in 1..m <=> j \in 1..m
    BY <1>9, <1>10
  <2>2. CASE i \in 1..m
    BY <1>5, <1>8, <1>10, <2>1, <2>2
  <2>3. CASE i \notin 1..m
    <3>1. PICK k \in 1..n : i = m + k
      BY <1>7, <2>3
    <3>2. PICK l \in 1..n : j = m + l
      BY <1>7, <2>1, <2>3
    <3>3. whole[i] = t[k] /\ whole[j] = t[l]
      BY <1>5, <3>1, <3>2
    <3>4. k = l
      BY <1>8, <1>10, <3>3
    <3> QED
      BY <3>1, <3>2, <3>4
  <2> QED
    BY <2>2, <2>3
<1>11. Distinct(whole)
  BY <1>6, <1>10 DEF Distinct
<1>12. \A i \in 1..Len(whole) :
          whole[i].name \in A \cup B /\ whole[i].value.type \in {"string", "number"}
  BY <1>5, <1>9
<1>13. OnceNamed(whole, A \cup B)
  BY <1>5, <1>11, <1>12 DEF OnceNamed
<1> QED
  BY <1>13 DEF whole

\* No handler sets a member twice.
LEMMA MembersOnce ==
    ASSUME NEW c \in {"login_user", "add_user", "add_movie", "update_movie",
                      "add_collection", "add_movie_to_collection"},
           NEW t
    PROVE  \E names \in SUBSET {<<"admin_username">>, <<"username">>, <<"password">>, <<"title">>,
                                <<"year">>, <<"description">>, <<"rating">>, <<"id">>} :
              OnceNamed(Members(c, t), names)
<1> DEFINE N(name) == {<<name>>}
<1>1. \A name, string : OnceNamed(SetString(name, string), N(name))
  BY SetOnce
<1>2. \A name, number : OnceNamed(SetNumber(name, number), N(name))
  BY SetOnce
<1>3. \A name, other : name # other => N(name) \cap N(other) = {}
  OBVIOUS
<1>4. CASE c = "login_user"
  <2> DEFINE a == SetString("admin_username", t.admin_username)
             b == SetString("username", t.username)
             d == SetString("password", t.password)
             A == N("admin_username")
             B == N("username")
             D == N("password")
  <2>1. OnceNamed(a, A) /\ OnceNamed(b, B) /\ OnceNamed(d, D)
    BY <1>1
  <2>2. Members(c, t) = a \o b \o d
    BY <1>4 DEF Members
  <2>3. A \cap B = {} /\ (A \cup B) \cap D = {}
    OBVIOUS
  <2>4. A \cup B \cup D \subseteq {<<"admin_username">>, <<"username">>, <<"password">>}
    OBVIOUS
  <2> HIDE DEF a, b, d, A, B, D
  <2>5. OnceNamed(a \o b, A \cup B)
    BY <2>1, <2>3, OnceJoin
  <2>6. OnceNamed(a \o b \o d, A \cup B \cup D)
    BY <2>1, <2>3, <2>5, OnceJoin
  <2> QED
    BY <2>2, <2>4, <2>6
<1>5. CASE c = "add_user"
  <2> DEFINE a == SetString("username", t.username)
             b == SetString("password", t.password)
             A == N("username")
             B == N("password")
  <2>1. OnceNamed(a, A) /\ OnceNamed(b, B)
    BY <1>1
  <2>2. Members(c, t) = a \o b
    BY <1>5 DEF Members
  <2>3. A \cap B = {}
    OBVIOUS
  <2>4. A \cup B \subseteq {<<"username">>, <<"password">>}
    OBVIOUS
  <2> HIDE DEF a, b, A, B
  <2>5. OnceNamed(a \o b, A \cup B)
    BY <2>1, <2>3, OnceJoin
  <2> QED
    BY <2>2, <2>4, <2>5
<1>6. CASE c \in {"add_movie", "update_movie"}
  <2> DEFINE a == SetString("title", t.title)
             b == SetNumber("year", 10 * atoi(t.year))
             d == SetString("description", t.description)
             e == SetNumber("rating", strtod(t.rating).value)
             A == N("title")
             B == N("year")
             D == N("description")
             E == N("rating")
  <2>1. OnceNamed(a, A) /\ OnceNamed(b, B) /\ OnceNamed(d, D) /\ OnceNamed(e, E)
    BY <1>1, <1>2
  <2>2. Members(c, t) = a \o b \o d \o e
    BY <1>6 DEF Members
  <2>3. A \cap B = {} /\ (A \cup B) \cap D = {} /\ (A \cup B \cup D) \cap E = {}
    OBVIOUS
  <2>4. A \cup B \cup D \cup E
           \subseteq {<<"title">>, <<"year">>, <<"description">>, <<"rating">>}
    OBVIOUS
  <2> HIDE DEF a, b, d, e, A, B, D, E
  <2>5. OnceNamed(a \o b, A \cup B)
    BY <2>1, <2>3, OnceJoin
  <2>6. OnceNamed(a \o b \o d, A \cup B \cup D)
    BY <2>1, <2>3, <2>5, OnceJoin
  <2>7. OnceNamed(a \o b \o d \o e, A \cup B \cup D \cup E)
    BY <2>1, <2>3, <2>6, OnceJoin
  <2> QED
    BY <2>2, <2>4, <2>7
<1>7. CASE c = "add_collection"
  <2>1. OnceNamed(Members(c, t), N("title"))
    BY <1>1, <1>7 DEF Members
  <2> QED
    BY <2>1
<1>8. CASE c = "add_movie_to_collection"
  <2>1. OnceNamed(Members(c, t), N("id"))
    BY <1>2, <1>8 DEF Members
  <2> QED
    BY <2>1
<1> QED
  BY <1>4, <1>5, <1>6, <1>7, <1>8

\* The server reads the object of a handler as what it is.
LEMMA ObjectRead ==
    ASSUME NEW c \in DOMAIN Answers, NEW answers \in Answers[c],
           Accepted(c, answers), HasBody(c)
    PROVE  /\ json_parse_string(TextOf(Object(c, answers), <<>>, FALSE)).ok
           /\ json_parse_string(TextOf(Object(c, answers), <<>>, FALSE)).json
                 = Object(c, answers)
<1> DEFINE object == Object(c, answers)
           newline == <<>>
           ascii == FALSE
<1>1. c \in {"login_user", "add_user", "add_movie", "update_movie",
            "add_collection", "add_movie_to_collection"}
  BY DEF Answers, HasBody, Method
<1>2. object \in Value /\ newline \in Seq(WhiteSpace) /\ ascii \in BOOLEAN
  BY RequestsAssumption
<1>3. object.type = "object" /\ object.of = Members(c, answers)
  BY DEF Object
<1> HIDE DEF object, newline, ascii
<1>4. PICK names \in SUBSET {<<"admin_username">>, <<"username">>, <<"password">>, <<"title">>,
                             <<"year">>, <<"description">>, <<"rating">>, <<"id">>} :
         OnceNamed(object.of, names)
  BY <1>1, <1>3, MembersOnce
<1>5. \A name \in names : Nul \notin ToSet(name)
  <2>1. \A x : ToSet(<<x>>) = {x}
    <3> SUFFICES ASSUME NEW x PROVE ToSet(<<x>>) = {x}
      OBVIOUS
    <3> QED
      BY ListsOne DEF Lists
  <2> QED
    BY <2>1 DEF Nul
<1>6. WellFormed(object)
  <2>1. /\ Distinct(object.of)
        /\ \A i \in 1..Len(object.of) :
              /\ Nul \notin ToSet(object.of[i].name)
              /\ object.of[i].value.type \in {"string", "number"}
    BY <1>4, <1>5 DEF OnceNamed
  <2> QED
    BY <1>2, <1>3, <2>1, FlatIsWellFormed
<1>7. json_parse_string(TextOf(object, newline, ascii)) = Read(object, <<>>)
  BY <1>2, <1>6, WrittenIsRead
<1>8. /\ json_parse_string(TextOf(object, newline, ascii)).ok
      /\ json_parse_string(TextOf(object, newline, ascii)).json = object
  BY <1>7 DEF Read
<1> QED
  BY <1>8 DEF object, newline, ascii

\* The object that the server reads, by its members.
LEMMA ArrivedListed ==
    ASSUME IInv, Arrived
    PROVE  /\ command \in {"login_user", "add_user", "add_movie", "update_movie",
                           "add_collection", "add_movie_to_collection"}
           /\ typed \in Answers[command] /\ Accepted(command, typed)
           /\ decoded.ok
           /\ ToSet(decoded.json.of) = Listed(command, typed)
<1>1. command \in {"login_user", "add_user", "add_movie", "update_movie",
                   "add_collection", "add_movie_to_collection"}
  <2>1. command \in {"login_user", "add_user", "get_access", "get_movies", "get_movie",
                     "add_movie", "update_movie", "delete_movie", "add_collection",
                     "add_movie_to_collection"}
    BY DEF IInv, Answers
  <2> QED
    BY <2>1 DEF Arrived, HasBody, Method
<1>2. /\ command \in DOMAIN Answers
      /\ typed \in Answers[command] /\ Accepted(command, typed)
      /\ decoded.ok /\ decoded.json = Object(command, typed)
  BY ObjectRead DEF IInv, ObjectSound, Arrived
<1>3. decoded.json.of = Members(command, typed)
  BY <1>2 DEF Object
<1> QED
  BY <1>1, <1>2, <1>3, MembersListed

\* Every string reaches the server as it was typed, unless it is not UTF-8.
LEMMA StringsAreKept ==
    ASSUME IInv
    PROVE  StringsArrive
<1> SUFFICES ASSUME Arrived,
                    NEW p \in DOMAIN typed \cap {"admin_username", "username", "password",
                                                 "title", "description"}
             PROVE  Own(ToSet(decoded.json.of), p, StringMembers(p, typed[p]))
  BY ArrivedListed, StringFound DEF StringsArrive
<1>1. /\ command \in {"login_user", "add_user", "add_movie", "update_movie",
                      "add_collection", "add_movie_to_collection"}
      /\ typed \in Answers[command]
      /\ ToSet(decoded.json.of) = Listed(command, typed)
  BY ArrivedListed
<1>2. CASE command = "login_user"
  <2>1. p \in {"admin_username", "username", "password"}
    BY <1>1, <1>2 DEF Answers
  <2> QED
    BY <1>1, <1>2, <2>1, NamesDiffer
<1>3. CASE command = "add_user"
  <2>1. p \in {"username", "password"}
    BY <1>1, <1>3 DEF Answers
  <2> QED
    BY <1>1, <1>3, <2>1, NamesDiffer
<1>4. CASE command \in {"add_movie", "update_movie"}
  <2>1. p \in {"title", "description"}
    <3>1. CASE command = "add_movie"
      <4>1. typed \in Answers["add_movie"]
        BY <1>1, <3>1
      <4>2. DOMAIN typed = {"title", "year", "description", "rating"}
        BY <4>1 DEF Answers
      <4> QED
        BY <4>2
    <3>2. CASE command = "update_movie"
      <4>1. typed \in Answers["update_movie"]
        BY <1>1, <3>2
      <4>2. DOMAIN typed = {"id", "title", "year", "description", "rating"}
        BY <4>1 DEF Answers
      <4> QED
        BY <4>2
    <3> QED
      BY <1>4, <3>1, <3>2
  <2> QED
    BY <1>1, <1>4, <2>1, NamesDiffer
<1>5. CASE command = "add_collection"
  <2>1. p = "title"
    BY <1>1, <1>5 DEF Answers
  <2>2. typed[p] = typed.title
    BY <2>1
  <2> QED
    BY <1>1, <1>5, <2>1, <2>2, NamesDiffer
<1>6. CASE command = "add_movie_to_collection"
  BY <1>1, <1>6 DEF Answers
<1> QED
  BY <1>1, <1>2, <1>3, <1>4, <1>5, <1>6

-----------------------------------------------------------------------------
\* Ratings, years and names.

\* A number that fits an int survives the conversion.
LEMMA TruncatedKeeps ==
    ASSUME NEW d \in Nat, d < 2^(IntBits - 1)
    PROVE  Truncated(d, IntBits) = d
<1> DEFINE half == 2^(IntBits - 1)
           all == 2^IntBits
<1>1. half \in Nat \ {0} /\ all = 2 * half
  BY WidthAssumption
<1>2. d < half
  OBVIOUS
<1>3. Truncated(d, IntBits) = ((d + half) % all) - half
  BY DEF Truncated
<1> HIDE DEF half, all
<1>4. (d + half) % all = d + half
  <2>1. d + half \in 0..(all - 1) /\ all \in Nat \ {0}
    BY <1>1, <1>2
  <2>2. \A n \in Nat \ {0} : \A k \in 0..(n - 1) : k % n = k
    OBVIOUS
  <2> QED
    BY <2>1, <2>2
<1> QED
  BY <1>1, <1>3, <1>4

\* What is left of a text without the blanks at its beginning.
LEMMA WithoutBlanks ==
    ASSUME NEW string \in Seq(Piece), NEW i \in DOMAIN string, string[i] # Blank
    PROVE  \E k \in 1..i :
             Unblanked(string) = SubSeq(string, k, Len(string))
<1> DEFINE others == {j \in DOMAIN string : string[j] # Blank}
<1>1. Len(string) \in Nat /\ DOMAIN string = 1..Len(string)
  BY LenProperties
<1>2. others \subseteq Nat /\ others # {} /\ i \in others
  BY <1>1
<1>3. Unblanked(string) = SubSeq(string, Min(others), Len(string))
  BY <1>2 DEF Unblanked
<1>4. Min(others) \in others /\ \A j \in others : Min(others) <= j
  <2> HIDE DEF others
  <2>1. PICK least \in others : \A j \in others : least <= j
    BY <1>2, LeastNatural
  <2>2. Min(others) = CHOOSE x \in others : \A y \in others : x <= y
    BY DEF Min
  <2> QED
    BY <2>1, <2>2
<1>5. Min(others) \in 1..i
  BY <1>1, <1>2, <1>4
<1> QED
  BY <1>3, <1>5

\* Digits have no blanks before them.
LEMMA DigitsUnblanked ==
    ASSUME NEW string \in Seq(Piece), AllDigits(string)
    PROVE  Unblanked(string) = string
<1>1. \A i \in DOMAIN string : string[i] # Blank
  BY NumberAssumption DEF AllDigits, ToSet
<1>2. Len(string) \in Nat /\ DOMAIN string = 1..Len(string)
  BY LenProperties
<1>3. CASE string = <<>>
  BY <1>3 DEF Unblanked
<1>4. CASE string # <<>>
  <2>1. Len(string) # 0
    BY <1>2, <1>4, EmptySeq
  <2>2. 1 \in DOMAIN string /\ string[1] # Blank
    BY <1>1, <1>2, <2>1
  <2>3. PICK k \in 1..1 : Unblanked(string) = SubSeq(string, k, Len(string))
    BY <2>2, WithoutBlanks
  <2>4. k = 1
    OBVIOUS
  <2>5. SubSeq(string, 1, Len(string)) = string
    OBVIOUS
  <2> QED
    BY <2>3, <2>4, <2>5, Zenon
<1> QED
  BY <1>3, <1>4

\* A text that strtod reads to its end is a number behind blanks.
LEMMA NumberIsLast ==
    ASSUME NEW string \in Seq(Piece), strtod(string).all
    PROVE  /\ Last(string) \in DOMAIN NumberOf
           /\ strtod(string).value = NumberOf[Last(string)]
<1> DEFINE rest == Unblanked(string)
<1>1. Len(rest) = 1 /\ Head(rest) \in DOMAIN NumberOf
  BY DEF strtod
<1>2. Len(string) \in Nat /\ DOMAIN string = 1..Len(string)
  BY LenProperties
<1>3. PICK i \in DOMAIN string : string[i] # Blank
  <2>1. SUFFICES ASSUME \A i \in DOMAIN string : string[i] = Blank
                 PROVE  FALSE
    OBVIOUS
  <2>2. {i \in DOMAIN string : string[i] # Blank} = {}
    BY <2>1
  <2>3. rest = <<>>
    BY <2>2 DEF Unblanked
  <2> QED
    BY <1>1, <2>3
<1>4. PICK k \in 1..i : rest = SubSeq(string, k, Len(string))
  BY <1>3, WithoutBlanks
<1>5. k = Len(string)
  <2>1. k \in 1..Len(string)
    BY <1>2, <1>4
  <2>2. Len(SubSeq(string, k, Len(string))) = Len(string) - k + 1
    BY <1>2, <2>1
  <2>3. Len(string) - k + 1 = 1
    BY <1>1, <1>4, <2>2, Zenon
  <2>4. \A m, n \in Nat : n - m + 1 = 1 => m = n
    OBVIOUS
  <2>5. k \in Nat
    BY <1>2, <2>1
  <2> QED
    BY <1>2, <2>3, <2>4, <2>5, Zenon
<1>6. Head(rest) = Last(string)
  <2>1. Len(string) \in 1..Len(string)
    BY <1>2, <1>4, <1>5
  <2>2. Head(SubSeq(string, Len(string), Len(string))) = string[Len(string)]
    BY <1>2, <2>1
  <2> QED
    BY <1>4, <1>5, <2>2 DEF Last
<1>7. strtod(string).value = NumberOf[Head(rest)]
  <2>1. rest # <<>>
    <3>1. Len(<<>>) = 0
      OBVIOUS
    <3>2. Len(rest) # 0
      BY <1>1
    <3> QED
      BY <3>1, <3>2, Zenon
  <2> QED
    BY <1>1, <2>1 DEF strtod, Leading
<1> QED
  BY <1>1, <1>6, <1>7

\* What lies within the bounds stays as it is.
LEMMA Clamped ==
    ASSUME NEW d \in Int, NEW low \in Int, NEW high \in Int, low <= d, d <= high
    PROVE  Max({low, Min({d, high})}) = d
<1>1. Min({d, high}) = d
  BY DEF Min
<1>2. Max({low, d}) = d
  BY DEF Max
<1> QED
  BY <1>1, <1>2

\* atoi of digits that make a number which fits an int.
LEMMA YearConverted ==
    ASSUME NEW string \in Seq(Piece), AllDigits(string),
           ~((IF string = <<>> THEN 0 ELSE NumberOf[Head(string)]) \div 10
               >= 2^(IntBits - 1))
    PROVE  LET year == IF string = <<>> THEN 0 ELSE NumberOf[Head(string)]
           IN  10 * atoi(string) = year /\ year \in Int
<1> DEFINE year == IF string = <<>> THEN 0 ELSE NumberOf[Head(string)]
           half == 2^(IntBits - 1)
           limit == 2^(LongBits - 1)
<1>1. half \in Nat \ {0} /\ limit \in Nat /\ half <= limit
  BY WidthAssumption
<1>2. string # <<>> => Head(string) \in Unsigned
  <2>1. string # <<>> => Len(string) \in Nat \ {0}
    BY EmptySeq, LenProperties
  <2>2. string # <<>> => 1 \in DOMAIN string /\ Head(string) = string[1]
    BY <2>1, LenProperties
  <2> QED
    BY <2>2 DEF AllDigits, ToSet
<1>3. /\ year \in Nat /\ year % 10 = 0 /\ year # NaN
      /\ string # <<>> => Head(string) \in DOMAIN NumberOf
  <2>1. 0 \in Nat /\ 0 % 10 = 0
    OBVIOUS
  <2>2. \A n \in Nat : n # NaN
    BY NumberAssumption
  <2> QED
    BY <1>2, <2>1, <2>2, NumberAssumption
<1>4. year \div 10 < half
  BY <1>1, <1>3
<1>5. atol(string) = Max({-(limit - 1) - 1, Min({year \div 10, limit - 1})})
  <2>1. Unblanked(string) = string
    BY DigitsUnblanked
  <2>2. Leading(string) = year
    BY <1>3, <2>1 DEF Leading
  <2>3. Whole(year) = year \div 10
    BY <1>3 DEF Whole
  <2> HIDE DEF year
  <2> QED
    BY <1>3, <2>2, <2>3 DEF atol
<1> HIDE DEF year, half, limit
<1>6. PICK d \in Nat : d = year \div 10 /\ year = 10 * d
  BY <1>3
<1>7. Max({-(limit - 1) - 1, Min({d, limit - 1})}) = d
  <2> DEFINE low == -(limit - 1) - 1
             high == limit - 1
  <2>1. low \in Int /\ high \in Int /\ low <= d /\ d <= high
    BY <1>1, <1>4, <1>6
  <2> HIDE DEF low, high
  <2>2. Max({low, Min({d, high})}) = d
    BY <2>1, Clamped
  <2> QED
    BY <2>2 DEF low, high
<1>8. atol(string) = d
  BY <1>5, <1>6, <1>7
<1>9. Truncated(d, IntBits) = d
  BY <1>4, <1>6, TruncatedKeeps DEF half
<1> QED
  BY <1>3, <1>6, <1>8, <1>9 DEF atoi, year

\* A year of digits that fits an int.
LEMMA YearIsKept ==
    ASSUME IInv
    PROVE  YearKept
<1> DEFINE year == IF typed.year = <<>> THEN 0 ELSE NumberOf[Head(typed.year)]
<1> SUFFICES ASSUME MovieArrived, ~(year \div 10 >= 2^(IntBits - 1))
             PROVE  Contents(decoded, "year") = NumberText(year)
  BY DEF YearKept
<1>1. /\ command \in {"add_movie", "update_movie"}
      /\ typed \in Answers[command] /\ Accepted(command, typed)
      /\ ToSet(decoded.json.of) = Listed(command, typed)
  BY ArrivedListed DEF MovieArrived
<1>2. AllDigits(typed.year) /\ typed.year \in Seq(Piece)
  <2>1. AllDigits(typed.year)
    BY <1>1 DEF Accepted
  <2>2. CASE command = "add_movie"
    <3>1. typed \in Answers["add_movie"]
      BY <1>1, <2>2
    <3>2. typed.year \in Texts.year
      BY <3>1 DEF Answers
    <3> QED
      BY <2>1, <3>2, TextsAssumption
  <2>3. CASE command = "update_movie"
    <3>1. typed \in Answers["update_movie"]
      BY <1>1, <2>3
    <3>2. typed.year \in Texts.year
      BY <3>1 DEF Answers
    <3> QED
      BY <2>1, <3>2, TextsAssumption
  <2> QED
    BY <1>1, <2>2, <2>3
<1>3. 10 * atoi(typed.year) = year /\ year \in Int
  BY <1>2, YearConverted
<1>6. Own(ToSet(decoded.json.of), "year", NumberMembers("year", year))
  BY <1>1, <1>3, NamesDiffer
<1> HIDE DEF year
<1>7. year # NaN
  BY <1>3, NumberAssumption
<1> QED
  BY <1>6, <1>7, NumberFound

\* The rating of an accepted movie.
LEMMA RatingIsKept ==
    ASSUME IInv
    PROVE  RatingKept
<1> SUFFICES ASSUME MovieArrived
             PROVE  \/ /\ NumberOf[Last(typed.rating)] = NaN
                       /\ <<"rating">> \notin NamesIn(decoded)
                    \/ \E n \in 0..100 :
                          /\ NumberOf[Last(typed.rating)] = n
                          /\ Contents(decoded, "rating") = NumberText(n)
  BY DEF RatingKept
<1> DEFINE number == NumberOf[Last(typed.rating)]
<1>1. /\ command \in {"add_movie", "update_movie"}
      /\ typed \in Answers[command]
      /\ Accepted(command, typed)
      /\ ToSet(decoded.json.of) = Listed(command, typed)
  BY ArrivedListed DEF MovieArrived
<1>2. RatingAccepted(typed.rating)
  BY <1>1 DEF Accepted
<1>3. /\ strtod(typed.rating).value = number
      /\ number \in Int \cup {NaN}
      /\ number # NaN => ~(number < 0 \/ number > 100)
  <2>1. typed.rating \in Seq(Piece)
    <3>1. CASE command = "add_movie"
      <4>1. typed \in Answers["add_movie"]
        BY <1>1, <3>1
      <4>2. typed.rating \in Texts.rating
        BY <4>1 DEF Answers
      <4> QED
        BY <4>2, TextsAssumption
    <3>2. CASE command = "update_movie"
      <4>1. typed \in Answers["update_movie"]
        BY <1>1, <3>2
      <4>2. typed.rating \in Texts.rating
        BY <4>1 DEF Answers
      <4> QED
        BY <4>2, TextsAssumption
    <3> QED
      BY <1>1, <3>1, <3>2
  <2>2. strtod(typed.rating).all
    BY <1>2 DEF RatingAccepted
  <2>3. /\ Last(typed.rating) \in DOMAIN NumberOf
        /\ strtod(typed.rating).value = number
    BY <2>1, <2>2, NumberIsLast
  <2>4. number # NaN => ~(number < 0 \/ number > 100)
    BY <1>2, <2>3 DEF RatingAccepted
  <2> QED
    BY <2>3, <2>4, NumberAssumption
<1>4. Own(ToSet(decoded.json.of), "rating", NumberMembers("rating", number))
  BY <1>1, <1>3, NamesDiffer
<1> HIDE DEF number
<1>5. IF number = NaN THEN <<"rating">> \notin NamesIn(decoded)
      ELSE Contents(decoded, "rating") = NumberText(number)
  BY <1>4, NumberFound
<1>6. number # NaN => number \in 0..100
  BY <1>3
<1> QED
  BY <1>5, <1>6 DEF number

\* The names and passwords of new users.
LEMMA NamesAreSound ==
    ASSUME IInv
    PROVE  NamesSound
<1> SUFFICES ASSUME Arrived, command = "add_user", NEW f \in ToSet(decoded.json.of)
             PROVE  f.value.of # <<>> /\ Blank \notin ToSet(f.value.of)
  BY DEF NamesSound
<1>1. Accepted(command, typed) /\ ToSet(decoded.json.of) = Listed(command, typed)
  BY ArrivedListed
<1>2. valid_info(typed.username) /\ valid_info(typed.password)
  BY <1>1 DEF Accepted
<1>3. f \in StringMembers("username", typed.username)
             \cup StringMembers("password", typed.password)
  BY <1>1 DEF Listed
<1>4. f.value.of \in {typed.username, typed.password}
  BY <1>3 DEF StringMembers, Named
<1> QED
  BY <1>2, <1>4 DEF valid_info

-----------------------------------------------------------------------------
\* What follows from it.

\* The server reads out of every request what the handler gave to requests.c:
\* method, path, cookie, token and body, whatever the user typed.
THEOREM ReadAsMeantAlways ==
    ASSUME LengthsWritten
    PROVE  Spec => []ReadAsMeant
<1>1. IInv => ReadAsMeant
  BY DEF IInv
<1> QED
  BY <1>1, Invariance, PTL

\* After a login the client holds the cookie that the server gave, after get_access
\* the token.
THEOREM CredentialsTakenAlways ==
    ASSUME LengthsWritten
    PROVE  Spec => []CredentialsTaken
<1>1. ASSUME IInv
      PROVE  CredentialsTaken
  <2>1. ASSUME Gives(reply.body, reply.given)
        PROVE  Contents(json_parse_string(reply.body), "token") = reply.given
    <3>1. json_parse_string(reply.body).json = Said("token", reply.given)
      BY <2>1, TokenRead DEF Gives
    <3> QED
      BY <3>1, SaidIsRead
  <2> QED
    BY <1>1, <2>1 DEF IInv, TakenSound, CredentialsTaken
<1> QED
  BY <1>1, Invariance, PTL

\* The body that is parsed is the one that the server sent.
THEOREM BodyTakenAlways ==
    ASSUME LengthsWritten
    PROVE  Spec => []BodyTaken
<1>1. IInv => BodyTaken
  BY DEF IInv, ParsingSound, BodyTaken
<1> QED
  BY <1>1, Invariance, PTL

\* Every string reaches the server as it was typed, character by character, and
\* only those that are not UTF-8 do not reach it.
THEOREM StringsArriveAlways ==
    ASSUME LengthsWritten
    PROVE  Spec => []StringsArrive
<1>1. IInv => StringsArrive
  BY StringsAreKept
<1> QED
  BY <1>1, Invariance, PTL

\* What the handlers check is true of what the server stores, and the conversions
\* behind the checks change nothing.
THEOREM InputKeptAlways ==
    ASSUME LengthsWritten
    PROVE  Spec => []InputKept
<1>1. IInv => InputKept
  BY RatingIsKept, YearIsKept, NamesAreSound DEF InputKept
<1> QED
  BY <1>1, Invariance, PTL

\* Whatever a server writes, in its own layout and with or without escapes, parson
\* reads as what it means, with a mark of the byte order before it and with anything
\* behind it that does not make another number of it, unless it is nested too deeply
\* or names a member twice.
THEOREM ReplyReadAlways ==
    ASSUME LengthsWritten
    PROVE  Spec => []ReplyRead
<1>1. BodyInv => ReplyRead
  BY MeaningRead DEF ReplyRead
<1> QED
  BY <1>1, BodyInvariance, PTL

\* A string, an array, an object or a literal whose end is missing parson never takes
\* for a shorter one; only a number may be.
THEOREM CutRefusedAlways ==
    ASSUME LengthsWritten
    PROVE  Spec => []CutRefused
<1>1. BodyInv => CutRefused
  BY EndMissed DEF CutRefused
<1> QED
  BY <1>1, BodyInvariance, PTL

\* Whatever parson accepts keeps to the limit on nesting and names no member twice,
\* the texts that lost a piece included.
THEOREM WithinLimitsAlways ==
    ASSUME LengthsWritten
    PROVE  Spec => []WithinLimits
<1>1. ASSUME BodyInv, result # NULL, result.ok
      PROVE  WellFormed(result.json)
  <2>1. result = json_parse_string(reply.body) /\ phase = "done"
    BY <1>1 DEF BodyInv, ResultSound
  <2>2. reply.body \in Text
    BY <1>1, <2>1, BodyIsText DEF BodyInv
  <2>3. json_parse_string(reply.body).ok => WellFormed(json_parse_string(reply.body).json)
    BY <2>2, ReadIsWellFormed
  <2> QED
    BY <1>1, <2>1, <2>3, Zenon
<1>2. BodyInv => WithinLimits
  BY <1>1 DEF WithinLimits
<1> QED
  BY <1>2, BodyInvariance, PTL
=============================================================================
