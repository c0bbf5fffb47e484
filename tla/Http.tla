--------------------------------- MODULE Http ---------------------------------
(***************************************************************************)
(* The text of the messages: requests.c composes a request from what a     *)
(* handler passes it, the server reads it and composes a reply, and        *)
(* helpers.c takes the cookie and the body out of that.  A message is a    *)
(* sequence of pieces; lengths are counted in pieces.                      *)
(***************************************************************************)
EXTENDS Naturals, Sequences, SequencesExt, FiniteSetsExt, TLC

CONSTANTS
    CookieEnds,   \* what the server writes behind a cookie
    NULL

Decimal(n) == ToString(n)

\* The pieces by which a reader finds its way in a message.
LineEnd == "\r\n"
Version == " HTTP/1.1"
LengthTag == "Content-Length: "
CookieTag == "Cookie: "
TokenTag == "Authorization: Bearer "
CookieMark == "Set-Cookie: "
Semicolon == ";"

OK == "HTTP/1.1 200 OK"
CREATED == "HTTP/1.1 201 CREATED"
NO_CONTENT == "HTTP/1.1 204 NO CONTENT"
NoContent == "HTTP/1.1 204 No Content"
NotFound == "HTTP/1.1 404 Not Found"

\* What ends or begins a part of a request.
Reserved == {LineEnd, Version, LengthTag, CookieTag, TokenTag}

ASSUME CookieEndsAssumption ==
    \A end \in CookieEnds :
        /\ Len(end) > 0
        /\ end[1] = Semicolon
        /\ \A i \in 1..Len(end) : end[i] # LineEnd

\* The first place from "from" on where piece stands, 0 if there is none (strstr).
PlaceOf(message, piece, from) ==
    LET places == {i \in from..Len(message) : message[i] = piece}
    IN  IF places = {} THEN 0 ELSE Min(places)

From(message, first) == SubSeq(message, first, Len(message))

-----------------------------------------------------------------------------
(* requests.c                                                              *)

\* compute_message
Line(pieces) == pieces \o <<LineEnd>>

\* The fields that each of the four functions ends with; an empty cookie or
\* token counts as none.
Credentials(cookie, token) ==
    (IF cookie \notin {NULL, <<>>} THEN Line(<<CookieTag>> \o cookie) ELSE <<>>)
    \o (IF token \notin {NULL, <<>>}
        THEN Line(<<TokenTag>> \o token) ELSE <<>>)

Opening(method, url) ==
    Line(<<method, " ">> \o url \o <<Version>>) \o Line(<<"Host: ", "IP">>)

\* A slip: the terminating '\0' is counted.
Described_Counted(body) ==
    Line(<<"Content-Type: ", "application/json">>)
        \o Line(<<LengthTag, Decimal(Len(body) + 1)>>)

Described(body) ==
    Line(<<"Content-Type: ", "application/json">>)
        \o Line(<<LengthTag, Decimal(Len(body))>>)

\* Every caller passes NULL for query_params.
compute_get_request(url, cookie, token) ==
    Opening("GET", url) \o Credentials(cookie, token) \o <<LineEnd>>

compute_delete_request(url, cookie, token) ==
    Opening("DELETE", url) \o Credentials(cookie, token) \o <<LineEnd>>

compute_post_request(url, body, cookie, token) ==
    Opening("POST", url) \o Described(body) \o Credentials(cookie, token)
        \o <<LineEnd>> \o body

compute_put_request(url, body, cookie, token) ==
    Opening("PUT", url) \o Described(body) \o Credentials(cookie, token)
        \o <<LineEnd>> \o body

Composed(c) ==
    CASE c.method = "GET" -> compute_get_request(c.url, c.cookie, c.token)
      [] c.method = "DELETE" -> compute_delete_request(c.url, c.cookie, c.token)
      [] c.method = "POST" -> compute_post_request(c.url, c.body, c.cookie, c.token)
      [] c.method = "PUT" -> compute_put_request(c.url, c.body, c.cookie, c.token)

-----------------------------------------------------------------------------
(* helpers.c                                                               *)

\* A slip: the search starts again at the beginning.
extract_cookie_FirstSemicolon(reply) ==
    LET start == PlaceOf(reply, CookieMark, 1)
        end == PlaceOf(reply, Semicolon, 1)
    IN  IF start = 0 \/ end = 0 THEN NULL ELSE SubSeq(reply, start + 1, end - 1)

\* From behind the tag to the next ';'.  NULL stands for the end of the process:
\* without a tag or without a ';' the code computes with a null pointer.
extract_cookie(reply) ==
    LET start == PlaceOf(reply, CookieMark, 1)
        end == PlaceOf(reply, Semicolon, start)
    IN  IF start = 0 \/ end = 0 THEN NULL ELSE SubSeq(reply, start + 1, end - 1)

\* The handlers look for these status lines anywhere in the reply.
Granted(reply, statuses) == \E status \in statuses : PlaceOf(reply, status, 1) # 0

BlankLines(message) ==
    {i \in 1..(Len(message) - 1) : message[i] = LineEnd /\ message[i + 1] = LineEnd}

\* A slip: the body begins behind the last blank line.
json_body_Last(reply) == From(reply, Max(BlankLines(reply)) + 2)

json_body(reply) == From(reply, Min(BlankLines(reply)) + 2)

-----------------------------------------------------------------------------
(* The server (external): the fields in any order, the body by its length. *)

Field(message, tag) ==
    LET head == SubSeq(message, 1, Min(BlankLines(message)))
        at == PlaceOf(head, tag, 1)
    IN  IF at = 0 THEN NULL ELSE SubSeq(head, at + 1, PlaceOf(head, LineEnd, at) - 1)

\* NULL where the request has no body, or fewer or more pieces than it says.
BodyOf(message) ==
    LET body == From(message, Min(BlankLines(message)) + 2)
    IN  IF Field(message, LengthTag) = <<Decimal(Len(body))>>
        THEN body ELSE NULL

Understood(message) ==
    [method |-> Head(message),
     url |-> SubSeq(message, 3, PlaceOf(message, Version, 1) - 1),
     cookie |-> Field(message, CookieTag),
     token |-> Field(message, TokenTag),
     body |-> BodyOf(message)]

\* An empty cookie or token counts as none.
Given(value) == IF value = <<>> THEN NULL ELSE value

\* What there is to understand of a request.
AsGiven(c) ==
    [method |-> c.method, url |-> c.url, cookie |-> Given(c.cookie),
     token |-> Given(c.token), body |-> c.body]

\* Lines, among them the announced length, and what follows the blank line.
Reply(status, fields, length, body) ==
    Line(<<status>>) \o fields
        \o Line(<<LengthTag, Decimal(length)>>) \o <<LineEnd>> \o body

TypeField(charset) == Line(<<"Content-Type: ", "application/json">> \o charset)
TypeFields == {TypeField(charset) : charset \in {<<>>, <<Semicolon, " charset">>}}

CookieField(cookie, end) == Line(<<CookieMark>> \o cookie \o end)

\* The cookie's field before or after the other.
FieldsWith(cookie) ==
    {CookieField(cookie, end) \o type : end \in CookieEnds, type \in TypeFields}
        \cup {type \o CookieField(cookie, end) : end \in CookieEnds, type \in TypeFields}

=============================================================================
