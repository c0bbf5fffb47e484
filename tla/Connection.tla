------------------------------ MODULE Connection ------------------------------
(***************************************************************************)
(* One exchange with the server: open_connection, send_to_server,          *)
(* receive_from_server, which every handler calls in this order, and the   *)
(* close that ends it.  TCP delivers each direction in order but cuts it   *)
(* anywhere, may take only a part of a write, and may break.               *)
(*                                                                         *)
(* A request is the sequence of its byte positions.  A reply travels as a  *)
(* sequence of pieces: "crlf", "length" (the text "Content-Length: " in    *)
(* any capitalisation), digits, and "text" for all the rest, none of which *)
(* begins with a blank or a sign.                                          *)
(***************************************************************************)
EXTENDS Integers, Sequences

CONSTANTS
    Total,      \* the length of the request
    Replies,    \* the replies the server may choose from
    NoLength,   \* in place of the length of a reply without Content-Length
    NoReply,    \* in place of the reply while there is none
    MaxRead     \* the size of the array handed to read (4096 in the code)

Digits == {"0", "1", "2", "3"}

Pieces == Digits \cup {"text", "crlf", "length"}

ASSUME TotalAssumption == Total \in Nat \ {0}

ASSUME RepliesAssumption ==
    /\ NoReply \notin Replies
    /\ \A r \in Replies :
         /\ r = [length |-> r.length, body |-> r.body]
         /\ r.length = NoLength \/ r.length \in Seq(Digits)
         /\ r.body \in Seq(Pieces)

ASSUME MaxReadAssumption == MaxRead \in Nat \ {0}

VARIABLES
    pc,           \* "connect", "send", "header", "body", "returned", "dead"
    sent,         \* send_to_server's count
    buffer,       \* receive_from_server's buffer
    total,        \* its header_end + content_length
    \* the network and the server
    link,         \* "none", "up", "closed" (by the server), "reset" or "broken"
    upstream,     \* request bytes the socket has taken, in order
    reply,        \* the reply the server has chosen
    produced,     \* how many of its pieces the server has sent
    arrived       \* how many of them the client has read

vars == <<pc, sent, buffer, total, link, upstream, reply, produced, arrived>>

-----------------------------------------------------------------------------
\* What receive_from_server computes on its buffer.

MatchAt(data, pattern, i) ==
    /\ i + Len(pattern) <= Len(data)
    /\ \A j \in 1..Len(pattern) : data[i + j] = pattern[j]

\* The offset of the first occurrence, or -1.
buffer_find(data, pattern) ==
    IF \E i \in 0..Len(data) : MatchAt(data, pattern, i)
    THEN CHOOSE i \in 0..Len(data) :
            /\ MatchAt(data, pattern, i)
            /\ \A k \in 0..i - 1 : ~MatchAt(data, pattern, k)
    ELSE -1

BlankLine == <<"crlf", "crlf">>

ContentLength == <<"length">>

ValueOf == [d \in Digits |->
    CASE d = "0" -> 0 [] d = "1" -> 1 [] d = "2" -> 2 [] d = "3" -> 3]

\* What the first n digits stand for.
Upto(digits) ==
    LET value[n \in 0..Len(digits)] ==
            IF n = 0 THEN 0 ELSE 10 * value[n - 1] + ValueOf[digits[n]]
    IN  value

Number(digits) == Upto(digits)[Len(digits)]

\* content_length is an int.
ASSUME LengthAssumption ==
    \A r \in Replies : r.length # NoLength => Number(r.length) <= 2147483647

\* How many pieces from offset i on are of this kind.
RunLength(data, i, kind) ==
    LET runs == {n \in 0..Len(data) - i : \A k \in 1..n : data[i + k] \in kind}
    IN  CHOOSE n \in runs : \A m \in runs : m <= n

\* strtol skips white space, line ends included, before it takes digits: behind
\* an empty length it goes on into the body.
DigitsBegin(data, i) == i + RunLength(data, i, {"crlf"})

DigitsEnd(data, i) ==
    DigitsBegin(data, i) + RunLength(data, DigitsBegin(data, i), Digits)

DigitsAt(data, i) == SubSeq(data, DigitsBegin(data, i) + 1, DigitsEnd(data, i))

\* What strtol may make of them; no digit makes 0.  The buffer has no terminator
\* yet, so what it reads at the buffer's very end may go on in the memory behind
\* it, for which one stray digit stands.
strtol(data, i) ==
    {Number(DigitsAt(data, i))} \cup
        IF DigitsEnd(data, i) < Len(data) THEN {}
        ELSE {Number(Append(DigitsAt(data, i), stray)) : stray \in Digits}

\* A slip: the length alone ends the search.
HeaderKnown_LengthOnly(data) == buffer_find(data, ContentLength) >= 0

\* The search goes on until the buffer holds both the blank line and a length,
\* wherever in the buffer that length is.
HeaderKnown(data) ==
    /\ buffer_find(data, BlankLine) >= 0
    /\ buffer_find(data, ContentLength) >= 0

FrameEnds(data) ==
    {buffer_find(data, BlankLine) + Len(BlankLine) + length :
        length \in strtol(data, buffer_find(data, ContentLength) + Len(ContentLength))}

-----------------------------------------------------------------------------
\* The reply on the network.

StatusLine == <<"text", "crlf">>

LengthField(length) ==
    IF length = NoLength THEN <<>> ELSE <<"length">> \o length \o <<"crlf">>

Header(r) == StatusLine \o LengthField(r.length) \o <<"crlf">>

Wire(r) == IF r = NoReply THEN <<>> ELSE Header(r) \o r.body

Unread == SubSeq(Wire(reply), arrived + 1, produced)

-----------------------------------------------------------------------------
\* The client.

\* What connect returns is ignored: the first write finds out.
open_connection ==
    /\ pc = "connect"
    /\ pc' = "send"
    /\ link' \in {"up", "broken"}
    /\ UNCHANGED <<sent, buffer, total, upstream, reply, produced, arrived>>

\* A slip: the length given to write does not shrink.
send_to_server_WholeLength ==
    /\ pc = "send"
    /\ link \in {"up", "closed"}
    /\ \E bytes \in 1..Total :
         /\ sent' = sent + bytes
         /\ upstream' = upstream \o [i \in 1..bytes |-> sent + i]
    /\ pc' = IF sent' < Total THEN "send" ELSE "header"
    /\ UNCHANGED <<buffer, total, link, reply, produced, arrived>>

\* A slip: each write starts from the beginning of the message.
send_to_server_FromStart ==
    /\ pc = "send"
    /\ link \in {"up", "closed"}
    /\ \E bytes \in 1..Total - sent :
         /\ sent' = sent + bytes
         /\ upstream' = upstream \o [i \in 1..bytes |-> i]
    /\ pc' = IF sent' < Total THEN "send" ELSE "header"
    /\ UNCHANGED <<buffer, total, link, reply, produced, arrived>>

\* One write, which takes any part of what is left.
send_to_server ==
    /\ pc = "send"
    /\ link \in {"up", "closed"}
    /\ \E bytes \in 1..Total - sent :
         /\ sent' = sent + bytes
         /\ upstream' = upstream \o [i \in 1..bytes |-> sent + i]
    /\ pc' = IF sent' < Total THEN "send" ELSE "header"
    /\ UNCHANGED <<buffer, total, link, reply, produced, arrived>>

\* The first write after a reset returns -1, which is added to the count like
\* any other result.
WriteFails ==
    /\ pc = "send"
    /\ link = "reset"
    /\ sent' = sent - 1
    /\ link' = "broken"
    /\ UNCHANGED <<pc, buffer, total, upstream, reply, produced, arrived>>

\* The next one, like any on a connection never made, raises SIGPIPE, which
\* nothing handles.
BrokenPipe ==
    /\ pc = "send"
    /\ link = "broken"
    /\ pc' = "dead"
    /\ UNCHANGED <<sent, buffer, total, link, upstream, reply, produced, arrived>>

\* One read: what has arrived, as much as the array holds, added to the buffer.
Read ==
    /\ Unread # <<>>
    /\ LET bytes == IF Len(Unread) < MaxRead THEN Len(Unread) ELSE MaxRead IN
         /\ buffer' = buffer \o SubSeq(Unread, 1, bytes)
         /\ arrived' = arrived + bytes
    /\ UNCHANGED <<sent, link, upstream, reply, produced>>

\* The first loop; the second one is not entered when the body is all there.
ReadHeader ==
    /\ pc = "header"
    /\ Read
    /\ IF HeaderKnown(buffer')
       THEN /\ total' \in FrameEnds(buffer')
            /\ pc' = IF Len(buffer') < total' THEN "body" ELSE "returned"
       ELSE UNCHANGED <<pc, total>>

\* A slip: the second loop waits for one piece more.
ReadBody_OneMore ==
    /\ pc = "body"
    /\ Read
    /\ pc' = IF Len(buffer') <= total THEN "body" ELSE "returned"
    /\ UNCHANGED total

ReadBody ==
    /\ pc = "body"
    /\ Read
    /\ pc' = IF Len(buffer') < total THEN "body" ELSE "returned"
    /\ UNCHANGED total

\* A read at the end of the stream returns 0: either loop adds nothing to the
\* buffer and reads again.
ReadAtEnd ==
    /\ pc \in {"header", "body"}
    /\ link = "closed"
    /\ Unread = <<>>
    /\ UNCHANGED vars

\* A read that fails returns -1, which buffer_add takes for a size: it copies
\* until the process dies.
ReadFails ==
    /\ pc \in {"header", "body"}
    /\ link = "reset"
    /\ pc' = "dead"
    /\ UNCHANGED <<sent, buffer, total, link, upstream, reply, produced, arrived>>

-----------------------------------------------------------------------------
\* The server and the network, as far as the client relies on them.

ServerReplies ==
    /\ link = "up"
    /\ Len(upstream) = Total
    /\ reply = NoReply
    /\ reply' \in Replies
    /\ UNCHANGED <<pc, sent, buffer, total, link, upstream, produced, arrived>>

ServerSends ==
    /\ link = "up"
    /\ produced' \in produced + 1..Len(Wire(reply))
    /\ UNCHANGED <<pc, sent, buffer, total, link, upstream, reply, arrived>>

\* The server closes the connection, whether it has answered in full or not.
ServerCloses ==
    /\ link = "up"
    /\ link' = "closed"
    /\ UNCHANGED <<pc, sent, buffer, total, upstream, reply, produced, arrived>>

\* The connection breaks, with or without what has arrived.
ConnectionResets ==
    /\ link \in {"up", "closed"}
    /\ pc \in {"send", "header", "body"}
    /\ link' = "reset"
    /\ produced' \in {arrived, produced}
    /\ UNCHANGED <<pc, sent, buffer, total, upstream, reply, arrived>>

-----------------------------------------------------------------------------

Init ==
    /\ pc = "connect"
    /\ sent = 0
    /\ buffer = <<>>
    /\ total = 0
    /\ link = "none"
    /\ upstream = <<>>
    /\ reply = NoReply
    /\ produced = 0
    /\ arrived = 0

Client ==
    \/ open_connection \/ send_to_server \/ WriteFails \/ BrokenPipe
    \/ ReadHeader \/ ReadBody \/ ReadAtEnd \/ ReadFails

Server == ServerReplies \/ ServerSends

Next == Client \/ Server \/ ServerCloses \/ ConnectionResets

Spec == Init /\ [][Next]_vars

\* The process runs, and the server answers and sends all of its reply, unless
\* it closes the connection first, which nothing makes it do or keeps it from.
Fairness == WF_vars(Client) /\ WF_vars(Server)

FairSpec == Spec /\ Fairness

-----------------------------------------------------------------------------
\* Properties.

\* Every variable holds a value of its kind; send_to_server's count goes below 0
\* at most by the one failed write that the process survives.
TypeOK ==
    /\ pc \in {"connect", "send", "header", "body", "returned", "dead"}
    /\ sent \in -1..Total
    /\ buffer \in Seq(Pieces)
    /\ total \in Nat
    /\ link \in {"none", "up", "closed", "reset", "broken"}
    /\ upstream \in Seq(1..Total)
    /\ reply \in Replies \cup {NoReply}
    /\ produced \in 0..Len(Wire(reply))
    /\ arrived \in 0..produced

\* However the writes were cut, and although a failed one is added to the count,
\* the server is sent the request's bytes in order, none twice and none left
\* out, and all of them before the client turns to reading.
RequestIntact ==
    /\ \A i \in DOMAIN upstream : upstream[i] = i
    /\ pc \in {"header", "body", "returned"} => Len(upstream) = Total

\* The reply's header announces how long the body is.
HasLength(r) == r.length \notin {NoLength, <<>>}

\* A reply whose header has a length is returned whole: receive_from_server finds
\* the end the server meant, however the reads cut the header, the blank line or
\* the body, whatever the body looks like and however the connection ends.
CompleteReply ==
    pc \in {"body", "returned"} /\ HasLength(reply) =>
        /\ total = Len(Header(reply)) + Number(reply.length)
        /\ buffer = SubSeq(Wire(reply), 1, arrived)
        /\ pc = "returned" => total <= arrived

Framed(r) == HasLength(r) /\ Number(r.length) <= Len(r.body)

\* The exchange of a reply whose header has a length, and which has as much body,
\* ends, in a return or in the process's death, unless the server closes before
\* it has sent all of it.
ExchangeEnds ==
    pc = "send" ~>
        \/ pc \in {"returned", "dead"}
        \/ reply # NoReply /\ ~Framed(reply)
        \/ link = "closed" /\ (reply = NoReply \/ produced < Len(Wire(reply)))

\* README.md:21: "For every user command, the client opens a new socket,
\* dynamically constructs the appropriate HTTP request [...], and awaits the
\* server's response."  A reply sent in full is received.
ResponseReceived ==
    reply # NoReply /\ produced = Len(Wire(reply)) ~> pc \in {"returned", "dead"}

=============================================================================
