----------------------------- MODULE MCConnection -----------------------------
(***************************************************************************)
(* Instances of Connection for TLC.                                        *)
(***************************************************************************)
EXTENDS Connection

\* An empty body, a plain one, one that begins like the end of a header, one that
\* looks like a header, and one of ten pieces.
FramedReplies ==
    { [length |-> <<"0">>, body |-> <<>>],
      [length |-> <<"2">>, body |-> <<"text", "text">>],
      [length |-> <<"0", "3">>, body |-> <<"crlf", "crlf", "text">>],
      [length |-> <<"3">>, body |-> <<"text", "length", "1">>],
      [length |-> <<"1", "0">>, body |-> [i \in 1..10 |-> "text"]] }

\* A body shorter than announced, and one that is longer.
MismatchedReplies ==
    { [length |-> <<"2">>, body |-> <<"text">>],
      [length |-> <<"1">>, body |-> <<"text", "crlf", "text">>] }

\* A "204 No Content" as HTTP prescribes it.
NoContentReplies == { [length |-> NoLength, body |-> <<>>] }

\* Lengths that are empty: what is taken for them lies behind the blank line, in
\* the body or behind the buffer.
EmptyLengths ==
    { [length |-> <<>>, body |-> <<>>],
      [length |-> <<>>, body |-> <<"2", "text">>] }

\* Replies that the server ends by closing, one with a length in its body.
ClosedReplies ==
    { [length |-> NoLength, body |-> <<"text">>],
      [length |-> NoLength, body |-> <<"text", "length", "1", "text">>] }

AllReplies ==
    FramedReplies \cup MismatchedReplies \cup NoContentReplies
        \cup EmptyLengths \cup ClosedReplies
=============================================================================
