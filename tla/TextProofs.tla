------------------------------ MODULE TextProofs ------------------------------
(***************************************************************************)
(* Proofs about the texts of an exchange.                                  *)
(*                                                                         *)
(* Http: whatever a handler passes to requests.c, the server reads it back *)
(* out of the message, and whatever cookie and body the server replies     *)
(* with, helpers.c takes them out of the reply.  Messages are joined of    *)
(* lines, none of which is empty or has a line end inside, so that the     *)
(* first blank line of a message is the one that ends its head (Block).  A *)
(* field that one of the lines carries is read wherever the line stands    *)
(* (Carries), one that no line has is not found (Free).                    *)
(*                                                                         *)
(* JsonText: what is written, in whatever layout, is read back as what it  *)
(* was, and nothing that ends too early is read (WrittenIsRead,            *)
(* CutIsRefused), but for a number alone: strtod takes the longest numeral *)
(* that is there, so that what follows may go on with it and a part of it  *)
(* is another one.  Whatever is read keeps parson's limits                 *)
(* (ReadIsWellFormed).  A recursive reader is first shown to be the        *)
(* function that its equation describes, as it calls itself on shorter     *)
(* texts only or one level deeper (RecursionOnRank, ParseValueEquation);   *)
(* what it reads is then shown by induction over the length of the text,   *)
(* over the levels left of MAX_NESTING, or over the depth of the value     *)
(* that was written.                                                       *)
(***************************************************************************)
EXTENDS Http, JsonText, SequenceTheorems, WellFoundedInduction, TLAPS

\* The piece stands nowhere in the text.
Free(text, piece) == \A i \in 1..Len(text) : text[i] # piece

\* Lines only, none of them empty.
Block(text) ==
    \/ Len(text) = 0
    \/ /\ text[1] # LineEnd
       /\ text[Len(text)] = LineEnd
       /\ \A i \in 1..(Len(text) - 1) : text[i] # LineEnd \/ text[i + 1] # LineEnd

\* The tag's first place is followed by the value and the mark that ends it.
CarriesAt(text, tag, value, mark, i) ==
    /\ i + Len(value) < Len(text)
    /\ text[i] = tag
    /\ \A j \in 1..(i - 1) : text[j] # tag
    /\ \A j \in 1..Len(value) : text[i + j] = value[j]
    /\ text[i + Len(value) + 1] = mark

Carries(text, tag, value, mark) ==
    \E i \in 1..Len(text) : CarriesAt(text, tag, value, mark, i)

-----------------------------------------------------------------------------
\* Places in a message.

\* whole is s followed by t.
Joins(S, s, t, whole) ==
    /\ whole \in Seq(S)
    /\ Len(s) \in Nat /\ Len(t) \in Nat
    /\ Len(whole) = Len(s) + Len(t)
    /\ \A i \in 1..Len(s) : whole[i] = s[i]
    /\ \A i \in 1..Len(t) : whole[Len(s) + i] = t[i]

\* What \o does.
LEMMA Joined ==
    ASSUME NEW S, NEW s \in Seq(S), NEW t \in Seq(S)
    PROVE  Joins(S, s, t, s \o t)
<1> DEFINE whole == s \o t
<1>1. Len(s) \in Nat /\ Len(t) \in Nat
  BY LenProperties
<1>2. /\ whole \in Seq(S)
      /\ Len(whole) = Len(s) + Len(t)
      /\ \A i \in 1..(Len(s) + Len(t)) :
           whole[i] = IF i <= Len(s) THEN s[i] ELSE t[i - Len(s)]
  BY ConcatProperties
<1> HIDE DEF whole
<1>3. ASSUME NEW i \in 1..Len(t)
      PROVE  whole[Len(s) + i] = t[i]
  <2>1. /\ Len(s) + i \in 1..(Len(s) + Len(t))
        /\ ~(Len(s) + i <= Len(s))
        /\ Len(s) + i - Len(s) = i
    BY <1>1
  <2> QED
    BY <1>2, <2>1
<1>4. Joins(S, s, t, whole)
  BY <1>1, <1>2, <1>3 DEF Joins
<1> QED
  BY <1>4 DEF whole

\* part is what stands in s from one place to another.
IsPart(S, s, from, to, part) ==
    /\ part \in Seq(S)
    /\ Len(part) = to - from + 1
    /\ \A i \in 1..Len(part) : part[i] = s[from + i - 1]

\* What SubSeq does.
LEMMA Parted ==
    ASSUME NEW S, NEW s \in Seq(S), NEW from \in Nat \ {0},
           NEW to \in (from - 1)..Len(s)
    PROVE  IsPart(S, s, from, to, SubSeq(s, from, to))
<1> DEFINE part == SubSeq(s, from, to)
<1>1. to \in Int /\ from \in Int /\ from <= to + 1
  BY LenProperties
<1>2. \A i \in from..to : s[i] \in S
  <2>1. Len(s) \in Nat
    BY LenProperties
  <2>2. \A i \in from..to : i \in 1..Len(s)
    BY <2>1
  <2> QED
    BY <2>2, ElementOfSeq
<1>3. /\ part \in Seq(S)
      /\ Len(part) = IF from <= to THEN to - from + 1 ELSE 0
      /\ \A i \in 1..(to - from + 1) : part[i] = s[from + i - 1]
  BY <1>1, <1>2, SubSeqProperties
<1> HIDE DEF part
<1>4. IsPart(S, s, from, to, part)
  BY <1>1, <1>3 DEF IsPart
<1> QED
  BY <1>4 DEF part

\* strstr finds the first place.
LEMMA FirstPlace ==
    ASSUME NEW S, NEW text \in Seq(S), NEW piece, NEW from \in Nat \ {0},
           NEW i \in from..Len(text), text[i] = piece,
           \A j \in from..(i - 1) : text[j] # piece
    PROVE  PlaceOf(text, piece, from) = i
<1> DEFINE places == {j \in from..Len(text) : text[j] = piece}
<1>1. Len(text) \in Nat
  BY LenProperties
<1>2. i \in places /\ \A j \in places : i =< j
  BY <1>1
<1>3. \A k \in places : (\A j \in places : k =< j) => k = i
  BY <1>1, <1>2
<1>4. Min(places) = i
  <2> HIDE DEF places
  <2> QED
    BY <1>2, <1>3 DEF Min
<1> QED
  BY <1>2, <1>4 DEF PlaceOf

\* What stands nowhere is not found.
LEMMA NoPlace ==
    ASSUME NEW S, NEW text \in Seq(S), NEW piece, Free(text, piece)
    PROVE  PlaceOf(text, piece, 1) = 0
  BY DEF PlaceOf, Free

\* The first blank line of the message is the one between head and body.
Separates(S, head, body, message) ==
    /\ message \in Seq(S)
    /\ Min(BlankLines(message)) = Len(head)
    /\ SubSeq(message, 1, Len(head)) = head
    /\ From(message, Len(head) + 2) = body

\* A message of lines, an empty line and a body is cut at that empty line.
LEMMA HeadEnds ==
    ASSUME NEW S, LineEnd \in S, NEW head \in Seq(S), NEW body \in Seq(S),
           Block(head), Len(head) # 0
    PROVE  Separates(S, head, body, head \o <<LineEnd>> \o body)
<1> DEFINE message == head \o <<LineEnd>> \o body
           blank == <<LineEnd>>
           opened == head \o blank
<1>1. blank \in Seq(S) /\ Len(blank) = 1 /\ blank[1] = LineEnd
  OBVIOUS
<1> HIDE DEF blank
<1>2. Joins(S, head, blank, opened)
  BY <1>1, Joined
<1> HIDE DEF opened
<1>3. opened \in Seq(S)
  BY <1>2 DEF Joins
<1>4. message = opened \o body
  BY DEF opened, blank
<1> HIDE DEF message
<1>5. Joins(S, opened, body, message)
  BY <1>3, <1>4, Joined
<1>6. PICK n \in Nat : n = Len(head)
  BY <1>2 DEF Joins
<1>7. /\ Len(body) \in Nat
      /\ message \in Seq(S)
      /\ Len(message) = n + 1 + Len(body)
      /\ \A i \in 1..n : message[i] = head[i]
      /\ message[n + 1] = LineEnd
      /\ \A i \in 1..Len(body) : message[n + 1 + i] = body[i]
  BY <1>1, <1>2, <1>5, <1>6 DEF Joins
<1>8. /\ n >= 1
      /\ head[n] = LineEnd
      /\ \A i \in 1..(n - 1) : head[i] # LineEnd \/ head[i + 1] # LineEnd
  BY <1>6 DEF Block
<1>9. Min(BlankLines(message)) = n
  <2> DEFINE blanks == BlankLines(message)
  <2>1. n \in blanks
    BY <1>6, <1>7, <1>8 DEF BlankLines
  <2>2. ASSUME NEW i \in blanks
        PROVE  i \in Int /\ n =< i
    <3>1. /\ i \in 1..(n + Len(body))
          /\ message[i] = LineEnd
          /\ message[i + 1] = LineEnd
      BY <1>6, <1>7 DEF BlankLines
    <3>2. CASE i < n
      <4>1. i \in 1..(n - 1) /\ i \in 1..n /\ i + 1 \in 1..n
        BY <1>6, <1>7, <3>1, <3>2
      <4> QED
        BY <1>7, <1>8, <3>1, <4>1
    <3> QED
      BY <1>6, <1>7, <3>1, <3>2
  <2> HIDE DEF blanks
  <2>3. \A k \in blanks : (\A j \in blanks : k =< j) => k = n
    BY <1>6, <2>1, <2>2
  <2>4. Min(blanks) = n
    BY <2>1, <2>2, <2>3 DEF Min
  <2> QED
    BY <2>4 DEF blanks
<1>10. SubSeq(message, 1, n) = head
  <2> DEFINE part == SubSeq(message, 1, n)
  <2>1. 1 \in Nat \ {0} /\ n \in (1 - 1)..Len(message)
    BY <1>6, <1>7
  <2>2. IsPart(S, message, 1, n, part)
    <3> HIDE DEF part
    <3>1. IsPart(S, message, 1, n, SubSeq(message, 1, n))
      BY ONLY <1>7, <2>1, Parted
    <3> QED
      BY <3>1 DEF part
  <2> HIDE DEF part
  <2>3. part \in Seq(S) /\ Len(part) = Len(head) /\ \A i \in 1..Len(part) : part[i] = head[i]
    BY <1>6, <1>7, <2>2 DEF IsPart
  <2>4. part = head
    BY <2>3, SeqEqual
  <2> QED
    BY <2>4 DEF part
<1>11. From(message, n + 2) = body
  <2>1. PICK last \in Nat : last = n + 1 + Len(body)
    BY <1>6, <1>7
  <2> DEFINE part == SubSeq(message, n + 2, last)
  <2>2. n + 2 \in Nat \ {0} /\ last \in ((n + 2) - 1)..Len(message)
    BY <1>6, <1>7, <2>1
  <2>3. IsPart(S, message, n + 2, last, part)
    BY <1>7, <2>2, Parted
  <2>4. From(message, n + 2) = part
    BY <1>7, <2>1 DEF From
  <2> HIDE DEF part
  <2>5. /\ part \in Seq(S)
        /\ Len(part) = last - (n + 2) + 1
        /\ \A i \in 1..Len(part) : part[i] = message[n + 2 + i - 1]
    BY <2>3 DEF IsPart
  <2>6. Len(part) = Len(body) /\ \A i \in 1..Len(part) : n + 2 + i - 1 = n + 1 + i
    BY <1>6, <1>7, <2>1, <2>5
  <2>7. \A i \in 1..Len(part) : part[i] = body[i]
    BY <1>7, <2>5, <2>6
  <2> QED
    BY <2>4, <2>5, <2>6, <2>7, SeqEqual
<1>12. Separates(S, head, body, message)
  BY <1>6, <1>7, <1>9, <1>10, <1>11 DEF Separates
<1> QED
  BY <1>12 DEF message


-----------------------------------------------------------------------------
\* Lines and what they carry.

\* A line that is not empty is a block.
LEMMA LineIsBlock ==
    ASSUME NEW S, LineEnd \in S, NEW pieces \in Seq(S), Len(pieces) # 0,
           Free(pieces, LineEnd)
    PROVE  Line(pieces) \in Seq(S) /\ Block(Line(pieces)) /\ Len(Line(pieces)) # 0
<1> DEFINE end == <<LineEnd>>
           line == pieces \o end
<1>1. end \in Seq(S) /\ Len(end) = 1 /\ end[1] = LineEnd
  OBVIOUS
<1> HIDE DEF end
<1>2. Joins(S, pieces, end, line)
  BY <1>1, Joined
<1> HIDE DEF line
<1>3. PICK n \in Nat : n = Len(pieces)
  BY <1>2 DEF Joins
<1>4. /\ line \in Seq(S)
      /\ Len(line) = n + 1
      /\ \A i \in 1..n : line[i] = pieces[i]
      /\ line[n + 1] = LineEnd
  BY <1>1, <1>2, <1>3 DEF Joins
<1>5. \A i \in 1..n : line[i] # LineEnd
  BY <1>3, <1>4 DEF Free
<1>6. Block(line)
  BY <1>3, <1>4, <1>5 DEF Block
<1>7. Line(pieces) = line
  BY DEF Line, line, end
<1> QED
  BY <1>3, <1>4, <1>6, <1>7

\* Blocks follow one another without an empty line between them.
LEMMA BlocksJoin ==
    ASSUME NEW S, NEW s \in Seq(S), NEW t \in Seq(S), Block(s), Block(t)
    PROVE  s \o t \in Seq(S) /\ Block(s \o t) /\ Len(s \o t) = Len(s) + Len(t)
<1> DEFINE whole == s \o t
<1>1. Joins(S, s, t, whole)
  BY Joined
<1> HIDE DEF whole
<1>2. PICK m \in Nat, n \in Nat : m = Len(s) /\ n = Len(t)
  BY <1>1 DEF Joins
<1>3. /\ Len(whole) = m + n
      /\ \A i \in 1..m : whole[i] = s[i]
      /\ \A i \in 1..n : whole[m + i] = t[i]
  BY <1>1, <1>2 DEF Joins
<1>4. ASSUME m = 0 PROVE Block(whole)
  <2>1. \A i \in 1..n : whole[i] = t[i]
    BY <1>3, <1>4
  <2> QED
    BY <1>2, <1>3, <1>4, <2>1 DEF Block
<1>5. ASSUME n = 0 PROVE Block(whole)
  BY <1>2, <1>3, <1>5 DEF Block
<1>6. ASSUME m # 0, n # 0 PROVE Block(whole)
  <2>1. /\ s[1] # LineEnd
        /\ \A i \in 1..(m - 1) : s[i] # LineEnd \/ s[i + 1] # LineEnd
        /\ t[1] # LineEnd
        /\ t[n] = LineEnd
        /\ \A i \in 1..(n - 1) : t[i] # LineEnd \/ t[i + 1] # LineEnd
    BY <1>2, <1>6 DEF Block
  <2>2. whole[1] # LineEnd /\ whole[m + n] = LineEnd
    BY <1>3, <1>6, <2>1
  <2>3. ASSUME NEW i \in 1..(m + n - 1)
        PROVE  whole[i] # LineEnd \/ whole[i + 1] # LineEnd
    <3>1. CASE i < m
      <4>1. i \in 1..(m - 1) /\ i \in 1..m /\ i + 1 \in 1..m
        BY <3>1
      <4> QED
        BY <1>3, <2>1, <4>1
    <3>2. CASE i = m
      <4>1. whole[m + 1] = t[1]
        BY <1>3, <1>6
      <4> QED
        BY <2>1, <3>2, <4>1
    <3>3. CASE i > m
      <4>1. PICK j \in 1..(n - 1) : i = m + j
        <5>1. i - m \in 1..(n - 1) /\ i = m + (i - m)
          BY <3>3
        <5> QED
          BY <5>1
      <4>2. whole[m + j] = t[j] /\ whole[m + (j + 1)] = t[j + 1]
        <5>1. j \in 1..n /\ j + 1 \in 1..n
          OBVIOUS
        <5> QED
          BY <1>3, <5>1
      <4>3. m + (j + 1) = i + 1
        BY <4>1
      <4> QED
        BY <2>1, <4>1, <4>2, <4>3
    <3> QED
      BY <3>1, <3>2, <3>3
  <2> QED
    BY <1>3, <2>2, <2>3 DEF Block
<1>7. Block(whole)
  BY <1>4, <1>5, <1>6
<1> QED
  BY <1>1, <1>7 DEF Joins, whole

\* A piece that stands in neither of two texts stands nowhere in both together.
LEMMA FreeJoin ==
    ASSUME NEW S, NEW s \in Seq(S), NEW t \in Seq(S), NEW piece,
           Free(s, piece), Free(t, piece)
    PROVE  Free(s \o t, piece)
<1> DEFINE whole == s \o t
<1>1. Joins(S, s, t, whole)
  BY Joined
<1> HIDE DEF whole
<1>2. ASSUME NEW i \in 1..Len(whole)
      PROVE  whole[i] # piece
  <2>1. CASE i <= Len(s)
    BY <1>1, <2>1 DEF Joins, Free
  <2>2. CASE ~(i <= Len(s))
    <3>1. i - Len(s) \in 1..Len(t) /\ i = Len(s) + (i - Len(s))
      BY <1>1, <2>2 DEF Joins
    <3>2. PICK j \in 1..Len(t) : i = Len(s) + j
      BY <3>1
    <3> QED
      BY <1>1, <3>2 DEF Joins, Free
  <2> QED
    BY <2>1, <2>2
<1>3. Free(whole, piece)
  BY <1>2 DEF Free
<1> QED
  BY <1>3 DEF whole

\* A line has what is put into it and its end.
LEMMA FreeLine ==
    ASSUME NEW S, LineEnd \in S, NEW pieces \in Seq(S), NEW piece,
           Free(pieces, piece), piece # LineEnd
    PROVE  Free(Line(pieces), piece)
<1>1. <<LineEnd>> \in Seq(S) /\ Free(<<LineEnd>>, piece)
  BY DEF Free
<1> QED
  BY <1>1, FreeJoin DEF Line

\* A tag, a value and a mark carry the value, whatever follows.
LEMMA CarriedFirst ==
    ASSUME NEW S, NEW tag \in S, NEW value \in Seq(S), NEW rest \in Seq(S), NEW mark,
           Len(rest) # 0, rest[1] = mark
    PROVE  Carries(<<tag>> \o value \o rest, tag, value, mark)
<1> DEFINE first == <<tag>>
           pieces == first \o value
           line == pieces \o rest
<1>1. first \in Seq(S) /\ Len(first) = 1 /\ first[1] = tag
  OBVIOUS
<1> HIDE DEF first
<1>2. Joins(S, first, value, pieces)
  BY <1>1, Joined
<1> HIDE DEF pieces
<1>3. pieces \in Seq(S)
  BY <1>2 DEF Joins
<1>4. Joins(S, pieces, rest, line)
  BY <1>3, Joined
<1> HIDE DEF line
<1>5. PICK n \in Nat, r \in Nat : n = Len(value) /\ r = Len(rest)
  BY <1>2, <1>4 DEF Joins
<1>6. /\ Len(pieces) = 1 + n
      /\ pieces[1] = tag
      /\ \A j \in 1..n : pieces[1 + j] = value[j]
  BY <1>1, <1>2, <1>5 DEF Joins
<1>7. /\ Len(line) = 1 + n + r
      /\ line[1] = tag
      /\ \A j \in 1..n : line[1 + j] = value[j]
      /\ line[1 + n + 1] = mark
  <2>1. Len(line) = 1 + n + r /\ \A i \in 1..(1 + n) : line[i] = pieces[i]
    BY <1>4, <1>5, <1>6 DEF Joins
  <2>2. 1 \in 1..Len(rest)
    BY <1>5
  <2>3. line[(1 + n) + 1] = rest[1]
    BY <1>4, <1>5, <1>6, <2>2 DEF Joins
  <2>4. \A j \in 1..n : 1 + j \in 1..(1 + n)
    BY <1>5
  <2> QED
    BY <1>5, <1>6, <2>1, <2>3, <2>4
<1>8. CarriesAt(line, tag, value, mark, 1)
  BY <1>5, <1>7 DEF CarriesAt
<1>9. 1 \in 1..Len(line)
  BY <1>5, <1>7
<1>10. Carries(line, tag, value, mark)
  BY <1>8, <1>9 DEF Carries
<1> QED
  BY <1>10 DEF line, pieces, first

\* The line a field is written on carries it.
LEMMA LineCarries ==
    ASSUME NEW S, LineEnd \in S, NEW tag \in S, NEW value \in Seq(S)
    PROVE  Carries(Line(<<tag>> \o value), tag, value, LineEnd)
<1> DEFINE end == <<LineEnd>>
<1>1. end \in Seq(S) /\ Len(end) # 0 /\ end[1] = LineEnd
  OBVIOUS
<1> HIDE DEF end
<1>2. Carries(<<tag>> \o value \o end, tag, value, LineEnd)
  BY <1>1, CarriedFirst
<1> QED
  BY <1>2 DEF Line, end

\* A field that is carried is carried with anything behind it.
LEMMA CarriedBefore ==
    ASSUME NEW S, NEW s \in Seq(S), NEW t \in Seq(S), NEW tag, NEW value \in Seq(S),
           NEW mark,
           Carries(s, tag, value, mark)
    PROVE  Carries(s \o t, tag, value, mark)
<1> DEFINE whole == s \o t
<1>1. Joins(S, s, t, whole)
  BY Joined
<1> HIDE DEF whole
<1>2. Len(value) \in Nat
  BY LenProperties
<1>3. PICK i \in 1..Len(s) : CarriesAt(s, tag, value, mark, i)
  BY DEF Carries
<1>4. /\ i + Len(value) + 1 \in 1..Len(s)
      /\ \A j \in 1..(i - 1) : j \in 1..Len(s)
      /\ \A j \in 1..Len(value) : i + j \in 1..Len(s)
  BY <1>1, <1>2, <1>3 DEF Joins, CarriesAt
<1>5. /\ Len(s) <= Len(whole)
      /\ \A j \in 1..Len(s) : whole[j] = s[j]
  BY <1>1 DEF Joins
<1>6. i + Len(value) < Len(whole) /\ i \in 1..Len(whole)
  BY <1>1, <1>2, <1>3, <1>5 DEF Joins, CarriesAt
<1>7. whole[i] = tag /\ whole[i + Len(value) + 1] = mark
  BY <1>3, <1>4, <1>5 DEF CarriesAt
<1>8. \A j \in 1..(i - 1) : whole[j] # tag
  BY <1>3, <1>4, <1>5 DEF CarriesAt
<1>9. \A j \in 1..Len(value) : whole[i + j] = value[j]
  BY <1>3, <1>4, <1>5 DEF CarriesAt
<1>10. CarriesAt(whole, tag, value, mark, i)
  BY <1>6, <1>7, <1>8, <1>9 DEF CarriesAt
<1>11. Carries(whole, tag, value, mark)
  BY <1>6, <1>10 DEF Carries
<1> QED
  BY <1>11 DEF whole

\* And with anything before it that has no such tag.
LEMMA CarriedBehind ==
    ASSUME NEW S, NEW s \in Seq(S), NEW t \in Seq(S), NEW tag, NEW value \in Seq(S),
           NEW mark,
           Free(s, tag), Carries(t, tag, value, mark)
    PROVE  Carries(s \o t, tag, value, mark)
<1> DEFINE whole == s \o t
<1>1. Joins(S, s, t, whole)
  BY Joined
<1> HIDE DEF whole
<1>2. PICK m \in Nat, n \in Nat : m = Len(s) /\ n = Len(value)
  BY <1>1, LenProperties DEF Joins
<1>3. PICK i \in 1..Len(t) : CarriesAt(t, tag, value, mark, i)
  BY DEF Carries
<1>4. /\ i + n < Len(t)
      /\ t[i] = tag
      /\ \A j \in 1..(i - 1) : t[j] # tag
      /\ \A j \in 1..n : t[i + j] = value[j]
      /\ t[i + n + 1] = mark
  BY <1>2, <1>3 DEF CarriesAt
<1>5. /\ Len(whole) = m + Len(t) /\ Len(t) \in Nat
      /\ \A j \in 1..m : whole[j] # tag
      /\ \A j \in 1..Len(t) : whole[m + j] = t[j]
  BY <1>1, <1>2 DEF Joins, Free
<1>6. PICK k \in 1..Len(whole) : k = m + i
  BY <1>2, <1>5
<1>7. k + n < Len(whole) /\ whole[k] = tag
  BY <1>2, <1>4, <1>5, <1>6
<1>8. ASSUME NEW j \in 1..(k - 1)
      PROVE  whole[j] # tag
  <2>1. CASE j <= m
    BY <1>5, <2>1
  <2>2. CASE ~(j <= m)
    <3>1. j - m \in 1..(i - 1) /\ j - m \in 1..Len(t) /\ j = m + (j - m)
      BY <1>2, <1>5, <1>6, <2>2
    <3> QED
      BY <1>4, <1>5, <3>1
  <2> QED
    BY <2>1, <2>2
<1>9. ASSUME NEW j \in 1..n
      PROVE  whole[k + j] = value[j]
  <2>1. i + j \in 1..Len(t) /\ k + j = m + (i + j)
    BY <1>2, <1>4, <1>5, <1>6
  <2> QED
    BY <1>4, <1>5, <2>1
<1>10. whole[k + n + 1] = mark
  <2>1. i + n + 1 \in 1..Len(t) /\ k + n + 1 = m + (i + n + 1)
    BY <1>2, <1>4, <1>5, <1>6
  <2> QED
    BY <1>4, <1>5, <2>1
<1>11. CarriesAt(whole, tag, value, mark, k)
  BY <1>2, <1>7, <1>8, <1>9, <1>10 DEF CarriesAt
<1>12. Carries(whole, tag, value, mark)
  BY <1>11 DEF Carries
<1> QED
  BY <1>12 DEF whole

\* What a search for the tag, and from there for the mark, finds.
Found(text, tag, value, mark) ==
    LET at == PlaceOf(text, tag, 1)
        end == PlaceOf(text, mark, at)
    IN  at # 0 /\ end # 0 /\ SubSeq(text, at + 1, end - 1) = value

\* A value that is carried is found.
LEMMA CarriedIsFound ==
    ASSUME NEW S, NEW text \in Seq(S), NEW tag, NEW mark, tag # mark,
           NEW value \in Seq(S), Free(value, mark), Carries(text, tag, value, mark)
    PROVE  Found(text, tag, value, mark)
<1>1. PICK m \in Nat, n \in Nat : m = Len(text) /\ n = Len(value)
  BY LenProperties
<1>2. PICK i \in 1..m : CarriesAt(text, tag, value, mark, i)
  BY <1>1 DEF Carries
<1>3. /\ i + n < m
      /\ text[i] = tag
      /\ \A j \in 1..(i - 1) : text[j] # tag
      /\ \A j \in 1..n : text[i + j] = value[j]
      /\ text[i + n + 1] = mark
  BY <1>1, <1>2 DEF CarriesAt
<1>4. PlaceOf(text, tag, 1) = i
  <2>1. 1 \in Nat \ {0} /\ i \in 1..Len(text)
    BY <1>1
  <2> QED
    BY <1>3, <2>1, FirstPlace
<1>5. PICK e \in Nat : e = i + n + 1
  BY <1>1
<1>6. PlaceOf(text, mark, i) = e
  <2>1. i \in Nat \ {0} /\ e \in i..Len(text) /\ text[e] = mark
    BY <1>1, <1>3, <1>5
  <2>2. ASSUME NEW j \in i..(e - 1)
        PROVE  text[j] # mark
    <3>1. CASE j = i
      BY <1>3, <3>1
    <3>2. CASE j # i
      <4>1. j - i \in 1..n /\ j = i + (j - i)
        BY <1>1, <1>5, <3>2
      <4>2. PICK k \in 1..n : j = i + k
        BY <4>1
      <4> QED
        BY <1>1, <1>3, <4>2 DEF Free
    <3> QED
      BY <3>1, <3>2
  <2> QED
    BY <2>1, <2>2, FirstPlace
<1>7. SubSeq(text, i + 1, e - 1) = value
  <2>1. PICK from \in Nat \ {0}, to \in Nat : from = i + 1 /\ to = e - 1
    BY <1>5
  <2>2. to \in (from - 1)..Len(text)
    BY <1>1, <1>3, <1>5, <2>1
  <2> DEFINE part == SubSeq(text, from, to)
  <2>3. IsPart(S, text, from, to, part)
    BY <2>2, Parted
  <2> HIDE DEF part
  <2>4. /\ part \in Seq(S)
        /\ Len(part) = to - from + 1
        /\ \A j \in 1..Len(part) : part[j] = text[from + j - 1]
    BY <2>3 DEF IsPart
  <2>5. Len(part) = n /\ \A j \in 1..n : from + j - 1 = i + j
    BY <1>1, <1>5, <2>1, <2>4
  <2>6. \A j \in 1..Len(part) : part[j] = value[j]
    BY <1>3, <2>4, <2>5
  <2>7. part = value
    BY <1>1, <2>4, <2>5, <2>6, SeqEqual
  <2> QED
    BY <2>1, <2>7 DEF part
<1>8. i # 0 /\ e # 0
  BY <1>1, <1>5
<1> QED
  BY <1>4, <1>6, <1>7, <1>8 DEF Found

\* The server reads the field a head carries.
LEMMA FieldRead ==
    ASSUME NEW S, LineEnd \in S, NEW head \in Seq(S), NEW body \in Seq(S), Block(head),
           NEW tag, tag # LineEnd, NEW value \in Seq(S), Free(value, LineEnd),
           Carries(head, tag, value, LineEnd)
    PROVE  Field(head \o <<LineEnd>> \o body, tag) = value
<1> DEFINE message == head \o <<LineEnd>> \o body
<1>1. Len(head) # 0
  BY LenProperties DEF Carries
<1>2. Separates(S, head, body, message)
  BY <1>1, HeadEnds
<1> HIDE DEF message
<1>3. Found(head, tag, value, LineEnd)
  BY CarriedIsFound
<1>4. Field(message, tag) =
        IF PlaceOf(head, tag, 1) = 0 THEN NULL
        ELSE SubSeq(head, PlaceOf(head, tag, 1) + 1,
                    PlaceOf(head, LineEnd, PlaceOf(head, tag, 1)) - 1)
  BY <1>2 DEF Field, Separates
<1>5. Field(message, tag) = value
  BY <1>3, <1>4 DEF Found
<1> QED
  BY <1>5 DEF message

\* And takes one that no line has for missing, whatever the body contains.
LEMMA FieldMissing ==
    ASSUME NEW S, LineEnd \in S, NEW head \in Seq(S), NEW body \in Seq(S), Block(head),
           Len(head) # 0, NEW tag, Free(head, tag)
    PROVE  Field(head \o <<LineEnd>> \o body, tag) = NULL
<1> DEFINE message == head \o <<LineEnd>> \o body
<1>1. Separates(S, head, body, message)
  BY HeadEnds
<1> HIDE DEF message
<1>2. PlaceOf(head, tag, 1) = 0
  BY NoPlace
<1>3. Field(message, tag) = NULL
  BY <1>1, <1>2 DEF Field, Separates
<1> QED
  BY <1>3 DEF message

-----------------------------------------------------------------------------
\* The request line: method and path, up to the mark.
BeginsWith(text, method, url, mark) ==
    /\ Len(url) + 3 <= Len(text)
    /\ text[1] = method
    /\ text[2] # mark
    /\ \A i \in 1..Len(url) : text[2 + i] = url[i]
    /\ text[Len(url) + 3] = mark

\* Nothing behind the request line changes it.
LEMMA BeginsBefore ==
    ASSUME NEW S, NEW s \in Seq(S), NEW t \in Seq(S), NEW method, NEW url \in Seq(S),
           NEW mark,
           BeginsWith(s, method, url, mark)
    PROVE  BeginsWith(s \o t, method, url, mark)
<1> DEFINE whole == s \o t
<1>1. Joins(S, s, t, whole)
  BY Joined
<1> HIDE DEF whole
<1>2. PICK n \in Nat : n = Len(url)
  BY LenProperties
<1>3. n + 3 <= Len(s) /\ Len(s) <= Len(whole) /\ \A i \in 1..Len(s) : whole[i] = s[i]
  BY <1>1, <1>2 DEF Joins, BeginsWith
<1>4. Len(s) \in Nat /\ 1 \in 1..Len(s) /\ 2 \in 1..Len(s) /\ n + 3 \in 1..Len(s)
      /\ \A i \in 1..n : 2 + i \in 1..Len(s)
  BY <1>1, <1>2, <1>3 DEF Joins
<1>5. n + 3 <= Len(whole)
  BY <1>1, <1>3, <1>4 DEF Joins
<1>6. BeginsWith(whole, method, url, mark)
  BY <1>2, <1>3, <1>4, <1>5 DEF BeginsWith
<1> QED
  BY <1>6 DEF whole

\* The server reads method and path out of it.
LEMMA BeginningRead ==
    ASSUME NEW S, NEW message \in Seq(S), NEW method, NEW url \in Seq(S),
           NEW mark,
           BeginsWith(message, method, url, mark), method # mark, Free(url, mark)
    PROVE  /\ Head(message) = method
           /\ SubSeq(message, 3, PlaceOf(message, mark, 1) - 1) = url
<1>1. PICK n \in Nat, m \in Nat : n = Len(url) /\ m = Len(message)
  BY LenProperties
<1>2. /\ n + 3 <= m
      /\ message[1] = method
      /\ message[2] # mark
      /\ \A i \in 1..n : message[2 + i] = url[i]
      /\ message[n + 3] = mark
  BY <1>1 DEF BeginsWith
<1>3. Head(message) = method
  <2>1. message # <<>>
    BY <1>1, <1>2
  <2> QED
    BY <1>2, <2>1
<1>4. PICK e \in Nat : e = n + 3
  BY <1>1
<1>5. PlaceOf(message, mark, 1) = e
  <2>1. 1 \in Nat \ {0} /\ e \in 1..Len(message) /\ message[e] = mark
    BY <1>1, <1>2, <1>4
  <2>2. ASSUME NEW j \in 1..(e - 1)
        PROVE  message[j] # mark
    <3>1. CASE j = 1 \/ j = 2
      BY <1>2, <3>1
    <3>2. CASE j > 2
      <4>1. j - 2 \in 1..n /\ j = 2 + (j - 2)
        BY <1>1, <1>4, <3>2
      <4>2. PICK k \in 1..n : j = 2 + k
        BY <4>1
      <4> QED
        BY <1>1, <1>2, <4>2 DEF Free
    <3> QED
      BY <3>1, <3>2
  <2> QED
    BY <2>1, <2>2, FirstPlace
<1>6. SubSeq(message, 3, e - 1) = url
  <2>1. PICK from \in Nat \ {0}, to \in Nat : from = 3 /\ to = e - 1
    BY <1>4
  <2>2. to \in (from - 1)..Len(message)
    BY <1>1, <1>2, <1>4, <2>1
  <2> DEFINE part == SubSeq(message, from, to)
  <2>3. IsPart(S, message, from, to, part)
    BY <2>2, Parted
  <2> HIDE DEF part
  <2>4. /\ part \in Seq(S)
        /\ Len(part) = to - from + 1
        /\ \A j \in 1..Len(part) : part[j] = message[from + j - 1]
    BY <2>3 DEF IsPart
  <2>5. Len(part) = n /\ \A j \in 1..n : from + j - 1 = 2 + j
    BY <1>1, <1>4, <2>1, <2>4
  <2>6. \A j \in 1..Len(part) : part[j] = url[j]
    BY <1>2, <2>4, <2>5
  <2>7. part = url
    BY <1>1, <2>4, <2>5, <2>6, SeqEqual
  <2> QED
    BY <2>1, <2>7 DEF part
<1> QED
  BY <1>3, <1>5, <1>6

-----------------------------------------------------------------------------
\* What the server reads of a head of several parts.

\* value is what the head has for the tag, NULL that it has no such field.
Reads(S, head, tag, value) ==
    IF value = NULL THEN Free(head, tag)
    ELSE value \in Seq(S) /\ Free(value, LineEnd) /\ Carries(head, tag, value, LineEnd)

\* A part of a head: whole lines.
Lines(S, part) == part \in Seq(S) /\ Block(part)

\* What a part has for a tag stays read when a part without that tag follows
\* (ReadsBefore) or precedes (ReadsBehind).
LEMMA ReadsBefore ==
    ASSUME NEW S, NEW s \in Seq(S), NEW t \in Seq(S), NEW tag, NEW value,
           Reads(S, s, tag, value), Free(t, tag)
    PROVE  Reads(S, s \o t, tag, value)
<1>1. CASE value = NULL
  BY <1>1, FreeJoin DEF Reads
<1>2. CASE value # NULL
  <2>1. value \in Seq(S) /\ Carries(s, tag, value, LineEnd) /\ Free(value, LineEnd)
    BY <1>2 DEF Reads
  <2>2. Carries(s \o t, tag, value, LineEnd)
    BY <2>1, CarriedBefore
  <2> QED
    BY <1>2, <2>1, <2>2 DEF Reads
<1> QED
  BY <1>1, <1>2

\* The same with that part in front.
LEMMA ReadsBehind ==
    ASSUME NEW S, NEW s \in Seq(S), NEW t \in Seq(S), NEW tag, NEW value,
           Free(s, tag), Reads(S, t, tag, value)
    PROVE  Reads(S, s \o t, tag, value)
<1>1. CASE value = NULL
  BY <1>1, FreeJoin DEF Reads
<1>2. CASE value # NULL
  <2>1. value \in Seq(S) /\ Carries(t, tag, value, LineEnd) /\ Free(value, LineEnd)
    BY <1>2 DEF Reads
  <2>2. Carries(s \o t, tag, value, LineEnd)
    BY <2>1, CarriedBehind
  <2> QED
    BY <1>2, <2>1, <2>2 DEF Reads
<1> QED
  BY <1>1, <1>2

\* The field of a message is what its head has for the tag.
LEMMA FieldIs ==
    ASSUME NEW S, LineEnd \in S, NEW head \in Seq(S), NEW body \in Seq(S), Block(head),
           Len(head) # 0, NEW tag, tag # LineEnd, NEW value, Reads(S, head, tag, value)
    PROVE  Field(head \o <<LineEnd>> \o body, tag) = value
<1>1. CASE value = NULL
  <2>1. Free(head, tag)
    BY <1>1 DEF Reads
  <2> QED
    BY <1>1, <2>1, FieldMissing
<1>2. CASE value # NULL
  <2>1. value \in Seq(S) /\ Free(value, LineEnd) /\ Carries(head, tag, value, LineEnd)
    BY <1>2 DEF Reads
  <2> QED
    BY <2>1, FieldRead
<1> QED
  BY <1>1, <1>2

\* A line for a value there is, nothing for NULL or an empty one.
FieldLine(tag, value) ==
    IF value \notin {NULL, <<>>} THEN Line(<<tag>> \o value) ELSE <<>>

\* Such a line is read as the value given.
LEMMA FieldLineReads ==
    ASSUME NEW S, LineEnd \in S, NEW tag \in S, tag # LineEnd,
           NEW value \in Seq(S) \cup {NULL},
           value # NULL => Free(value, LineEnd)
    PROVE  /\ Lines(S, FieldLine(tag, value))
           /\ Reads(S, FieldLine(tag, value), tag, Given(value))
<1>1. CASE value \in {NULL, <<>>}
  <2>1. FieldLine(tag, value) = <<>> /\ Given(value) = NULL
    BY <1>1 DEF FieldLine, Given
  <2>2. <<>> \in Seq(S) /\ Len(<<>>) = 0
    BY EmptySeq
  <2>3. Block(<<>>) /\ Free(<<>>, tag)
    BY <2>2 DEF Block, Free
  <2> QED
    BY <2>1, <2>2, <2>3 DEF Lines, Reads
<1>2. CASE value \notin {NULL, <<>>}
  <2> DEFINE pieces == <<tag>> \o value
             first == <<tag>>
  <2>1. value \in Seq(S) /\ Free(value, LineEnd) /\ value # NULL /\ value # <<>>
    BY <1>2
  <2>2. first \in Seq(S) /\ Len(first) = 1 /\ Free(first, LineEnd)
    BY DEF Free
  <2> HIDE DEF first
  <2>3. Joins(S, first, value, first \o value) /\ Free(first \o value, LineEnd)
    BY <2>1, <2>2, Joined, FreeJoin
  <2>4. pieces = first \o value
    BY DEF first
  <2> HIDE DEF pieces
  <2>5. pieces \in Seq(S) /\ Len(pieces) # 0 /\ Free(pieces, LineEnd)
    BY <2>2, <2>3, <2>4 DEF Joins
  <2>6. Line(pieces) \in Seq(S) /\ Block(Line(pieces))
    BY <2>5, LineIsBlock
  <2>7. Carries(Line(pieces), tag, value, LineEnd)
    BY <2>1, LineCarries DEF pieces
  <2>8. FieldLine(tag, value) = Line(pieces) /\ Given(value) = value
    BY <1>2, <2>1 DEF FieldLine, Given, pieces
  <2> QED
    BY <2>1, <2>6, <2>7, <2>8 DEF Lines, Reads
<1> QED
  BY <1>1, <1>2

\* It has no other field.
LEMMA FieldLineFree ==
    ASSUME NEW S, LineEnd \in S, NEW tag \in S, NEW value \in Seq(S) \cup {NULL},
           NEW other, other # tag, other # LineEnd,
           value # NULL => Free(value, other)
    PROVE  Free(FieldLine(tag, value), other)
<1>1. CASE value \in {NULL, <<>>}
  <2>1. FieldLine(tag, value) = <<>>
    BY <1>1 DEF FieldLine
  <2>2. Len(<<>>) = 0
    BY EmptySeq
  <2> QED
    BY <2>1, <2>2 DEF Free
<1>2. CASE value \notin {NULL, <<>>}
  <2> DEFINE first == <<tag>>
  <2>1. first \in Seq(S) /\ Len(first) = 1 /\ Free(first, other)
    BY DEF Free
  <2>2. value \in Seq(S) /\ Free(value, other)
    BY <1>2
  <2>3. FieldLine(tag, value) = Line(first \o value)
    BY <1>2 DEF FieldLine
  <2> HIDE DEF first
  <2>4. Joins(S, first, value, first \o value) /\ Free(first \o value, other)
    BY <2>1, <2>2, Joined, FreeJoin
  <2> QED
    BY <2>3, <2>4, FreeLine DEF Joins
<1> QED
  BY <1>1, <1>2

\* A line of two pieces.
LEMMA PairLine ==
    ASSUME NEW S, LineEnd \in S, NEW a \in S, NEW b \in S, a # LineEnd, b # LineEnd
    PROVE  /\ Lines(S, Line(<<a, b>>)) /\ Len(Line(<<a, b>>)) # 0
           /\ Carries(Line(<<a, b>>), a, <<b>>, LineEnd)
           /\ \A tag : tag \notin {a, b, LineEnd} => Free(Line(<<a, b>>), tag)
<1> DEFINE pair == <<a, b>>
           first == <<a>>
           second == <<b>>
<1>1. /\ pair \in Seq(S) /\ Len(pair) = 2 /\ pair[1] = a /\ pair[2] = b
      /\ first \in Seq(S) /\ Len(first) = 1 /\ first[1] = a
      /\ second \in Seq(S) /\ Len(second) = 1 /\ second[1] = b
  OBVIOUS
<1> HIDE DEF pair, first, second
<1>2. Joins(S, first, second, first \o second)
  BY <1>1, Joined
<1>3. pair = first \o second
  <2>1. /\ first \o second \in Seq(S)
        /\ Len(first \o second) = 2
        /\ (first \o second)[1] = a
        /\ (first \o second)[2] = b
    <3> DEFINE whole == first \o second
    <3>1. Joins(S, first, second, whole)
      BY <1>2
    <3> HIDE DEF whole
    <3>2. /\ whole \in Seq(S)
          /\ Len(whole) = 2
          /\ whole[1] = a
          /\ whole[1 + 1] = b
      BY <1>1, <3>1 DEF Joins
    <3> QED
      BY <3>2 DEF whole
  <2>2. \A i \in 1..2 : pair[i] = (first \o second)[i]
    BY <1>1, <2>1
  <2> QED
    BY <1>1, <2>1, <2>2, SeqEqual
<1>4. Carries(Line(pair), a, second, LineEnd)
  BY <1>1, <1>3, LineCarries DEF first
<1>5. Free(pair, LineEnd)
  BY <1>1 DEF Free
<1>6. Lines(S, Line(pair)) /\ Len(Line(pair)) # 0
  BY <1>1, <1>5, LineIsBlock DEF Lines
<1>7. ASSUME NEW tag, tag \notin {a, b, LineEnd}
      PROVE  Free(Line(pair), tag)
  <2>1. Free(pair, tag)
    BY <1>1, <1>7 DEF Free
  <2> QED
    BY <1>1, <1>7, <2>1, FreeLine
<1> QED
  BY <1>4, <1>6, <1>7 DEF pair, second

-----------------------------------------------------------------------------
\* The parts of a request.

\* What requests.c writes besides the reserved pieces.
Fixed ==
    {"GET", "DELETE", "POST", "PUT", " ", "Host: ", "IP", "Content-Type: ",
     "application/json"}

\* The reserved pieces are told apart from each other and from the fixed ones.
LEMMA PiecesDiffer ==
    /\ Fixed \cap Reserved = {}
    /\ LineEnd \notin {Version, LengthTag, CookieTag, TokenTag}
    /\ Version \notin {LengthTag, CookieTag, TokenTag}
    /\ LengthTag \notin {CookieTag, TokenTag}
    /\ CookieTag # TokenTag
  BY DEF Fixed, Reserved, LineEnd, Version, LengthTag, CookieTag, TokenTag

\* Every piece of a message.
Pieces(Alphabet) == Alphabet \cup Fixed \cup Reserved

\* What a handler passes on has no reserved piece in it.
LEMMA PlainFree ==
    ASSUME NEW Alphabet, NEW value \in Seq(Alphabet \ Reserved)
    PROVE  value \in Seq(Pieces(Alphabet)) /\ \A piece \in Reserved : Free(value, piece)
<1>1. \A i \in 1..Len(value) : value[i] \in Alphabet \ Reserved
  BY ElementOfSeq
<1>2. \A piece \in Reserved : Free(value, piece)
  BY <1>1 DEF Free
<1>3. Alphabet \ Reserved \subseteq Pieces(Alphabet)
  BY DEF Pieces
<1> QED
  BY <1>2, <1>3, SeqMonotonic

\* The line that names method and path.
LEMMA RequestLine ==
    ASSUME NEW S, LineEnd \in S, NEW a \in S, NEW b \in S, NEW mark \in S,
           LineEnd \notin {a, b, mark}, b # mark,
           NEW url \in Seq(S), Free(url, LineEnd)
    PROVE  LET line == Line(<<a, b>> \o url \o <<mark>>) IN
           /\ Lines(S, line)
           /\ Len(line) # 0
           /\ BeginsWith(line, a, url, mark)
           /\ \A tag : tag \notin {a, b, mark, LineEnd} /\ Free(url, tag) => Free(line, tag)
<1> DEFINE pair == <<a, b>>
           last == <<mark>>
           front == pair \o url
           pieces == front \o last
           end == <<LineEnd>>
           line == pieces \o end
<1>1. /\ pair \in Seq(S) /\ Len(pair) = 2 /\ pair[1] = a /\ pair[2] = b
      /\ last \in Seq(S) /\ Len(last) = 1 /\ last[1] = mark
      /\ end \in Seq(S) /\ Len(end) = 1 /\ end[1] = LineEnd
  OBVIOUS
<1> HIDE DEF pair, last, end
<1>2. Joins(S, pair, url, front)
  BY <1>1, Joined
<1> HIDE DEF front
<1>3. front \in Seq(S)
  BY <1>2 DEF Joins
<1>4. Joins(S, front, last, pieces)
  BY <1>1, <1>3, Joined
<1>5. ASSUME NEW tag, tag \notin {a, b, mark}, Free(url, tag)
      PROVE  Free(pieces, tag)
  <2>1. Free(pair, tag) /\ Free(last, tag)
    BY <1>1, <1>5 DEF Free
  <2>2. Free(front, tag)
    BY <1>1, <1>5, <2>1, FreeJoin DEF front
  <2> QED
    BY <1>1, <1>3, <2>1, <2>2, FreeJoin
<1> HIDE DEF pieces
<1>6. pieces \in Seq(S)
  BY <1>4 DEF Joins
<1>7. Joins(S, pieces, end, line)
  BY <1>1, <1>6, Joined
<1>8. line = Line(<<a, b>> \o url \o <<mark>>)
  BY DEF Line, pieces, front, pair, last, end
<1> HIDE DEF line
<1>9. PICK n \in Nat : n = Len(url)
  BY LenProperties
<1>10. Len(front) = n + 2 /\ Len(pieces) = n + 3 /\ Len(line) = n + 4
  BY <1>1, <1>2, <1>4, <1>7, <1>9 DEF Joins
<1>11. /\ \A i \in 1..(n + 3) : line[i] = pieces[i]
       /\ \A i \in 1..(n + 2) : pieces[i] = front[i]
       /\ front[1] = a /\ front[2] = b
       /\ \A i \in 1..n : front[2 + i] = url[i]
  BY <1>1, <1>2, <1>4, <1>7, <1>9, <1>10 DEF Joins
<1>12. pieces[(n + 2) + 1] = mark
  BY <1>1, <1>4, <1>10 DEF Joins
<1>13. BeginsWith(line, a, url, mark)
  <2>1. line[1] = a /\ line[2] = b /\ line[n + 3] = mark
    BY <1>9, <1>11, <1>12
  <2>2. \A i \in 1..n : 2 + i \in 1..(n + 2) /\ 2 + i \in 1..(n + 3)
    BY <1>9
  <2>3. \A i \in 1..n : line[2 + i] = url[i]
    BY <1>11, <2>2
  <2> QED
    BY <1>9, <1>10, <2>1, <2>3 DEF BeginsWith
<1>14. Lines(S, Line(pieces)) /\ Len(Line(pieces)) # 0
  <2>1. Free(pieces, LineEnd) /\ Len(pieces) # 0
    BY <1>5, <1>9, <1>10
  <2> QED
    BY <1>6, <2>1, LineIsBlock DEF Lines
<1>15. Line(pieces) = line
  BY DEF Line, line, end
<1>16. ASSUME NEW tag, tag \notin {a, b, mark, LineEnd}, Free(url, tag)
       PROVE  Free(line, tag)
  BY <1>5, <1>6, <1>15, <1>16, FreeLine
<1> QED
  BY <1>8, <1>13, <1>14, <1>15, <1>16

\* What precedes the other fields in every request.
Opens(S, opening, method, url) ==
    /\ Lines(S, opening)
    /\ Len(opening) # 0
    /\ BeginsWith(opening, method, url, Version)
    /\ Free(opening, LengthTag) /\ Free(opening, CookieTag) /\ Free(opening, TokenTag)

\* The request line and the host's line do.
LEMMA OpeningOpens ==
    ASSUME NEW Alphabet, NEW url \in Seq(Alphabet \ Reserved),
           NEW method \in {"GET", "DELETE", "POST", "PUT"}
    PROVE  Opens(Pieces(Alphabet), Opening(method, url), method, url)
<1> DEFINE space == " "
           host == "Host: "
           ip == "IP"
           S == Pieces(Alphabet)
           line == Line(<<method, space>> \o url \o <<Version>>)
           hostLine == Line(<<host, ip>>)
<1>1. {method, space, host, ip} \subseteq Fixed
  BY DEF Fixed
<1>2. Opening(method, url) = line \o hostLine
  BY DEF Opening, Version
<1> HIDE DEF space, host, ip
<1>3. /\ LineEnd \in S /\ Version \in S
      /\ method \in S /\ space \in S /\ host \in S /\ ip \in S
  BY <1>1 DEF Pieces, Reserved
<1> HIDE DEF S
<1>4. /\ LineEnd \notin {method, space, Version} /\ space # Version
      /\ host # LineEnd /\ ip # LineEnd
      /\ \A tag \in {LengthTag, CookieTag, TokenTag} :
            tag \notin {method, space, Version, LineEnd, host, ip}
  BY <1>1, PiecesDiffer DEF Reserved
<1>5. url \in Seq(S) /\ Free(url, LineEnd)
      /\ \A tag \in {LengthTag, CookieTag, TokenTag} : Free(url, tag)
  BY PlainFree DEF S, Reserved
<1>6. /\ Lines(S, line)
      /\ Len(line) # 0
      /\ BeginsWith(line, method, url, Version)
      /\ \A tag : tag \notin {method, space, Version, LineEnd} /\ Free(url, tag)
            => Free(line, tag)
  BY <1>3, <1>4, <1>5, RequestLine
<1> HIDE DEF line
<1>7. /\ Lines(S, hostLine)
      /\ \A tag : tag \notin {host, ip, LineEnd} => Free(hostLine, tag)
  BY <1>3, <1>4, PairLine
<1> HIDE DEF hostLine
<1>8. line \o hostLine \in Seq(S) /\ Block(line \o hostLine)
      /\ Len(line \o hostLine) = Len(line) + Len(hostLine)
  BY <1>6, <1>7, BlocksJoin DEF Lines
<1>9. Len(line \o hostLine) # 0
  <2>1. Len(line) \in Nat /\ Len(hostLine) \in Nat
    BY <1>6, <1>7, LenProperties DEF Lines
  <2> QED
    BY <1>6, <1>8, <2>1
<1>10. BeginsWith(line \o hostLine, method, url, Version)
  BY <1>5, <1>6, <1>7, BeginsBefore DEF Lines
<1>11. ASSUME NEW tag \in {LengthTag, CookieTag, TokenTag}
       PROVE  Free(line \o hostLine, tag)
  <2>1. Free(line, tag) /\ Free(hostLine, tag)
    BY <1>4, <1>5, <1>6, <1>7
  <2> QED
    BY <1>6, <1>7, <2>1, FreeJoin DEF Lines
<1>12. Opens(S, line \o hostLine, method, url)
  BY <1>8, <1>9, <1>10, <1>11 DEF Opens, Lines
<1> QED
  BY <1>2, <1>12 DEF S

\* The two lines about the body: its length can be read, nothing else is touched.
LEMMA DescribedReads ==
    ASSUME NEW Alphabet, NEW body, Decimal(Len(body)) \in Alphabet \ Reserved,
           NULL # <<Decimal(Len(body))>>
    PROVE  /\ Lines(Pieces(Alphabet), Described(body))
           /\ Reads(Pieces(Alphabet), Described(body), LengthTag, <<Decimal(Len(body))>>)
           /\ Free(Described(body), CookieTag) /\ Free(Described(body), TokenTag)
<1> DEFINE type == "Content-Type: "
           json == "application/json"
           S == Pieces(Alphabet)
           number == Decimal(Len(body))
           typeLine == Line(<<type, json>>)
           lengthLine == Line(<<LengthTag, number>>)
<1>1. Described(body) = typeLine \o lengthLine
  BY DEF Described, LengthTag
<1>2. {type, json} \subseteq Fixed
  BY DEF Fixed
<1> HIDE DEF type, json, number
<1>3. number \in Alphabet \ Reserved /\ NULL # <<number>>
  BY DEF number
<1>4. LineEnd \in S /\ LengthTag \in S /\ type \in S /\ json \in S /\ number \in S
  BY <1>2, <1>3 DEF Pieces, Reserved
<1> HIDE DEF S
<1>5. /\ LineEnd \notin {type, json, number, LengthTag}
      /\ LengthTag \notin {type, json, LineEnd}
      /\ \A tag \in {CookieTag, TokenTag} :
            tag \notin {type, json, LineEnd} /\ tag \notin {LengthTag, number, LineEnd}
  BY <1>2, <1>3, PiecesDiffer DEF Reserved
<1>6. /\ Lines(S, typeLine)
      /\ \A tag : tag \notin {type, json, LineEnd} => Free(typeLine, tag)
  BY <1>4, <1>5, PairLine
<1>7. /\ Lines(S, lengthLine)
      /\ Carries(lengthLine, LengthTag, <<number>>, LineEnd)
      /\ \A tag : tag \notin {LengthTag, number, LineEnd} => Free(lengthLine, tag)
  BY <1>4, <1>5, PairLine
<1> HIDE DEF typeLine, lengthLine
<1>8. Lines(S, typeLine \o lengthLine)
  BY <1>6, <1>7, BlocksJoin DEF Lines
<1>9. Reads(S, lengthLine, LengthTag, <<number>>)
  <2>1. <<number>> \in Seq(S) /\ Free(<<number>>, LineEnd)
    BY <1>4, <1>5 DEF Free
  <2> QED
    BY <1>3, <1>7, <2>1 DEF Reads
<1>10. Reads(S, typeLine \o lengthLine, LengthTag, <<number>>)
  <2>1. Free(typeLine, LengthTag)
    BY <1>5, <1>6
  <2> QED
    BY <1>6, <1>7, <1>9, <2>1, ReadsBehind DEF Lines
<1>11. ASSUME NEW tag \in {CookieTag, TokenTag}
       PROVE  Free(typeLine \o lengthLine, tag)
  <2>1. Free(typeLine, tag) /\ Free(lengthLine, tag)
    BY <1>5, <1>6, <1>7
  <2> QED
    BY <1>6, <1>7, <2>1, FreeJoin DEF Lines
<1> QED
  BY <1>1, <1>8, <1>10, <1>11 DEF S, number

\* Cookie and token can be read, if there are any.
LEMMA CredentialsRead ==
    ASSUME NEW Alphabet, NEW cookie \in Seq(Alphabet \ Reserved) \cup {NULL},
           NEW token \in Seq(Alphabet \ Reserved) \cup {NULL}
    PROVE  /\ Lines(Pieces(Alphabet), Credentials(cookie, token))
           /\ Reads(Pieces(Alphabet), Credentials(cookie, token), CookieTag, Given(cookie))
           /\ Reads(Pieces(Alphabet), Credentials(cookie, token), TokenTag, Given(token))
           /\ Free(Credentials(cookie, token), LengthTag)
<1> DEFINE S == Pieces(Alphabet)
           cookieLine == FieldLine(CookieTag, cookie)
           tokenLine == FieldLine(TokenTag, token)
<1>1. Credentials(cookie, token) = cookieLine \o tokenLine
  BY DEF Credentials, FieldLine, CookieTag, TokenTag
<1>2. /\ cookie \in Seq(S) \cup {NULL}
      /\ token \in Seq(S) \cup {NULL}
      /\ \A piece \in Reserved : cookie # NULL => Free(cookie, piece)
      /\ \A piece \in Reserved : token # NULL => Free(token, piece)
  BY PlainFree
<1>3. LineEnd \in S /\ CookieTag \in S /\ TokenTag \in S
  BY DEF Pieces, Reserved
<1>4. {LineEnd, LengthTag, CookieTag, TokenTag} \subseteq Reserved
  BY DEF Reserved
<1> HIDE DEF S
<1>5. Lines(S, cookieLine) /\ Reads(S, cookieLine, CookieTag, Given(cookie))
  BY <1>2, <1>3, <1>4, PiecesDiffer, FieldLineReads
<1>6. Lines(S, tokenLine) /\ Reads(S, tokenLine, TokenTag, Given(token))
  BY <1>2, <1>3, <1>4, PiecesDiffer, FieldLineReads
<1>7. Free(cookieLine, LengthTag) /\ Free(cookieLine, TokenTag)
  BY <1>2, <1>3, <1>4, PiecesDiffer, FieldLineFree
<1>8. Free(tokenLine, LengthTag) /\ Free(tokenLine, CookieTag)
  BY <1>2, <1>3, <1>4, PiecesDiffer, FieldLineFree
<1> HIDE DEF cookieLine, tokenLine
<1>9. cookieLine \in Seq(S) /\ tokenLine \in Seq(S)
  BY <1>5, <1>6 DEF Lines
<1>10. Lines(S, cookieLine \o tokenLine)
  BY <1>5, <1>6, BlocksJoin DEF Lines
<1>11. Reads(S, cookieLine \o tokenLine, CookieTag, Given(cookie))
  BY <1>5, <1>8, <1>9, ReadsBefore
<1>12. Reads(S, cookieLine \o tokenLine, TokenTag, Given(token))
  BY <1>6, <1>7, <1>9, ReadsBehind
<1>13. Free(cookieLine \o tokenLine, LengthTag)
  BY <1>7, <1>8, <1>9, FreeJoin
<1> QED
  BY <1>1, <1>10, <1>11, <1>12, <1>13 DEF S

\* All that the server reads out of a request's head.
Heads(S, head, method, url, length, cookie, token) ==
    /\ Lines(S, head)
    /\ Len(head) # 0
    /\ BeginsWith(head, method, url, Version)
    /\ Reads(S, head, LengthTag, length)
    /\ Reads(S, head, CookieTag, cookie)
    /\ Reads(S, head, TokenTag, token)

\* A head that has these fields is understood so, whatever the body is.
LEMMA HeadUnderstood ==
    ASSUME NEW Alphabet, NEW head, NEW method, method # Version,
           NEW url \in Seq(Alphabet \ Reserved), NEW length, NEW cookie, NEW token,
           Heads(Pieces(Alphabet), head, method, url, length, cookie, token),
           NEW body \in Seq(Pieces(Alphabet))
    PROVE  Understood(head \o <<LineEnd>> \o body) =
             [method |-> method, url |-> url, cookie |-> cookie, token |-> token,
              body |-> IF length = <<Decimal(Len(body))>> THEN body ELSE NULL]
<1> DEFINE S == Pieces(Alphabet)
           blank == <<LineEnd>>
           opened == head \o blank
           message == head \o <<LineEnd>> \o body
<1>1. LineEnd \in S /\ url \in Seq(S) /\ Free(url, Version)
  BY PlainFree DEF Pieces, Reserved
<1> HIDE DEF S
<1>2. head \in Seq(S) /\ Block(head) /\ Len(head) # 0 /\ body \in Seq(S)
  BY DEF Heads, Lines, S
<1>3. Separates(S, head, body, message)
  BY <1>1, <1>2, HeadEnds
<1>4. /\ Field(message, LengthTag) = length
      /\ Field(message, CookieTag) = cookie
      /\ Field(message, TokenTag) = token
  BY <1>1, <1>2, FieldIs, PiecesDiffer DEF Heads, S
<1>5. BeginsWith(message, method, url, Version)
  <2>1. blank \in Seq(S)
    BY <1>1
  <2> HIDE DEF blank
  <2>2. opened \in Seq(S)
    BY <1>2, <2>1, Joined DEF Joins
  <2>3. BeginsWith(opened, method, url, Version)
    BY <1>1, <1>2, <2>1, BeginsBefore DEF Heads
  <2> HIDE DEF opened
  <2>4. BeginsWith(opened \o body, method, url, Version)
    BY <1>1, <1>2, <2>2, <2>3, BeginsBefore
  <2> QED
    BY <2>4 DEF opened, blank
<1> HIDE DEF message
<1>6. message \in Seq(S) /\ From(message, Min(BlankLines(message)) + 2) = body
  BY <1>3 DEF Separates
<1>7. /\ Head(message) = method
      /\ SubSeq(message, 3, PlaceOf(message, Version, 1) - 1) = url
  BY <1>1, <1>5, <1>6, BeginningRead
<1>8. BodyOf(message) = IF length = <<Decimal(Len(body))>> THEN body ELSE NULL
  BY <1>4, <1>6 DEF BodyOf, LengthTag
<1>9. Understood(message) =
        [method |-> method, url |-> url, cookie |-> cookie, token |-> token,
         body |-> IF length = <<Decimal(Len(body))>> THEN body ELSE NULL]
  BY <1>4, <1>7, <1>8 DEF Understood, CookieTag, TokenTag, Version
<1> QED
  BY <1>9 DEF message

-----------------------------------------------------------------------------
\* What the handlers pass to requests.c: a body with two of the functions only, and
\* anything in it; nothing reserved in path, cookie and token.
Calls(Alphabet) ==
    LET texts == Seq(Alphabet \ Reserved) IN
    [method : {"GET", "DELETE"}, url : texts, body : {NULL},
     cookie : texts \cup {NULL}, token : texts \cup {NULL}]
    \cup [method : {"POST", "PUT"}, url : texts, body : Seq(Alphabet),
          cookie : texts \cup {NULL}, token : texts \cup {NULL}]

\* The heads of the requests without a body.
LEMMA BareHead ==
    ASSUME NEW Alphabet, NEW method \in {"GET", "DELETE", "POST", "PUT"},
           NEW url \in Seq(Alphabet \ Reserved),
           NEW cookie \in Seq(Alphabet \ Reserved) \cup {NULL},
           NEW token \in Seq(Alphabet \ Reserved) \cup {NULL}
    PROVE  Heads(Pieces(Alphabet), Opening(method, url) \o Credentials(cookie, token),
                 method, url, NULL, Given(cookie), Given(token))
<1> DEFINE S == Pieces(Alphabet)
           opening == Opening(method, url)
           credentials == Credentials(cookie, token)
<1>1. Opens(S, opening, method, url)
  BY OpeningOpens
<1>2. /\ Lines(S, credentials)
      /\ Reads(S, credentials, CookieTag, Given(cookie))
      /\ Reads(S, credentials, TokenTag, Given(token))
      /\ Free(credentials, LengthTag)
  BY CredentialsRead
<1>3. url \in Seq(S)
  BY PlainFree
<1> HIDE DEF S, opening, credentials
<1>4. /\ opening \in Seq(S) /\ credentials \in Seq(S)
      /\ Block(opening) /\ Block(credentials)
      /\ BeginsWith(opening, method, url, Version)
  BY <1>1, <1>2 DEF Opens, Lines
<1>5. /\ Lines(S, opening \o credentials)
      /\ Len(opening \o credentials) = Len(opening) + Len(credentials)
  BY <1>4, BlocksJoin DEF Lines
<1>6. Len(opening \o credentials) # 0
  BY <1>1, <1>4, <1>5, LenProperties DEF Opens
<1>7. BeginsWith(opening \o credentials, method, url, Version)
  BY <1>3, <1>4, BeginsBefore
<1>8. Reads(S, opening \o credentials, LengthTag, NULL)
  BY <1>1, <1>2, <1>4, FreeJoin DEF Opens, Reads
<1>9. /\ Reads(S, opening \o credentials, CookieTag, Given(cookie))
      /\ Reads(S, opening \o credentials, TokenTag, Given(token))
  BY <1>1, <1>2, <1>4, ReadsBehind DEF Opens
<1>10. Heads(S, opening \o credentials, method, url, NULL, Given(cookie), Given(token))
  BY <1>5, <1>6, <1>7, <1>8, <1>9 DEF Heads
<1> QED
  BY <1>10 DEF S, opening, credentials

\* And of those with one.
LEMMA FullHead ==
    ASSUME NEW Alphabet, NEW method \in {"GET", "DELETE", "POST", "PUT"},
           NEW url \in Seq(Alphabet \ Reserved),
           NEW cookie \in Seq(Alphabet \ Reserved) \cup {NULL},
           NEW token \in Seq(Alphabet \ Reserved) \cup {NULL},
           NEW body, Decimal(Len(body)) \in Alphabet \ Reserved,
           NULL # <<Decimal(Len(body))>>
    PROVE  Heads(Pieces(Alphabet),
                 Opening(method, url) \o Described(body) \o Credentials(cookie, token),
                 method, url, <<Decimal(Len(body))>>, Given(cookie), Given(token))
<1> DEFINE S == Pieces(Alphabet)
           opening == Opening(method, url)
           described == Described(body)
           length == <<Decimal(Len(body))>>
           credentials == Credentials(cookie, token)
           front == opening \o described
<1>1. Opens(S, opening, method, url)
  BY OpeningOpens
<1>2. /\ Lines(S, credentials)
      /\ Reads(S, credentials, CookieTag, Given(cookie))
      /\ Reads(S, credentials, TokenTag, Given(token))
      /\ Free(credentials, LengthTag)
  BY CredentialsRead
<1>3. /\ Lines(S, described)
      /\ Reads(S, described, LengthTag, length)
      /\ Free(described, CookieTag) /\ Free(described, TokenTag)
  BY DescribedReads
<1>4. url \in Seq(S)
  BY PlainFree
<1> HIDE DEF S, opening, described, length, credentials
<1>5. /\ opening \in Seq(S) /\ described \in Seq(S) /\ credentials \in Seq(S)
      /\ Block(opening) /\ Block(described) /\ Block(credentials)
      /\ BeginsWith(opening, method, url, Version)
  BY <1>1, <1>2, <1>3 DEF Opens, Lines
<1>6. /\ front \in Seq(S) /\ Block(front)
      /\ Len(front) = Len(opening) + Len(described)
  BY <1>5, BlocksJoin
<1>7. BeginsWith(front, method, url, Version)
  BY <1>4, <1>5, BeginsBefore
<1>8. /\ Reads(S, front, LengthTag, length)
      /\ Free(front, CookieTag) /\ Free(front, TokenTag)
  BY <1>1, <1>3, <1>5, ReadsBehind, FreeJoin DEF Opens
<1> HIDE DEF front
<1>9. /\ Lines(S, front \o credentials)
      /\ Len(front \o credentials) = Len(front) + Len(credentials)
  BY <1>5, <1>6, BlocksJoin DEF Lines
<1>10. Len(front \o credentials) # 0
  <2>1. Len(opening) \in Nat /\ Len(described) \in Nat /\ Len(credentials) \in Nat
    BY <1>5, LenProperties
  <2> QED
    BY <1>1, <1>6, <1>9, <2>1 DEF Opens
<1>11. BeginsWith(front \o credentials, method, url, Version)
  BY <1>4, <1>5, <1>6, <1>7, BeginsBefore
<1>12. Reads(S, front \o credentials, LengthTag, length)
  BY <1>2, <1>5, <1>6, <1>8, ReadsBefore
<1>13. /\ Reads(S, front \o credentials, CookieTag, Given(cookie))
       /\ Reads(S, front \o credentials, TokenTag, Given(token))
  BY <1>2, <1>5, <1>6, <1>8, ReadsBehind
<1>14. Heads(S, front \o credentials, method, url, length, Given(cookie), Given(token))
  BY <1>9, <1>10, <1>11, <1>12, <1>13 DEF Heads
<1> QED
  BY <1>14 DEF S, front, opening, described, length, credentials

\* Whatever a handler passes to requests.c (compute_get_request to
\* compute_delete_request), the server reads the same method, path, cookie, token
\* and body out of the message: the fields end where they should, the body is as
\* long as announced, and nothing in it is taken for a field.
THEOREM RequestUnderstood ==
    ASSUME NEW Alphabet, NEW call \in Calls(Alphabet),
           \A n \in Nat : Decimal(n) \in Alphabet \ Reserved,
           \A n \in Nat : NULL # <<Decimal(n)>>
    PROVE  Understood(Composed(call)) = AsGiven(call)
<1>1. /\ call.url \in Seq(Alphabet \ Reserved)
      /\ call.cookie \in Seq(Alphabet \ Reserved) \cup {NULL}
      /\ call.token \in Seq(Alphabet \ Reserved) \cup {NULL}
  BY DEF Calls
<1>2. call.method \in {"GET", "DELETE", "POST", "PUT"}
  BY DEF Calls
<1>3. call.method # Version
  BY <1>2, PiecesDiffer DEF Fixed, Reserved
<1>4. ASSUME call.method \in {"GET", "DELETE"}
      PROVE  Understood(Composed(call)) = AsGiven(call)
  <2> DEFINE head == Opening(call.method, call.url) \o Credentials(call.cookie, call.token)
             length == NULL
  <2>1. call.body = NULL
    BY <1>4 DEF Calls
  <2>2. Composed(call) = head \o <<LineEnd>>
    BY <1>4 DEF Composed, compute_get_request, compute_delete_request
  <2>3. Heads(Pieces(Alphabet), head, call.method, call.url, length,
              Given(call.cookie), Given(call.token))
    BY <1>1, <1>2, BareHead
  <2> HIDE DEF head, length
  <2> DEFINE none == <<>>
  <2>4. none \in Seq(Pieces(Alphabet))
    BY EmptySeq
  <2>5. Len(none) \in Nat
    BY <2>4, LenProperties
  <2>6. head \o <<LineEnd>> \in Seq(Pieces(Alphabet))
    <3>1. head \in Seq(Pieces(Alphabet)) /\ LineEnd \in Pieces(Alphabet)
      BY <2>3 DEF Heads, Lines, Pieces, Reserved
    <3> QED
      BY <3>1
  <2>7. head \o <<LineEnd>> \o none = head \o <<LineEnd>>
    BY <2>6, ConcatEmptySeq
  <2> HIDE DEF none
  <2>8. Understood(head \o <<LineEnd>> \o none) =
          [method |-> call.method, url |-> call.url, cookie |-> Given(call.cookie),
           token |-> Given(call.token),
           body |-> IF length = <<Decimal(Len(none))>> THEN none ELSE NULL]
    BY <1>1, <1>3, <2>3, <2>4, HeadUnderstood
  <2>9. length # <<Decimal(Len(none))>>
    BY <2>5 DEF length
  <2> QED
    BY <2>1, <2>2, <2>7, <2>8, <2>9 DEF AsGiven, length
<1>5. ASSUME call.method \in {"POST", "PUT"}
      PROVE  Understood(Composed(call)) = AsGiven(call)
  <2> DEFINE head == Opening(call.method, call.url) \o Described(call.body)
                       \o Credentials(call.cookie, call.token)
             length == <<Decimal(Len(call.body))>>
  <2>1. call.body \in Seq(Alphabet)
    BY <1>5 DEF Calls
  <2>2. Composed(call) = head \o <<LineEnd>> \o call.body
    BY <1>5 DEF Composed, compute_post_request, compute_put_request
  <2>3. Len(call.body) \in Nat
    BY <2>1, LenProperties
  <2>4. Heads(Pieces(Alphabet), head, call.method, call.url, length,
              Given(call.cookie), Given(call.token))
    BY <1>1, <1>2, <2>3, FullHead
  <2>5. call.body \in Seq(Pieces(Alphabet))
    BY <2>1 DEF Pieces
  <2> DEFINE method == call.method
             url == call.url
             body == call.body
             cookie == Given(call.cookie)
             token == Given(call.token)
  <2> HIDE DEF head, length
  <2>6. /\ method # Version /\ url \in Seq(Alphabet \ Reserved)
        /\ Heads(Pieces(Alphabet), head, method, url, length, cookie, token)
        /\ body \in Seq(Pieces(Alphabet))
    BY <1>1, <1>3, <2>4, <2>5
  <2> HIDE DEF method, url, body, cookie, token
  <2>7. Understood(head \o <<LineEnd>> \o body) =
          [method |-> method, url |-> url, cookie |-> cookie, token |-> token,
           body |-> IF length = <<Decimal(Len(body))>> THEN body ELSE NULL]
    BY <2>6, HeadUnderstood
  <2> QED
    BY <2>2, <2>7 DEF AsGiven, length, method, url, body, cookie, token
<1> QED
  BY <1>2, <1>4, <1>5

-----------------------------------------------------------------------------
\* The reply.

Charset == " charset"

\* The pieces that the server's lines consist of, besides what it says.
Written == {CookieMark, Semicolon, Charset, LengthTag, LineEnd, "Content-Type: ",
            "application/json"}

\* No other piece of the server's lines is taken for the cookie's tag or a line end.
LEMMA MarksDiffer ==
    /\ CookieMark \notin {LengthTag, LineEnd, Semicolon, Charset, "Content-Type: ",
                          "application/json"}
    /\ LineEnd \notin {LengthTag, CookieMark, Semicolon, Charset, "Content-Type: ",
                       "application/json"}
  BY DEF CookieMark, Semicolon, Charset, LengthTag, LineEnd

ReplyPieces(Alphabet) == Alphabet \cup Written

\* A type's line ends in a line end and names no cookie.
LEMMA TypeLine ==
    ASSUME NEW Alphabet, NEW type \in TypeFields
    PROVE  Lines(ReplyPieces(Alphabet), type) /\ Free(type, CookieMark)
<1> DEFINE S == ReplyPieces(Alphabet)
           a == "Content-Type: "
           b == "application/json"
           pair == <<a, b>>
<1>1. /\ LineEnd \in S /\ CookieMark # LineEnd
      /\ {a, b, Semicolon, Charset} \subseteq S
      /\ {LineEnd, CookieMark} \cap {a, b, Semicolon, Charset} = {}
  BY MarksDiffer DEF ReplyPieces, Written
<1>2. PICK charset \in {<<>>, <<Semicolon, Charset>>} : type = Line(pair \o charset)
  BY DEF TypeFields, TypeField, Semicolon, Charset
<1> HIDE DEF S, a, b
<1>3. /\ pair \in Seq(S) /\ Len(pair) = 2
      /\ Free(pair, LineEnd) /\ Free(pair, CookieMark)
  <2>1. pair \in Seq(S) /\ Len(pair) = 2 /\ pair[1] = a /\ pair[2] = b
    BY <1>1
  <2> HIDE DEF pair
  <2>2. \A i \in 1..2 : i = 1 \/ i = 2
    OBVIOUS
  <2> QED
    BY <1>1, <2>1, <2>2 DEF Free
<1>4. /\ charset \in Seq(S)
      /\ Free(charset, LineEnd) /\ Free(charset, CookieMark)
  <2>1. CASE charset = <<>>
    <3>1. <<>> \in Seq(S) /\ Len(<<>>) = 0
      BY EmptySeq
    <3> QED
      BY <2>1, <3>1 DEF Free
  <2>2. CASE charset = <<Semicolon, Charset>>
    <3> DEFINE c == <<Semicolon, Charset>>
    <3>1. c \in Seq(S) /\ Len(c) = 2 /\ c[1] = Semicolon /\ c[2] = Charset
      BY <1>1
    <3> HIDE DEF c
    <3>2. \A i \in 1..2 : i = 1 \/ i = 2
      OBVIOUS
    <3>3. Free(c, LineEnd) /\ Free(c, CookieMark)
      BY <1>1, <3>1, <3>2 DEF Free
    <3> QED
      BY <2>2, <3>1, <3>3 DEF c
  <2> QED
    BY <1>2, <2>1, <2>2
<1> HIDE DEF pair
<1>5. Joins(S, pair, charset, pair \o charset)
  BY <1>3, <1>4, Joined
<1>6. /\ pair \o charset \in Seq(S) /\ Len(pair \o charset) # 0
      /\ Free(pair \o charset, LineEnd) /\ Free(pair \o charset, CookieMark)
  <2>1. pair \o charset \in Seq(S) /\ Len(pair \o charset) # 0
    BY <1>3, <1>5 DEF Joins
  <2> QED
    BY <1>3, <1>4, <2>1, FreeJoin
<1>7. Lines(S, Line(pair \o charset)) /\ Free(Line(pair \o charset), CookieMark)
  BY <1>1, <1>6, LineIsBlock, FreeLine DEF Lines
<1> QED
  BY <1>2, <1>7 DEF S

\* The line with the cookie, and what the server writes behind it.
LEMMA CookieFieldCarries ==
    ASSUME NEW Alphabet, NEW cookie \in Seq(Alphabet), NEW end \in CookieEnds,
           end \in Seq(Alphabet)
    PROVE  /\ Free(cookie, LineEnd) => Lines(ReplyPieces(Alphabet), CookieField(cookie, end))
           /\ CookieField(cookie, end) \in Seq(ReplyPieces(Alphabet))
           /\ Carries(CookieField(cookie, end), CookieMark, cookie, Semicolon)
<1> DEFINE S == ReplyPieces(Alphabet)
           first == <<CookieMark>>
           blank == <<LineEnd>>
           front == first \o cookie
           pieces == front \o end
<1>1. /\ LineEnd \in S /\ CookieMark \in S /\ CookieMark # LineEnd
      /\ cookie \in Seq(S) /\ end \in Seq(S)
  <2>1. LineEnd \in S /\ CookieMark \in S /\ Alphabet \subseteq S
    BY DEF ReplyPieces, Written
  <2>2. CookieMark # LineEnd
    BY MarksDiffer
  <2> HIDE DEF S
  <2>3. cookie \in Seq(S)
    BY <2>1
  <2>4. end \in Seq(S)
    BY <2>1
  <2> QED
    BY <2>1, <2>2, <2>3, <2>4
<1>2. Len(end) # 0 /\ end[1] = Semicolon /\ Free(end, LineEnd)
  <2>1. Len(end) > 0
    BY CookieEndsAssumption
  <2>2. end[1] = Semicolon
    BY CookieEndsAssumption DEF Semicolon
  <2>3. Free(end, LineEnd)
    BY CookieEndsAssumption DEF Free
  <2> QED
    BY <2>1, <2>2, <2>3
<1> HIDE DEF S
<1>3. /\ first \in Seq(S) /\ Len(first) = 1 /\ first[1] = CookieMark
      /\ blank \in Seq(S) /\ Free(first, LineEnd)
  BY <1>1 DEF Free
<1>4. Carries(pieces, CookieMark, cookie, Semicolon)
  BY <1>1, <1>2, CarriedFirst
<1> HIDE DEF first, blank
<1>5. Joins(S, first, cookie, front)
  BY <1>1, <1>3, Joined
<1>6. front \in Seq(S) /\ Len(front) # 0
  BY <1>3, <1>5 DEF Joins
<1>7. Free(cookie, LineEnd) => Free(front, LineEnd)
  BY <1>1, <1>3, FreeJoin
<1> HIDE DEF front
<1>8. Joins(S, front, end, pieces)
  BY <1>1, <1>6, Joined
<1>9. pieces \in Seq(S) /\ Len(pieces) # 0
  BY <1>6, <1>8 DEF Joins
<1>10. Free(cookie, LineEnd) => Free(pieces, LineEnd)
  BY <1>1, <1>2, <1>6, <1>7, FreeJoin
<1> HIDE DEF pieces
<1>11. Free(cookie, LineEnd) => Lines(S, Line(pieces))
  BY <1>1, <1>9, <1>10, LineIsBlock DEF Lines
<1>12. Carries(pieces \o blank, CookieMark, cookie, Semicolon)
  BY <1>1, <1>3, <1>4, <1>9, CarriedBefore
<1>13. pieces \o blank \in Seq(S)
  BY <1>3, <1>9, Joined DEF Joins
<1>14. Line(pieces) = pieces \o blank /\ CookieField(cookie, end) = Line(pieces)
  BY DEF Line, CookieField, CookieMark, blank, pieces, front, first
<1> QED
  BY <1>11, <1>12, <1>13, <1>14 DEF S

\* The two orders in which the server writes the fields.
LEMMA CookieFirstOrLast ==
    ASSUME NEW cookie, NEW fields \in FieldsWith(cookie)
    PROVE  \E end \in CookieEnds, type \in TypeFields :
              \/ fields = CookieField(cookie, end) \o type
              \/ fields = type \o CookieField(cookie, end)
  BY DEF FieldsWith

\* The cookie can be read in whichever order the server writes the two fields.
LEMMA FieldsCarry ==
    ASSUME NEW Alphabet, CookieEnds \subseteq Seq(Alphabet), NEW cookie \in Seq(Alphabet),
           NEW fields \in FieldsWith(cookie)
    PROVE  /\ Free(cookie, LineEnd) => Lines(ReplyPieces(Alphabet), fields)
           /\ fields \in Seq(ReplyPieces(Alphabet))
           /\ Carries(fields, CookieMark, cookie, Semicolon)
<1> DEFINE S == ReplyPieces(Alphabet)
<1>1. PICK end \in CookieEnds, type \in TypeFields :
         \/ fields = CookieField(cookie, end) \o type
         \/ fields = type \o CookieField(cookie, end)
  BY CookieFirstOrLast
<1> DEFINE field == CookieField(cookie, end)
<1>2. Lines(S, type) /\ Free(type, CookieMark)
  BY TypeLine
<1>3. /\ Free(cookie, LineEnd) => Lines(S, field)
      /\ field \in Seq(S)
      /\ Carries(field, CookieMark, cookie, Semicolon)
  BY CookieFieldCarries
<1>4. cookie \in Seq(S) /\ type \in Seq(S)
  BY <1>2 DEF Lines, ReplyPieces
<1>5. fields = field \o type \/ fields = type \o field
  BY <1>1
<1> HIDE DEF S, field
<1>6. field \o type \in Seq(S) /\ type \o field \in Seq(S)
  BY <1>3, <1>4, Joined DEF Joins
<1>7. /\ Carries(field \o type, CookieMark, cookie, Semicolon)
      /\ Carries(type \o field, CookieMark, cookie, Semicolon)
  BY <1>2, <1>3, <1>4, CarriedBefore, CarriedBehind
<1>8. Free(cookie, LineEnd) => Lines(S, field \o type) /\ Lines(S, type \o field)
  BY <1>2, <1>3, <1>4, BlocksJoin DEF Lines
<1> QED
  BY <1>5, <1>6, <1>7, <1>8 DEF S

\* The line with the length of the body.
LEMMA LengthLine ==
    ASSUME NEW Alphabet, NEW length, Decimal(length) \in Alphabet, Decimal(length) # LineEnd
    PROVE  Lines(ReplyPieces(Alphabet), Line(<<LengthTag, Decimal(length)>>))
<1> DEFINE number == Decimal(length)
<1>1. LengthTag # LineEnd
  BY PiecesDiffer
<1>2. {LineEnd, LengthTag, number} \subseteq ReplyPieces(Alphabet)
  BY DEF ReplyPieces, Written
<1> HIDE DEF number
<1>3. number # LineEnd
  BY DEF number
<1>4. Lines(ReplyPieces(Alphabet), Line(<<LengthTag, number>>))
  BY <1>1, <1>2, <1>3, PairLine
<1> QED
  BY <1>4 DEF number

\* The status line.
LEMMA StatusLine ==
    ASSUME NEW Alphabet, NEW status \in Alphabet
    PROVE  /\ Line(<<status>>) \in Seq(ReplyPieces(Alphabet))
           /\ status # LineEnd =>
                Lines(ReplyPieces(Alphabet), Line(<<status>>)) /\ Len(Line(<<status>>)) # 0
           /\ status # CookieMark => Free(Line(<<status>>), CookieMark)
<1> DEFINE S == ReplyPieces(Alphabet)
           only == <<status>>
           blank == <<LineEnd>>
<1>1. LineEnd \in S /\ status \in S
  BY DEF ReplyPieces, Written
<1>2. CookieMark # LineEnd
  BY MarksDiffer
<1> HIDE DEF S
<1>3. /\ only \in Seq(S) /\ Len(only) = 1 /\ only[1] = status
      /\ blank \in Seq(S)
  BY <1>1
<1> HIDE DEF only, blank
<1>4. only \o blank \in Seq(S)
  BY <1>3, Joined DEF Joins
<1>5. ASSUME status # LineEnd
      PROVE  Lines(S, Line(only)) /\ Len(Line(only)) # 0
  <2>1. Free(only, LineEnd)
    BY <1>3, <1>5 DEF Free
  <2>2. Len(only) # 0
    BY <1>3
  <2>3. Line(only) \in Seq(S) /\ Block(Line(only)) /\ Len(Line(only)) # 0
    BY <1>1, <1>3, <2>1, <2>2, LineIsBlock
  <2> QED
    BY <2>3 DEF Lines
<1>6. ASSUME status # CookieMark
      PROVE  Free(Line(only), CookieMark)
  <2>1. Free(only, CookieMark)
    BY <1>3, <1>6 DEF Free
  <2> QED
    BY <1>1, <1>2, <1>3, <2>1, FreeLine
<1>7. Line(only) = only \o blank
  BY DEF Line, blank
<1> QED
  BY <1>4, <1>5, <1>6, <1>7 DEF S, only

\* extract_cookie takes the cookie the server gave out of its reply, nothing of
\* what stands behind it, wherever the field stands and whatever the body has
\* in it; only the status line and the cookie itself must not look like a field.
THEOREM CookieExtracted ==
    ASSUME NEW Alphabet, CookieEnds \subseteq Seq(Alphabet),
           NEW cookie \in Seq(Alphabet \ {Semicolon}),
           NEW fields \in FieldsWith(cookie),
           NEW status \in Alphabet \ {CookieMark},
           NEW length, Decimal(length) \in Alphabet,
           NEW body \in Seq(Alphabet)
    PROVE  extract_cookie(Reply(status, fields, length, body)) = cookie
<1> DEFINE S == ReplyPieces(Alphabet)
           first == Line(<<status>>)
           lengthLine == Line(<<LengthTag, Decimal(length)>>)
           blank == <<LineEnd>>
           front == first \o fields
           head == front \o lengthLine
           closed == head \o blank
           reply == closed \o body
<1>1. /\ cookie \in Seq(Alphabet) /\ body \in Seq(Alphabet)
      /\ Free(cookie, Semicolon)
  <2>1. \A i \in 1..Len(cookie) : cookie[i] \in Alphabet \ {Semicolon}
    OBVIOUS
  <2> QED
    BY <2>1 DEF Free
<1>2. /\ LineEnd \in S /\ LengthTag \in S /\ Decimal(length) \in S /\ Alphabet \subseteq S
  BY DEF ReplyPieces, Written
<1>3. CookieMark # Semicolon
  BY MarksDiffer
<1>4. first \in Seq(S) /\ Free(first, CookieMark)
  BY StatusLine
<1>5. fields \in Seq(S) /\ Carries(fields, CookieMark, cookie, Semicolon)
  BY <1>1, FieldsCarry
<1>6. Reply(status, fields, length, body) = reply
  BY DEF Reply, LengthTag
<1> HIDE DEF S
<1>7. cookie \in Seq(S) /\ body \in Seq(S)
  BY <1>1, <1>2
<1>8. lengthLine \in Seq(S) /\ blank \in Seq(S)
  <2> DEFINE number == Decimal(length)
             pair == <<LengthTag, number>>
  <2>1. number \in S
    BY <1>2
  <2> HIDE DEF number
  <2>2. pair \in Seq(S) /\ blank \in Seq(S)
    BY <1>2, <2>1
  <2> HIDE DEF pair, blank
  <2>3. pair \o blank \in Seq(S)
    BY <2>2, Joined DEF Joins
  <2> QED
    BY <2>2, <2>3 DEF Line, pair, number, blank
<1> HIDE DEF first, lengthLine, blank
<1>9. front \in Seq(S) /\ Carries(front, CookieMark, cookie, Semicolon)
  BY <1>4, <1>5, <1>7, Joined, CarriedBehind DEF Joins
<1> HIDE DEF front
<1>10. head \in Seq(S) /\ Carries(head, CookieMark, cookie, Semicolon)
  BY <1>7, <1>8, <1>9, Joined, CarriedBefore DEF Joins
<1> HIDE DEF head
<1>11. closed \in Seq(S) /\ Carries(closed, CookieMark, cookie, Semicolon)
  BY <1>7, <1>8, <1>10, Joined, CarriedBefore DEF Joins
<1> HIDE DEF closed
<1>12. reply \in Seq(S) /\ Carries(reply, CookieMark, cookie, Semicolon)
  BY <1>7, <1>11, Joined, CarriedBefore DEF Joins
<1> HIDE DEF reply
<1>13. Found(reply, CookieMark, cookie, Semicolon)
  BY <1>1, <1>3, <1>7, <1>12, CarriedIsFound
<1>14. extract_cookie(reply) = cookie
  BY <1>13 DEF extract_cookie, Found, CookieMark, Semicolon
<1> QED
  BY <1>6, <1>14

\* json_body takes exactly the body out of a reply, with the blank lines that the
\* server may have put into it: the first blank line ends the head.
THEOREM BodyExtracted ==
    ASSUME NEW Alphabet, CookieEnds \subseteq Seq(Alphabet),
           NEW cookie \in Seq(Alphabet \ {LineEnd}),
           NEW fields \in FieldsWith(cookie) \cup TypeFields,
           NEW status \in Alphabet \ {LineEnd},
           NEW length, Decimal(length) \in Alphabet \ {LineEnd},
           NEW body \in Seq(Alphabet)
    PROVE  json_body(Reply(status, fields, length, body)) = body
<1> DEFINE S == ReplyPieces(Alphabet)
           first == Line(<<status>>)
           lengthLine == Line(<<LengthTag, Decimal(length)>>)
           front == first \o fields
           head == front \o lengthLine
           reply == head \o <<LineEnd>> \o body
<1>1. cookie \in Seq(Alphabet) /\ Free(cookie, LineEnd)
  <2>1. \A i \in 1..Len(cookie) : cookie[i] \in Alphabet \ {LineEnd}
    OBVIOUS
  <2> QED
    BY <2>1 DEF Free
<1>2. LineEnd \in S /\ Alphabet \subseteq S
  BY DEF ReplyPieces, Written
<1>3. Lines(S, first) /\ Len(first) # 0
  BY StatusLine
<1>4. Lines(S, fields)
  <2>1. CASE fields \in TypeFields
    BY <2>1, TypeLine
  <2>2. CASE fields \in FieldsWith(cookie)
    BY <1>1, <2>2, FieldsCarry
  <2> QED
    BY <2>1, <2>2
<1>5. Lines(S, lengthLine)
  BY LengthLine
<1>6. Reply(status, fields, length, body) = reply
  BY DEF Reply, LengthTag
<1> HIDE DEF S, first, lengthLine
<1>7. body \in Seq(S)
  BY <1>2
<1>8. Lines(S, front) /\ Len(front) = Len(first) + Len(fields)
  BY <1>3, <1>4, BlocksJoin DEF Lines
<1>9. Len(front) # 0
  <2>1. Len(first) \in Nat /\ Len(fields) \in Nat
    BY <1>3, <1>4, LenProperties DEF Lines
  <2> QED
    BY <1>3, <1>8, <2>1
<1> HIDE DEF front
<1>10. Lines(S, head) /\ Len(head) = Len(front) + Len(lengthLine)
  BY <1>5, <1>8, BlocksJoin DEF Lines
<1>11. Len(head) # 0
  <2>1. Len(front) \in Nat /\ Len(lengthLine) \in Nat
    BY <1>5, <1>8, LenProperties DEF Lines
  <2> QED
    BY <1>9, <1>10, <2>1
<1> HIDE DEF head
<1>12. Separates(S, head, body, reply)
  BY <1>2, <1>7, <1>10, <1>11, HeadEnds DEF Lines
<1> HIDE DEF reply
<1>13. json_body(reply) = body
  BY <1>12 DEF json_body, Separates
<1> QED
  BY <1>6, <1>13

-----------------------------------------------------------------------------
(* JSON.  Recursion over what has a rank.                                  *)

\* A set of natural numbers has a least one.
LEMMA LeastNatural ==
    ASSUME NEW T \in SUBSET Nat, T # {}
    PROVE  \E m \in T : \A k \in T : m <= k
<1> DEFINE R == OpToRel(<, Nat)
<1>1. IsWellFoundedOn(R, Nat)
  BY NatLessThanWellFounded DEF OpToRel
<1>2. \A x, y \in Nat : <<x, y>> \in R <=> x < y
  BY DEF OpToRel
<1> HIDE DEF R
<1>3. PICK m \in T : \A k \in T : ~(<<k, m>> \in R)
  BY <1>1, WFMin
<1>4. ASSUME NEW k \in T
      PROVE  m <= k
  <2>1. m \in Nat /\ k \in Nat /\ ~(k < m)
    BY <1>2, <1>3
  <2> QED
    BY <2>1
<1> QED
  BY <1>4

\* What holds of an argument when it holds of all lesser ones, holds of all.
LEMMA RankInduction ==
    ASSUME NEW S, NEW rank \in [S -> Nat], NEW T,
           \A s \in S : (\A t \in S : rank[t] < rank[s] => t \in T) => s \in T
    PROVE  S \subseteq T
<1> DEFINE ranks == {rank[s] : s \in S \ T}
<1>1. SUFFICES ASSUME ranks # {} PROVE FALSE
  OBVIOUS
<1>2. ranks \subseteq Nat
  OBVIOUS
<1>3. PICK m \in ranks : \A k \in ranks : m <= k
  BY <1>1, <1>2, LeastNatural
<1>4. PICK s \in S \ T : m = rank[s]
  BY <1>3
<1>5. ASSUME NEW t \in S, rank[t] < rank[s] PROVE t \in T
  <2>1. rank[t] \in Nat /\ rank[s] \in Nat /\ ~(m <= rank[t])
    BY <1>4, <1>5
  <2>2. rank[t] \notin ranks
    BY <2>1, <1>3
  <2> QED
    BY <2>2
<1> QED
  BY <1>4, <1>5

\* Where every value is found from the values at lesser arguments, there is a function
\* that has all of them.
UsesLesser(S, V, rank, step) ==
    \A g, h \in [S -> V], s \in S :
       (\A t \in S : rank[t] < rank[s] => g[t] = h[t]) => step[<<g, s>>] = step[<<h, s>>]

Recursion(S, V, step) == \E f \in [S -> V] : f = [s \in S |-> step[<<f, s>>]]

\* A step that only looks at what is less has a function that it is the equation of.
LEMMA RecursionOnRank ==
    ASSUME NEW S, NEW V, V # {}, NEW rank \in [S -> Nat],
           NEW step \in [[S -> V] \X S -> V],
           UsesLesser(S, V, rank, step)
    PROVE  Recursion(S, V, step)
<1> PICK v \in V : TRUE
  OBVIOUS
<1>0. \A g, h \in [S -> V], s \in S :
       (\A t \in S : rank[t] < rank[s] => g[t] = h[t]) => step[<<g, s>>] = step[<<h, s>>]
  BY DEF UsesLesser
<1> DEFINE Attempt(g, n) == \A s \in S : rank[s] <= n => g[s] = step[<<g, s>>]
<1>1. \A n \in Nat : \E g \in [S -> V] : Attempt(g, n)
  <2> DEFINE T == {n \in Nat : ~\E g \in [S -> V] : Attempt(g, n)}
  <2>1. SUFFICES ASSUME T # {} PROVE FALSE
    OBVIOUS
  <2>2. PICK m \in T : \A k \in T : m <= k
    BY <2>1, LeastNatural
  <2>3. PICK g \in [S -> V] : m > 0 => Attempt(g, m - 1)
    <3>1. CASE m = 0
      <4>1. [s \in S |-> v] \in [S -> V] /\ ~(m > 0)
        BY <3>1
      <4> HIDE DEF Attempt
      <4> QED
        BY <4>1
    <3>2. CASE m # 0
      <4>1. m - 1 \in Nat /\ ~(m <= m - 1)
        BY <3>2
      <4>2. m - 1 \notin T
        BY <4>1, <2>2
      <4> QED
        BY <4>1, <4>2
    <3> QED
      BY <3>1, <3>2
  <2> DEFINE h == [s \in S |-> step[<<g, s>>]]
  <2>4. h \in [S -> V]
    OBVIOUS
  <2>5. ASSUME NEW s \in S, rank[s] <= m
        PROVE  h[s] = step[<<h, s>>]
    <3>1. ASSUME NEW t \in S, rank[t] < rank[s] PROVE g[t] = h[t]
      <4>1. rank[t] \in Nat /\ rank[s] \in Nat
        OBVIOUS
      <4>2. m > 0 /\ rank[t] <= m - 1
        BY <4>1, <3>1, <2>5
      <4>3. g[t] = step[<<g, t>>]
        BY <4>2, <2>3
      <4> QED
        BY <4>3
    <3>2. step[<<g, s>>] = step[<<h, s>>]
      BY <3>1, <2>4, <1>0
    <3> QED
      BY <3>2
  <2>6. Attempt(h, m)
    BY <2>5
  <2> QED
    BY <2>4, <2>6
<1>2. ASSUME NEW g \in [S -> V], NEW h \in [S -> V], NEW n \in Nat, NEW m \in Nat,
             Attempt(g, n), Attempt(h, m),
             NEW s \in S, rank[s] <= n, rank[s] <= m
      PROVE  g[s] = h[s]
  <2> DEFINE T == {k \in Nat : \E t \in S : rank[t] = k /\ k <= n /\ k <= m /\ g[t] # h[t]}
  <2>1. SUFFICES ASSUME T # {} PROVE FALSE
    <3>1. rank[s] \in Nat
      OBVIOUS
    <3> QED
      BY <3>1, <1>2
  <2>2. PICK k \in T : \A l \in T : k <= l
    BY <2>1, LeastNatural
  <2>3. PICK t \in S : rank[t] = k /\ k <= n /\ k <= m /\ g[t] # h[t]
    BY <2>2
  <2>4. ASSUME NEW u \in S, rank[u] < rank[t] PROVE g[u] = h[u]
    <3>1. rank[u] \in Nat /\ rank[u] < k
      BY <2>3, <2>4
    <3>2. rank[u] <= n /\ rank[u] <= m /\ ~(k <= rank[u])
      BY <3>1, <2>3
    <3>3. rank[u] \notin T
      BY <3>2, <2>2
    <3> QED
      BY <3>1, <3>2, <3>3
  <2>5. step[<<g, t>>] = step[<<h, t>>]
    BY <2>4, <1>0
  <2> QED
    BY <2>3, <2>5, <1>2
<1> DEFINE G(n) == CHOOSE g \in [S -> V] : Attempt(g, n)
<1>3. \A n \in Nat : G(n) \in [S -> V] /\ Attempt(G(n), n)
  BY <1>1
<1> DEFINE f == [s \in S |-> G(rank[s])[s]]
<1> HIDE DEF G
<1>4. f \in [S -> V]
  BY <1>3
<1>5. ASSUME NEW s \in S PROVE f[s] = step[<<f, s>>]
  <2> DEFINE g == G(rank[s])
  <2>1. g \in [S -> V] /\ rank[s] \in Nat /\ Attempt(g, rank[s])
    BY <1>3
  <2>2. ASSUME NEW t \in S, rank[t] < rank[s] PROVE g[t] = f[t]
    <3>1. rank[t] \in Nat /\ rank[t] <= rank[t] /\ rank[t] <= rank[s]
      BY <2>1, <2>2
    <3>2. G(rank[t]) \in [S -> V] /\ Attempt(G(rank[t]), rank[t])
      BY <1>3, <3>1
    <3> HIDE DEF Attempt, g
    <3>3. g[t] = G(rank[t])[t]
      BY <3>1, <3>2, <2>1, <1>2
    <3> QED
      BY <3>3
  <2>3. step[<<g, s>>] = step[<<f, s>>]
    <3> HIDE DEF g, f
    <3> QED
      BY <2>1, <2>2, <1>4, <1>0
  <2>4. g[s] = step[<<g, s>>]
    BY <2>1
  <2> QED
    BY <2>3, <2>4
<1> HIDE DEF f
<1>6. f = [s \in S |-> step[<<f, s>>]]
  BY <1>4, <1>5
<1> QED
  BY <1>4, <1>6 DEF Recursion

-----------------------------------------------------------------------------
(* What parson reads keeps its limits.                                     *)

\* The empty text.
LEMMA EmptyText == <<>> \in Text
BY DEF Text

\* A text has a length.
LEMMA TextLength == \A text \in Text : Len(text) \in Nat
BY DEF Text

\* A text that is not empty is its first piece and a shorter text.
LEMMA TailShorter ==
    ASSUME NEW text \in Text, text # <<>>
    PROVE  /\ Tail(text) \in Text
           /\ Len(Tail(text)) < Len(text)
           /\ Len(Tail(text)) = Len(text) - 1
           /\ Len(text) \in Nat /\ Len(text) > 0
           /\ Head(text) \in Piece
           /\ text = <<Head(text)>> \o Tail(text)
BY DEF Text

\* What holds of a text when it holds of all shorter ones, holds of all.
LEMMA TextInduction ==
    ASSUME NEW T, \A s \in Text : (\A t \in Text : Len(t) < Len(s) => t \in T) => s \in T
    PROVE  Text \subseteq T
<1> DEFINE rank == [text \in Text |-> Len(text)]
<1>1. rank \in [Text -> Nat] /\ \A s \in Text : rank[s] = Len(s)
  BY DEF Text
<1> HIDE DEF rank
<1>2. \A s \in Text : (\A t \in Text : rank[t] < rank[s] => t \in T) => s \in T
  BY <1>1
<1> QED
  BY <1>1, <1>2, RankInduction

Length == [text \in Text |-> Len(text)]

\* The length as a rank.
LEMMA LengthRank == Length \in [Text -> Nat] /\ \A s \in Text : Length[s] = Len(s)
BY DEF Length, Text

\* SKIP_WHITESPACES, one round of it.
LEMMA SkippedValue ==
    /\ Skipped \in [Text -> Text]
    /\ \A text \in Text :
          Skipped[text] = IF Begins(text, WhiteSpace) THEN Skipped[Tail(text)] ELSE text
<1> DEFINE Round(g, text) == IF Begins(text, WhiteSpace) THEN g[Tail(text)] ELSE text
           step == [p \in [Text -> Text] \X Text |-> Round(p[1], p[2])]
<1>1. ASSUME NEW g, NEW s \in Text, \A t \in Text : Len(t) < Len(s) => g[t] \in Text
      PROVE  Round(g, s) \in Text
  BY <1>1, TailShorter DEF Begins
<1>2. ASSUME NEW g, NEW h, NEW s \in Text,
             \A t \in Text : Len(t) < Len(s) => g[t] = h[t]
      PROVE  Round(g, s) = Round(h, s)
  BY <1>2, TailShorter DEF Begins
<1> HIDE DEF Round
<1>3. step \in [[Text -> Text] \X Text -> Text]
  BY <1>1
<1>4. UsesLesser(Text, Text, Length, step)
  BY <1>2, LengthRank DEF UsesLesser
<1>5. \E f : f = [s \in Text |-> Round(f, s)]
  <2>1. PICK f \in [Text -> Text] : f = [s \in Text |-> step[<<f, s>>]]
    <3> HIDE DEF step
    <3>1. Recursion(Text, Text, step)
      BY <1>3, <1>4, EmptyText, LengthRank, RecursionOnRank
    <3> QED
      BY <3>1 DEF Recursion
  <2>2. \A s \in Text : step[<<f, s>>] = Round(f, s)
    OBVIOUS
  <2> HIDE DEF step
  <2>3. f = [s \in Text |-> Round(f, s)]
    BY <2>1, <2>2
  <2> QED
    BY <2>3
<1> USE DEF Round
<1>6. Skipped = [s \in Text |-> Round(Skipped, s)]
  BY <1>5, Zenon DEF Skipped
<1> HIDE DEF Round
<1>7. \A text \in Text : Skipped[text] = Round(Skipped, text)
  BY <1>6
<1>8. Text \subseteq {s \in Text : Skipped[s] \in Text}
  <2> DEFINE T == {s \in Text : Skipped[s] \in Text}
  <2>1. \A s \in Text : (\A t \in Text : Len(t) < Len(s) => t \in T) => s \in T
    BY <1>1, <1>7
  <2> HIDE DEF T
  <2>2. Text \subseteq T
    BY <2>1, TextInduction
  <2> QED
    BY <2>2 DEF T
<1>9. Skipped \in [Text -> Text]
  BY <1>6, <1>8
<1> QED
  BY <1>7, <1>9 DEF Round

\* What is left behind the first n pieces.
LEMMA BehindText ==
    ASSUME NEW text \in Text, NEW n \in Nat
    PROVE  /\ Behind(text, n) \in Text
           /\ text # <<>> /\ n > 0 => Len(Behind(text, n)) < Len(text)
           /\ Len(Behind(text, n)) <= Len(text)
           /\ n <= Len(text) => Len(Behind(text, n)) = Len(text) - n
<1> DEFINE behind == SubSeq(text, n + 1, Len(text))
<1>1. Len(text) \in Nat /\ text \in Seq(Piece)
  BY DEF Text
<1>2. CASE n + 1 <= Len(text)
  <2>1. behind \in Seq(Piece) /\ Len(behind) = Len(text) - (n + 1) + 1
    BY <1>1, <1>2, SubSeqProperties
  <2> QED
    BY <2>1, <1>1 DEF Behind, Text
<1>3. CASE ~(n + 1 <= Len(text))
  <2>1. behind = <<>>
    BY <1>1, <1>3, SubSeqProperties
  <2>2. text # <<>> => Len(text) > 0
    BY <1>1
  <2>3. Len(behind) = 0 /\ (n <= Len(text) => Len(text) - n = 0)
    BY <2>1, <1>1, <1>3
  <2> HIDE DEF behind
  <2>4. behind \in Text
    BY <2>1, EmptyText
  <2> QED
    BY <2>2, <2>3, <2>4, <1>1 DEF Behind, behind
<1> QED
  BY <1>2, <1>3

\* skip_quotes, one round of it.
LEMMA SkipQuotesValue ==
    /\ skip_quotes \in [Text -> Text]
    /\ \A text \in Text :
          /\ text = <<>> \/ Begins(text, {Quote}) => skip_quotes[text] = text
          /\ text # <<>> /\ ~Begins(text, {Quote}) =>
                skip_quotes[text] =
                   skip_quotes[IF Begins(text, {Backslash}) /\ Len(text) > 1
                               THEN Behind(text, 2) ELSE Tail(text)]
<1> DEFINE Round(g, text) ==
             CASE text = <<>> \/ Begins(text, {Quote}) -> text
               [] Begins(text, {Backslash}) /\ Len(text) > 1 -> g[Behind(text, 2)]
               [] OTHER -> g[Tail(text)]
           step == [p \in [Text -> Text] \X Text |-> Round(p[1], p[2])]
<1>0. Quote # Backslash
  BY DEF Quote, Backslash
<1>1. ASSUME NEW g, NEW s \in Text, \A t \in Text : Len(t) < Len(s) => g[t] \in Text
      PROVE  Round(g, s) \in Text
  <2>1. CASE s = <<>> \/ Begins(s, {Quote})
    BY <2>1, <1>0 DEF Begins
  <2>2. CASE ~(s = <<>> \/ Begins(s, {Quote}))
    <3>1. Behind(s, 2) \in Text /\ Len(Behind(s, 2)) < Len(s)
      BY <2>2, BehindText
    <3>2. Tail(s) \in Text /\ Len(Tail(s)) < Len(s)
      BY <2>2, TailShorter
    <3> QED
      BY <2>2, <1>1, <3>1, <3>2
  <2> QED
    BY <2>1, <2>2
<1>2. ASSUME NEW g, NEW h, NEW s \in Text,
             \A t \in Text : Len(t) < Len(s) => g[t] = h[t]
      PROVE  Round(g, s) = Round(h, s)
  <2>1. CASE s = <<>> \/ Begins(s, {Quote})
    BY <2>1, <1>0 DEF Begins
  <2>2. CASE ~(s = <<>> \/ Begins(s, {Quote}))
    <3>1. Behind(s, 2) \in Text /\ Len(Behind(s, 2)) < Len(s)
      BY <2>2, BehindText
    <3>2. Tail(s) \in Text /\ Len(Tail(s)) < Len(s)
      BY <2>2, TailShorter
    <3>3. g[Behind(s, 2)] = h[Behind(s, 2)] /\ g[Tail(s)] = h[Tail(s)]
      BY <1>2, <3>1, <3>2
    <3> QED
      BY <2>2, <3>3
  <2> QED
    BY <2>1, <2>2
<1> HIDE DEF Round
<1>3. step \in [[Text -> Text] \X Text -> Text]
  BY <1>1
<1>4. UsesLesser(Text, Text, Length, step)
  BY <1>2, LengthRank DEF UsesLesser
<1>5. \E f : f = [s \in Text |-> Round(f, s)]
  <2>1. PICK f \in [Text -> Text] : f = [s \in Text |-> step[<<f, s>>]]
    <3> HIDE DEF step
    <3>1. Recursion(Text, Text, step)
      BY <1>3, <1>4, EmptyText, LengthRank, RecursionOnRank
    <3> QED
      BY <3>1 DEF Recursion
  <2>2. \A s \in Text : step[<<f, s>>] = Round(f, s)
    OBVIOUS
  <2> HIDE DEF step
  <2>3. f = [s \in Text |-> Round(f, s)]
    BY <2>1, <2>2
  <2> QED
    BY <2>3
<1> USE DEF Round
<1>6. skip_quotes = [s \in Text |-> Round(skip_quotes, s)]
  BY <1>5, Zenon DEF skip_quotes
<1> HIDE DEF Round
<1>7. \A text \in Text : skip_quotes[text] = Round(skip_quotes, text)
  BY <1>6
<1>8. Text \subseteq {s \in Text : skip_quotes[s] \in Text}
  <2> DEFINE T == {s \in Text : skip_quotes[s] \in Text}
  <2>1. \A s \in Text : (\A t \in Text : Len(t) < Len(s) => t \in T) => s \in T
    BY <1>1, <1>7
  <2> HIDE DEF T
  <2>2. Text \subseteq T
    BY <2>1, TextInduction
  <2> QED
    BY <2>2 DEF T
<1>9. skip_quotes \in [Text -> Text]
  BY <1>6, <1>8
<1>10. ASSUME NEW s \in Text, s = <<>> \/ Begins(s, {Quote})
       PROVE  skip_quotes[s] = s
  <2>1. ~Begins(s, {Backslash})
    BY <1>0, <1>10 DEF Begins
  <2> QED
    BY <2>1, <1>7, <1>10 DEF Round
<1>11. ASSUME NEW s \in Text, s # <<>>, ~Begins(s, {Quote})
       PROVE  skip_quotes[s] = skip_quotes[IF Begins(s, {Backslash}) /\ Len(s) > 1
                                           THEN Behind(s, 2) ELSE Tail(s)]
  BY <1>7, <1>11 DEF Round
<1> QED
  BY <1>9, <1>10, <1>11

\* What a reader may give that is to read one of these.
Outcome(J) == {Failure} \cup {Read(json, rest) : json \in J, rest \in Text}

\* A reader either fails or gives what it read with the text that is left.
LEMMA OutcomeForms ==
    ASSUME NEW J
    PROVE  /\ Failure \in Outcome(J) /\ Failure.ok = FALSE
           /\ \A json \in J, rest \in Text : Read(json, rest) \in Outcome(J)
           /\ \A json, rest : /\ Read(json, rest).ok = TRUE
                              /\ Read(json, rest).json = json
                              /\ Read(json, rest).rest = rest
<1>1. Failure \in Outcome(J)
  BY DEF Outcome
<1>2. Failure.ok = FALSE
  BY DEF Failure
<1>3. \A json \in J, rest \in Text : Read(json, rest) \in Outcome(J)
  BY DEF Outcome
<1>4. \A json, rest : /\ Read(json, rest).ok = TRUE
                     /\ Read(json, rest).json = json
                     /\ Read(json, rest).rest = rest
  BY DEF Read
<1> QED
  BY <1>1, <1>2, <1>3, <1>4

\* The same, by what a reader gave.
LEMMA OutcomeParts ==
    ASSUME NEW J, NEW o \in Outcome(J)
    PROVE  /\ o.ok \in BOOLEAN
           /\ ~o.ok => o = Failure
           /\ o.ok => o.json \in J /\ o.rest \in Text /\ o = Read(o.json, o.rest)
<1>1. CASE o = Failure
  BY <1>1, OutcomeForms
<1>2. CASE o # Failure
  <2>1. PICK json \in J, rest \in Text : o = Read(json, rest)
    <3>1. o \in {Read(json, rest) : json \in J, rest \in Text}
      BY <1>2 DEF Outcome
    <3> QED
      BY <3>1
  <2>2. o.ok = TRUE /\ o.json = json /\ o.rest = rest
    BY <2>1 DEF Read
  <2> QED
    BY <2>1, <2>2
<1> QED
  BY <1>1, <1>2

\* The named pieces and characters.
LEMMA SpecialPieces ==
    /\ Crlf \in Piece /\ "]" \in Piece /\ "}" \in Piece
    /\ Quote \in Char /\ Backslash \in Char /\ "/" \in Char
    /\ NewLine \in Char /\ Control \in Char /\ Nul \in Char /\ Astral \in Char
BY PiecesAssumption
   DEF Structure, WhiteSpace, Char, Quote, NewLine, Crlf, Backslash, Control, Nul, Astral

\* What process_string reads in one round is a character, of one piece or more.
LEMMA CharacterRead ==
    ASSUME NEW text \in Text, text # <<>>
    PROVE  /\ Character(text).pieces \in Nat
           /\ Character(text).char \in Char
<1> DEFINE Fine(c) == c.pieces \in Nat /\ c.char \in Char
<1>1. Head(text) \in Piece /\ Tail(text) \in Text
  BY TailShorter
<1>2. Fine(Refused) /\ Fine(Stands(NewLine, 2))
      /\ Fine(Stands(Control, 3)) /\ Fine(Stands(Nul, 3)) /\ Fine(Stands(Astral, 6))
  BY SpecialPieces DEF Stands, Refused
<1>3. Begins(Tail(text), {Quote, Backslash, "/"}) => Fine(Stands(text[2], 2))
  <2>1. Begins(Tail(text), {Quote, Backslash, "/"}) => text[2] = Head(Tail(text))
    BY <1>1 DEF Begins, Text
  <2> QED
    BY <2>1, SpecialPieces DEF Begins, Stands
<1>4. ~Begins(text, {NewLine, Crlf, Control, Nul}) => Fine(Stands(Head(text), 1))
  BY <1>1 DEF Begins, Char, Stands
<1> HIDE DEF Fine
<1>5. Fine(parse_utf16(text))
  BY <1>2 DEF parse_utf16
<1>6. Fine(Character(text))
  BY <1>2, <1>3, <1>4, <1>5 DEF Character
<1> QED
  BY <1>6 DEF Fine

\* The rounds of process_string.
Round_string(g, text) ==
    LET char == Character(text)
        others == g[Behind(text, char.pieces)]
    IN  IF text = <<>> THEN Read(<<>>, <<>>)
        ELSE IF char.pieces > 0 /\ others.ok THEN Read(<<char.char>> \o others.json, <<>>)
        ELSE Failure

\* process_string gives characters, round after round.
LEMMA ProcessStringValue ==
    /\ process_string \in [Text -> Outcome(Seq(Char))]
    /\ \A text \in Text : process_string[text] = Round_string(process_string, text)
<1> DEFINE V == Outcome(Seq(Char))
           step == [p \in [Text -> V] \X Text |-> Round_string(p[1], p[2])]
<1>1. ASSUME NEW g, NEW s \in Text, \A t \in Text : Len(t) < Len(s) => g[t] \in V
      PROVE  Round_string(g, s) \in V
  <2> DEFINE char == Character(s)
             others == g[Behind(s, char.pieces)]
  <2>1. CASE s = <<>>
    <3>1. <<>> \in Seq(Char)
      OBVIOUS
    <3> QED
      BY <2>1, <3>1, OutcomeForms, EmptyText DEF Round_string
  <2>2. CASE s # <<>> /\ char.pieces > 0 /\ others.ok
    <3>1. char.pieces \in Nat /\ char.char \in Char
      BY <2>2, CharacterRead
    <3>2. Behind(s, char.pieces) \in Text /\ Len(Behind(s, char.pieces)) < Len(s)
      BY <3>1, <2>2, BehindText
    <3>3. others \in V
      BY <3>2, <1>1
    <3>4. others.json \in Seq(Char)
      BY <3>3, <2>2, OutcomeParts
    <3> HIDE DEF char, others
    <3>5. <<char.char>> \o others.json \in Seq(Char)
      BY <3>1, <3>4
    <3>6. Round_string(g, s) = Read(<<char.char>> \o others.json, <<>>)
      BY <2>2 DEF Round_string, char, others
    <3> QED
      BY <3>5, <3>6, OutcomeForms, EmptyText
  <2>3. CASE s # <<>> /\ ~(char.pieces > 0 /\ others.ok)
    BY <2>3, OutcomeForms DEF Round_string
  <2> QED
    BY <2>1, <2>2, <2>3
<1>2. ASSUME NEW g, NEW h, NEW s \in Text,
             \A t \in Text : Len(t) < Len(s) => g[t] = h[t]
      PROVE  Round_string(g, s) = Round_string(h, s)
  <2> DEFINE char == Character(s)
  <2>1. CASE s # <<>> /\ char.pieces > 0
    <3>1. Behind(s, char.pieces) \in Text /\ Len(Behind(s, char.pieces)) < Len(s)
      BY <2>1, CharacterRead, BehindText
    <3>2. g[Behind(s, char.pieces)] = h[Behind(s, char.pieces)]
      BY <3>1, <1>2
    <3> QED
      BY <3>2 DEF Round_string
  <2>2. CASE ~(s # <<>> /\ char.pieces > 0)
    BY <2>2 DEF Round_string
  <2> QED
    BY <2>1, <2>2
<1>3. step \in [[Text -> V] \X Text -> V]
  BY <1>1
<1>4. UsesLesser(Text, V, Length, step)
  BY <1>2, LengthRank DEF UsesLesser
<1>5. \E f : f = [s \in Text |-> Round_string(f, s)]
  <2>1. PICK f \in [Text -> V] : f = [s \in Text |-> step[<<f, s>>]]
    <3>1. V # {}
      BY OutcomeForms
    <3> HIDE DEF step, V
    <3>2. Recursion(Text, V, step)
      BY <3>1, <1>3, <1>4, LengthRank, RecursionOnRank
    <3> QED
      BY <3>2 DEF Recursion
  <2>2. \A s \in Text : step[<<f, s>>] = Round_string(f, s)
    OBVIOUS
  <2> HIDE DEF step, V
  <2>3. f = [s \in Text |-> Round_string(f, s)]
    BY <2>1, <2>2
  <2> QED
    BY <2>3
<1>6. process_string = [s \in Text |-> Round_string(process_string, s)]
  BY <1>5, Zenon DEF process_string, Round_string
<1>7. \A text \in Text : process_string[text] = Round_string(process_string, text)
  BY <1>6
<1>8. Text \subseteq {s \in Text : process_string[s] \in V}
  <2> DEFINE T == {s \in Text : process_string[s] \in V}
  <2>1. \A s \in Text : (\A t \in Text : Len(t) < Len(s) => t \in T) => s \in T
    BY <1>1, <1>7
  <2> HIDE DEF T
  <2>2. Text \subseteq T
    BY <2>1, TextInduction
  <2> QED
    BY <2>2 DEF T
<1>9. process_string \in [Text -> V]
  BY <1>6, <1>8
<1> QED
  BY <1>7, <1>9

\* Blanks are passed and nothing else.
LEMMA SkippedPasses ==
    ASSUME NEW text \in Text
    PROVE  /\ Skipped[text] \in Text
           /\ Len(Skipped[text]) <= Len(text)
           /\ ~Begins(Skipped[text], WhiteSpace)
<1> DEFINE T == {t \in Text : Len(Skipped[t]) <= Len(t) /\ ~Begins(Skipped[t], WhiteSpace)}
<1>1. ASSUME NEW s \in Text, \A t \in Text : Len(t) < Len(s) => t \in T
      PROVE  s \in T
  <2>1. CASE Begins(s, WhiteSpace)
    <3>1. Tail(s) \in Text /\ Len(Tail(s)) < Len(s)
      BY <2>1, TailShorter DEF Begins
    <3>2. Tail(s) \in T /\ Skipped[s] = Skipped[Tail(s)]
      BY <3>1, <1>1, <2>1, SkippedValue
    <3>3. Skipped[Tail(s)] \in Text
      BY <3>1, SkippedValue
    <3>4. Len(Skipped[s]) \in Nat /\ Len(s) \in Nat /\ Len(Tail(s)) \in Nat
      BY <3>1, <3>2, <3>3 DEF Text
    <3> QED
      BY <3>1, <3>2, <3>4
  <2>2. CASE ~Begins(s, WhiteSpace)
    <3>1. Skipped[s] = s
      BY <2>2, SkippedValue
    <3>2. Len(s) \in Nat
      BY DEF Text
    <3> QED
      BY <3>1, <3>2, <2>2
  <2> QED
    BY <2>1, <2>2
<1> HIDE DEF T
<1>2. Text \subseteq T
  BY <1>1, TextInduction
<1>3. text \in T
  BY <1>2
<1> QED
  BY <1>3, SkippedValue DEF T

\* skip_quotes stops at a quote or at the end.
LEMMA SkipQuotesStops ==
    ASSUME NEW text \in Text
    PROVE  /\ skip_quotes[text] \in Text
           /\ Len(skip_quotes[text]) <= Len(text)
<1> DEFINE T == {t \in Text : Len(skip_quotes[t]) <= Len(t)}
<1>1. ASSUME NEW s \in Text, \A t \in Text : Len(t) < Len(s) => t \in T
      PROVE  s \in T
  <2>1. CASE s = <<>> \/ Begins(s, {Quote})
    <3>1. skip_quotes[s] = s
      BY <2>1, SkipQuotesValue
    <3>2. Len(s) \in Nat
      BY DEF Text
    <3> QED
      BY <3>1, <3>2
  <2>2. CASE ~(s = <<>> \/ Begins(s, {Quote}))
    <3> DEFINE t == IF Begins(s, {Backslash}) /\ Len(s) > 1 THEN Behind(s, 2) ELSE Tail(s)
    <3>0. s # <<>> /\ ~Begins(s, {Quote})
      BY <2>2
    <3>1. skip_quotes[s] = skip_quotes[t]
      BY <3>0, SkipQuotesValue
    <3>2a. Behind(s, 2) \in Text /\ Len(Behind(s, 2)) < Len(s)
      BY <3>0, BehindText
    <3>2b. Tail(s) \in Text /\ Len(Tail(s)) < Len(s)
      BY <3>0, TailShorter
    <3>2. t \in Text /\ Len(t) < Len(s)
      BY <3>2a, <3>2b
    <3> HIDE DEF t
    <3>3. t \in T /\ skip_quotes[t] \in Text
      BY <3>2, <1>1, SkipQuotesValue
    <3>4. Len(skip_quotes[s]) \in Nat /\ Len(s) \in Nat /\ Len(t) \in Nat
      BY <3>1, <3>2, <3>3 DEF Text
    <3> QED
      BY <3>1, <3>2, <3>3, <3>4
  <2> QED
    BY <2>1, <2>2
<1> HIDE DEF T
<1>2. Text \subseteq T
  BY <1>1, TextInduction
<1>3. text \in T
  BY <1>2
<1> QED
  BY <1>3, SkipQuotesValue DEF T

\* A reader never goes back in the text; where strtod finds no numeral it stays.
Advances(reader) == \A text \in Text : reader[text].ok => Len(reader[text].rest) <= Len(text)

\* get_quoted_string gives characters and goes on in the text.
LEMMA QuotedStringRead ==
    ASSUME NEW text \in Text
    PROVE  /\ get_quoted_string(text) \in Outcome(Seq(Char))
           /\ get_quoted_string(text).ok => Len(get_quoted_string(text).rest) < Len(text)
<1> DEFINE end == skip_quotes[Tail(text)]
           string == process_string[SubSeq(text, 2, Len(text) - Len(end))]
<1>1. CASE Begins(text, {Quote}) /\ end # <<>> /\ string.ok
  <2>1. Tail(text) \in Text /\ Len(Tail(text)) = Len(text) - 1 /\ Len(text) \in Nat
    BY <1>1, TailShorter DEF Begins
  <2>2. end \in Text /\ Len(end) <= Len(text) - 1
    BY <2>1, SkipQuotesStops
  <2>3. Tail(end) \in Text /\ Len(Tail(end)) = Len(end) - 1 /\ Len(end) \in Nat
    BY <1>1, <2>2, TailShorter
  <2>4. SubSeq(text, 2, Len(text) - Len(end)) \in Text
    <3>1. Len(text) - Len(end) \in Int /\ text \in Seq(Piece)
                /\ Len(text) - Len(end) <= Len(text)
      BY <2>1, <2>3 DEF Text
    <3>2. \A i \in 2..(Len(text) - Len(end)) : text[i] \in Piece
      BY <3>1, <2>1
    <3>3. SubSeq(text, 2, Len(text) - Len(end)) \in Seq(Piece)
      BY <3>1, <3>2, SubSeqProperties
    <3> QED
      BY <3>3 DEF Text
  <2>5. string.json \in Seq(Char)
    BY <1>1, <2>4, ProcessStringValue, OutcomeParts
  <2> HIDE DEF end, string
  <2>6. get_quoted_string(text) = Read(string.json, Tail(end))
    BY <1>1 DEF get_quoted_string, end, string
  <2>7. Read(string.json, Tail(end)).rest = Tail(end)
    BY DEF Read
  <2>8. Read(string.json, Tail(end)) \in Outcome(Seq(Char))
    BY <2>3, <2>5, OutcomeForms
  <2>9. Len(Tail(end)) < Len(text)
    BY <2>1, <2>2, <2>3
  <2> QED
    BY <2>6, <2>7, <2>8, <2>9
<1>2. CASE ~(Begins(text, {Quote}) /\ end # <<>> /\ string.ok)
  <2>1. get_quoted_string(text) = Failure
    BY <1>2 DEF get_quoted_string
  <2> QED
    BY <2>1, OutcomeForms
<1> QED
  BY <1>1, <1>2

\* A member as it is read.
FieldOf(J) == [name : Seq(Char \ {Nul}), value : J]

\* parse_field gives a field whose name has no '\0', and goes on in the text.
LEMMA FieldIsRead ==
    ASSUME NEW J, NEW value \in [Text -> Outcome(J)], Advances(value), NEW text \in Text
    PROVE  /\ parse_field(value, text) \in Outcome(FieldOf(J))
           /\ parse_field(value, text).ok => Len(parse_field(value, text).rest) < Len(text)
<1> DEFINE name == get_quoted_string(text)
           colon == Skipped[name.rest]
           read == value[Tail(colon)]
<1>1. CASE name.ok /\ Nul \notin ToSet(name.json) /\ Begins(colon, {":"}) /\ read.ok
  <2>1. name.json \in Seq(Char) /\ name.rest \in Text /\ Len(name.rest) < Len(text)
    BY <1>1, QuotedStringRead, OutcomeParts
  <2>2. colon \in Text /\ Len(colon) <= Len(name.rest)
    BY <2>1, SkippedPasses
  <2>3. Tail(colon) \in Text /\ Len(Tail(colon)) < Len(colon)
    BY <1>1, <2>2, TailShorter DEF Begins
  <2>4. read.json \in J /\ read.rest \in Text /\ Len(read.rest) <= Len(Tail(colon))
    BY <1>1, <2>3, OutcomeParts DEF Advances
  <2>5. Len(read.rest) < Len(text)
    <3>1. /\ Len(read.rest) \in Nat /\ Len(Tail(colon)) \in Nat /\ Len(colon) \in Nat
          /\ Len(name.rest) \in Nat /\ Len(text) \in Nat
      BY <2>1, <2>2, <2>3, <2>4 DEF Text
    <3> QED
      BY <3>1, <2>1, <2>2, <2>3, <2>4
  <2>6. name.json \in Seq(Char \ {Nul})
    BY <2>1, <1>1 DEF ToSet
  <2>7. parse_field(value, text) = Read([name |-> name.json, value |-> read.json], read.rest)
    BY <1>1 DEF parse_field, Member
  <2> HIDE DEF name, read
  <2>8. [name |-> name.json, value |-> read.json] \in FieldOf(J)
    BY <2>4, <2>6 DEF FieldOf
  <2>9. parse_field(value, text) \in Outcome(FieldOf(J))
    BY <2>4, <2>7, <2>8, OutcomeForms
  <2>10. parse_field(value, text).rest = read.rest
    BY <2>7 DEF Read
  <2> QED
    BY <2>5, <2>9, <2>10
<1>2. CASE ~(name.ok /\ Nul \notin ToSet(name.json) /\ Begins(colon, {":"}) /\ read.ok)
  <2>1. parse_field(value, text) = Failure
    BY <1>2 DEF parse_field, Member
  <2> QED
    BY <2>1, OutcomeForms
<1> QED
  BY <1>1, <1>2

\* What stands in a container: its elements, or its fields.
Inside(type, J) == IF type = "array" THEN J ELSE FieldOf(J)

Element(type, value, text) ==
    IF type = "array" THEN value[text] ELSE parse_field(value, text)

\* So does either loop for one element.
LEMMA ElementRead ==
    ASSUME NEW J, NEW value \in [Text -> Outcome(J)], Advances(value),
           NEW type, NEW text \in Text
    PROVE  LET element == Element(type, value, text) IN
           /\ element \in Outcome(Inside(type, J))
           /\ element.ok => Len(element.rest) <= Len(text)
<1>1. CASE type = "array"
  BY <1>1 DEF Element, Inside, Advances
<1>2. CASE type # "array"
  <2> DEFINE field == parse_field(value, text)
  <2>1. field \in Outcome(FieldOf(J)) /\ (field.ok => Len(field.rest) < Len(text))
    BY FieldIsRead
  <2>2. Element(type, value, text) = field /\ Inside(type, J) = FieldOf(J)
    BY <1>2 DEF Element, Inside
  <2> HIDE DEF field
  <2>3. field.ok => Len(field.rest) \in Nat /\ Len(text) \in Nat
    BY <2>1, OutcomeParts, TextLength
  <2> QED
    BY <2>1, <2>2, <2>3
<1> QED
  BY <1>1, <1>2

\* The rounds of the loops in parse_object_value and parse_array_value.
Round_elements(type, value, g, text) == Continued(type, Element(type, value, text), g)

\* Behind an element and its comma.
LEMMA NextShorter ==
    ASSUME NEW J, NEW value \in [Text -> Outcome(J)], Advances(value),
           NEW type, NEW text \in Text, Element(type, value, text).ok
    PROVE  LET element == Element(type, value, text)
               after == Skipped[element.rest]
               next == IF Begins(after, {","}) THEN Skipped[Tail(after)] ELSE after
           IN  /\ element.json \in Inside(type, J)
               /\ after \in Text /\ next \in Text
               /\ Begins(after, {","}) => Len(next) < Len(text)
               /\ Behind(next, 1) \in Text /\ Len(Behind(next, 1)) <= Len(text)
<1> DEFINE element == Element(type, value, text)
           after == Skipped[element.rest]
           comma == Begins(after, {","})
           next == IF comma THEN Skipped[Tail(after)] ELSE after
<1>1. element.json \in Inside(type, J) /\ element.rest \in Text
            /\ Len(element.rest) <= Len(text)
  BY ElementRead, OutcomeParts
<1>2. after \in Text /\ Len(after) <= Len(element.rest)
  BY <1>1, SkippedPasses
<1>3. next \in Text /\ Len(next) <= Len(after)
            /\ (comma => Len(next) < Len(after))
  <2>1. CASE comma
    <3>1. Tail(after) \in Text /\ Len(Tail(after)) < Len(after)
      BY <1>2, <2>1, TailShorter DEF Begins
    <3>2. Skipped[Tail(after)] \in Text /\ Len(Skipped[Tail(after)]) <= Len(Tail(after))
      BY <3>1, SkippedPasses
    <3>3. Len(after) \in Nat /\ Len(Tail(after)) \in Nat /\ Len(Skipped[Tail(after)]) \in Nat
      BY <1>2, <3>1, <3>2 DEF Text
    <3>4. next = Skipped[Tail(after)]
      BY <2>1
    <3> HIDE DEF after, comma, next
    <3>5. next \in Text /\ Len(next) < Len(after) /\ Len(next) \in Nat
      BY <3>1, <3>2, <3>3, <3>4
    <3> QED
      BY <3>3, <3>5
  <2>2. CASE ~comma
    <3>1. next = after /\ Len(after) \in Nat
      BY <2>2, <1>2, TextLength
    <3> HIDE DEF after, comma, next
    <3> QED
      BY <1>2, <2>2, <3>1
  <2> QED
    BY <2>1, <2>2
<1>4. Behind(next, 1) \in Text /\ Len(Behind(next, 1)) <= Len(next)
  BY <1>3, BehindText
<1> HIDE DEF element, after, comma, next
<1>5. /\ Len(text) \in Nat /\ Len(element.rest) \in Nat /\ Len(after) \in Nat
      /\ Len(next) \in Nat /\ Len(Behind(next, 1)) \in Nat
  BY <1>1, <1>2, <1>3, <1>4, TextLength
<1>6. /\ comma => Len(next) < Len(text)
      /\ Len(Behind(next, 1)) <= Len(text)
  BY <1>1, <1>2, <1>3, <1>4, <1>5
<1> QED
  BY <1>1, <1>2, <1>3, <1>4, <1>6 DEF element, after, comma, next

\* The loops give sequences of elements, round after round, and go on in the text.
LEMMA ElementsValue ==
    ASSUME NEW J, NEW value \in [Text -> Outcome(J)], Advances(value), NEW type
    PROVE  /\ Elements(type, value) \in [Text -> Outcome(Seq(Inside(type, J)))]
           /\ \A text \in Text : Elements(type, value)[text]
                                    = Round_elements(type, value, Elements(type, value), text)
           /\ Advances(Elements(type, value))
<1> DEFINE V == Outcome(Seq(Inside(type, J)))
           Round(g, s) == Round_elements(type, value, g, s)
           step == [p \in [Text -> V] \X Text |-> Round(p[1], p[2])]
           element(s) == Element(type, value, s)
           after(s) == Skipped[element(s).rest]
           comma(s) == Begins(after(s), {","})
           next(s) == IF comma(s) THEN Skipped[Tail(after(s))] ELSE after(s)
<1>0. ASSUME NEW s \in Text, element(s).ok
      PROVE  /\ element(s).json \in Inside(type, J)
             /\ next(s) \in Text
             /\ comma(s) => Len(next(s)) < Len(s)
             /\ Behind(next(s), 1) \in Text /\ Len(Behind(next(s), 1)) <= Len(s)
  BY <1>0, NextShorter
<1>r. ASSUME NEW g, NEW s \in Text
      PROVE  Round(g, s) =
                IF ~element(s).ok THEN Failure
                ELSE IF Closed(next(s), type) THEN Read(<<element(s).json>>,
                      Behind(next(s), 1))
                ELSE IF comma(s) /\ g[next(s)].ok
                THEN Read(<<element(s).json>> \o g[next(s)].json, g[next(s)].rest)
                ELSE Failure
  BY DEF Round_elements, Continued
<1> HIDE DEF Round, element, after, comma, next
<1>1. ASSUME NEW g, NEW s \in Text, \A t \in Text : Len(t) < Len(s) => g[t] \in V
      PROVE  /\ Round(g, s) \in V
             /\ (\A t \in Text : Len(t) < Len(s) /\ g[t].ok => Len(g[t].rest) <= Len(t)) =>
                   (Round(g, s).ok => Len(Round(g, s).rest) <= Len(s))
  <2> DEFINE others == g[next(s)]
  <2>1. CASE ~element(s).ok
    <3>1. Round(g, s) = Failure
      BY <2>1, <1>r
    <3> QED
      BY <3>1, OutcomeForms
  <2>2. CASE element(s).ok /\ Closed(next(s), type)
    <3>1. <<element(s).json>> \in Seq(Inside(type, J))
      BY <2>2, <1>0
    <3>2. Round(g, s) = Read(<<element(s).json>>, Behind(next(s), 1))
      BY <2>2, <1>r
    <3>3. Read(<<element(s).json>>, Behind(next(s), 1)).rest = Behind(next(s), 1)
      BY DEF Read
    <3>4. Read(<<element(s).json>>, Behind(next(s), 1)) \in V
      BY <3>1, <2>2, <1>0, OutcomeForms
    <3> QED
      BY <2>2, <1>0, <3>2, <3>3, <3>4
  <2>3. CASE /\ element(s).ok /\ ~Closed(next(s), type)
             /\ comma(s) /\ others.ok
    <3>1. element(s).json \in Inside(type, J) /\ next(s) \in Text /\ Len(next(s)) < Len(s)
      BY <2>3, <1>0
    <3>2. others \in V
      BY <3>1, <1>1
    <3>3. others.json \in Seq(Inside(type, J)) /\ others.rest \in Text
      BY <3>2, <2>3, OutcomeParts
    <3>4. Round(g, s) = Read(<<element(s).json>> \o others.json, others.rest)
      BY <2>3, <1>r
    <3> HIDE DEF others
    <3>5. <<element(s).json>> \o others.json \in Seq(Inside(type, J))
      BY <3>1, <3>3
    <3>6. Read(<<element(s).json>> \o others.json, others.rest) \in V
      BY <3>3, <3>5, OutcomeForms
    <3>7. Read(<<element(s).json>> \o others.json, others.rest).rest = others.rest
      BY DEF Read
    <3>8. ASSUME \A t \in Text : Len(t) < Len(s) /\ g[t].ok => Len(g[t].rest) <= Len(t)
          PROVE  Len(others.rest) <= Len(s)
      <4>1. Len(others.rest) <= Len(next(s))
        BY <3>1, <3>8, <2>3 DEF others
      <4> QED
        BY <4>1, <3>1, <3>3, TextLength
    <3> QED
      BY <3>4, <3>6, <3>7, <3>8
  <2>4. CASE /\ element(s).ok /\ ~Closed(next(s), type)
             /\ ~(comma(s) /\ others.ok)
    <3>1. Round(g, s) = Failure
      BY <2>4, <1>r
    <3> QED
      BY <3>1, OutcomeForms
  <2> QED
    BY <2>1, <2>2, <2>3, <2>4
<1>2. ASSUME NEW g, NEW h, NEW s \in Text,
             \A t \in Text : Len(t) < Len(s) => g[t] = h[t]
      PROVE  Round(g, s) = Round(h, s)
  <2>1. CASE element(s).ok /\ comma(s)
    <3>1. g[next(s)] = h[next(s)]
      BY <2>1, <1>0, <1>2
    <3> QED
      BY <3>1, <1>r
  <2>2. CASE ~(element(s).ok /\ comma(s))
    BY <2>2, <1>r
  <2> QED
    BY <2>1, <2>2
<1>3. step \in [[Text -> V] \X Text -> V]
  BY <1>1
<1>4. UsesLesser(Text, V, Length, step)
  BY <1>2, LengthRank DEF UsesLesser
<1>5. \E f : f = [s \in Text |-> Round(f, s)]
  <2>1. PICK f \in [Text -> V] : f = [s \in Text |-> step[<<f, s>>]]
    <3>1. V # {}
      BY OutcomeForms
    <3> HIDE DEF step, V
    <3>2. Recursion(Text, V, step)
      BY <3>1, <1>3, <1>4, LengthRank, RecursionOnRank
    <3> QED
      BY <3>2 DEF Recursion
  <2>2. \A s \in Text : step[<<f, s>>] = Round(f, s)
    OBVIOUS
  <2> HIDE DEF step, V
  <2>3. f = [s \in Text |-> Round(f, s)]
    BY <2>1, <2>2
  <2> QED
    BY <2>3
<1> DEFINE elements == Elements(type, value)
<1>6. elements = [s \in Text |-> Round(elements, s)]
  BY <1>5, Zenon DEF Elements, Round, Round_elements, Continued, Element
<1> HIDE DEF elements
<1>7. \A text \in Text : elements[text] = Round(elements, text)
  BY <1>6
<1>8. Text \subseteq {s \in Text : elements[s] \in V /\ (elements[s].ok
            => Len(elements[s].rest) <= Len(s))}
  <2> DEFINE T == {s \in Text : elements[s] \in V /\ (elements[s].ok
        => Len(elements[s].rest) <= Len(s))}
  <2>1. \A s \in Text : (\A t \in Text : Len(t) < Len(s) => t \in T) => s \in T
    BY <1>1, <1>7
  <2> HIDE DEF T
  <2>2. Text \subseteq T
    BY <2>1, TextInduction
  <2> QED
    BY <2>2 DEF T
<1>9. elements \in [Text -> V] /\ Advances(elements)
  BY <1>6, <1>8 DEF Advances
<1> QED
  BY <1>7, <1>9 DEF elements, Round

\* The containers with such elements.
Containers(type, J) ==
    [type : {type}, of : {elements \in Seq(Inside(type, J)) :
                             type = "object" => Distinct(elements)}]

\* parse_object_value and parse_array_value give containers of what they read inside.
LEMMA ContainerRead ==
    ASSUME NEW J, NEW value \in [Text -> Outcome(J)], Advances(value), NEW type,
           NEW text \in Text, text # <<>>
    PROVE  /\ Container(type, value, text) \in Outcome(Containers(type, J))
           /\ Container(type, value, text).ok =>
                 Len(Container(type, value, text).rest) < Len(text)
<1> DEFINE first == Skipped[Tail(text)]
           elements == Elements(type, value)[first]
<1>1. Tail(text) \in Text /\ Len(Tail(text)) < Len(text)
  BY TailShorter
<1>2. first \in Text /\ Len(first) <= Len(Tail(text))
  BY <1>1, SkippedPasses
<1>3. /\ elements \in Outcome(Seq(Inside(type, J)))
      /\ elements.ok => Len(elements.rest) <= Len(first)
  BY <1>2, ElementsValue DEF Advances
<1>4. CASE Begins(first, {Close(type)})
  <2>1. Tail(first) \in Text /\ Len(Tail(first)) < Len(first)
    BY <1>2, <1>4, TailShorter DEF Begins
  <2>2. Container(type, value, text) = Read([type |-> type, of |-> <<>>], Tail(first))
    BY <1>4 DEF Container
  <2>3. [type |-> type, of |-> <<>>] \in Containers(type, J)
    BY DEF Containers, Distinct
  <2> HIDE DEF first
  <2>4. Container(type, value, text).rest = Tail(first)
    BY <2>2 DEF Read
  <2>5. Len(Tail(first)) < Len(text)
    BY <1>1, <1>2, <2>1, TextLength
  <2>6. Container(type, value, text) \in Outcome(Containers(type, J))
    BY <2>1, <2>2, <2>3, OutcomeForms
  <2> QED
    BY <2>4, <2>5, <2>6
<1>5. CASE /\ ~Begins(first, {Close(type)})
           /\ elements.ok /\ (type = "object" => Distinct(elements.json))
  <2>1. elements.json \in Seq(Inside(type, J)) /\ elements.rest \in Text
    BY <1>3, <1>5, OutcomeParts
  <2>2. Container(type, value, text)
           = Read([type |-> type, of |-> elements.json], elements.rest)
    BY <1>5 DEF Container
  <2> HIDE DEF elements, first
  <2>3. [type |-> type, of |-> elements.json] \in Containers(type, J)
    BY <2>1, <1>5 DEF Containers
  <2>4. Container(type, value, text).rest = elements.rest
    BY <2>2 DEF Read
  <2>5. Len(elements.rest) < Len(text)
    BY <1>1, <1>2, <1>3, <1>5, <2>1, TextLength
  <2>6. Container(type, value, text) \in Outcome(Containers(type, J))
    BY <2>1, <2>2, <2>3, OutcomeForms
  <2> QED
    BY <2>4, <2>5, <2>6
<1>6. CASE /\ ~Begins(first, {Close(type)})
           /\ ~(elements.ok /\ (type = "object" => Distinct(elements.json)))
  <2>1. Container(type, value, text) = Failure
    BY <1>6 DEF Container
  <2> QED
    BY <2>1, OutcomeForms
<1> QED
  BY <1>4, <1>5, <1>6

Nothing == [start \in Text |-> Failure]

\* Below MAX_NESTING nothing is read, whatever parse_value reads one deeper.
LEMMA NothingTooDeep ==
    ASSUME NEW nesting, TooDeep(nesting), NEW inner
    PROVE  Nested(nesting, inner) = Nothing
<1>1. ASSUME NEW start \in Text
      PROVE  Nested(nesting, inner)[start] = Failure
  BY TooDeep(nesting) DEF Nested
<1> QED
  BY <1>1 DEF Nested, Nothing

\* parse_value calls itself one level deeper, down to where nothing is read any more.
LEMMA ParseValueEquation ==
    \A n \in Nat : parse_value[n] = Nested(n, parse_value[n + 1])
<1> DEFINE LeftFrom(k, g) ==
              /\ DOMAIN g = Nat
              /\ \A n \in Nat : n >= MaxNesting + 1 - k => g[n] = Nested(n, g[n + 1])
           T == {k \in Nat : ~\E g : LeftFrom(k, g) /\ g = [n \in Nat |-> g[n]]}
<1>0. MaxNesting \in Nat
  BY NestingAssumption
<1>1. T = {}
  <2>1. SUFFICES ASSUME T # {} PROVE FALSE
    OBVIOUS
  <2>2. PICK k \in T : \A l \in T : k <= l
    BY <2>1, LeastNatural
  <2>3. CASE k = 0
    <3> DEFINE g == [n \in Nat |-> Nothing]
    <3>1. ASSUME NEW n \in Nat, n >= MaxNesting + 1 - k
          PROVE  g[n] = Nested(n, g[n + 1])
      <4>1. TooDeep(n)
        BY <1>0, <2>3, <3>1 DEF TooDeep
      <4> QED
        BY <4>1, NothingTooDeep
    <3>2. LeftFrom(k, g)
      BY <3>1
    <3>3. g = [n \in Nat |-> g[n]]
      OBVIOUS
    <3> QED
      BY <2>2, <3>2, <3>3
  <2>4. CASE k # 0
    <3>1. k - 1 \in Nat /\ ~(k <= k - 1)
      BY <2>4
    <3>2. PICK g : LeftFrom(k - 1, g)
      BY <3>1, <2>2
    <3> DEFINE h == [n \in Nat |-> Nested(n, g[n + 1])]
    <3>3. ASSUME NEW n \in Nat, n >= MaxNesting + 1 - k
          PROVE  h[n] = Nested(n, h[n + 1])
      <4>1. n + 1 \in Nat /\ n + 1 >= MaxNesting + 1 - (k - 1)
        BY <1>0, <3>1, <3>3
      <4>2. g[n + 1] = Nested(n + 1, g[n + 1 + 1])
        BY <3>2, <4>1
      <4>3. h[n + 1] = g[n + 1]
        BY <4>1, <4>2
      <4> QED
        BY <4>3
    <3>4. LeftFrom(k, h)
      <4> HIDE DEF h
      <4>1. DOMAIN h = Nat
        BY DEF h
      <4> QED
        BY <3>3, <4>1
    <3>5. h = [n \in Nat |-> h[n]]
      OBVIOUS
    <3> HIDE DEF h
    <3> QED
      BY <2>2, <3>4, <3>5
  <2> QED
    BY <2>3, <2>4
<1>2. PICK g : LeftFrom(MaxNesting + 1, g) /\ g = [n \in Nat |-> g[n]]
  <2>1. MaxNesting + 1 \in Nat
    BY <1>0
  <2> QED
    BY <1>1, <2>1
<1>3. \A n \in Nat : g[n] = Nested(n, g[n + 1])
  BY <1>0, <1>2
<1>4. \E f : f = [n \in Nat |-> Nested(n, f[n + 1])]
  <2>1. g = [n \in Nat |-> Nested(n, g[n + 1])]
    BY <1>2, <1>3
  <2> QED
    BY <2>1
<1>5. parse_value = [n \in Nat |-> Nested(n, parse_value[n + 1])]
  BY <1>4, Zenon DEF parse_value
<1> QED
  BY <1>5

\* What stands inside the values of so many levels.
Inner(valid, levels) == IF levels = 0 THEN {} ELSE Json(valid)[levels - 1]

\* The values of so many levels are made of those of one level less.
LEMMA JsonEquation ==
    ASSUME NEW valid
    PROVE  \A n \in Nat : Json(valid)[n] = Made(valid, Inner(valid, n))
<1> DEFINE Round(g, n) == Made(valid, IF n = 0 THEN {} ELSE g[n - 1])
           UpTo(n, g) == \A k \in Nat : k <= n => g[k] = Round(g, k)
<1>1. ASSUME NEW g, NEW h, NEW n \in Nat, g[n] = h[n]
      PROVE  Round(g, n + 1) = Round(h, n + 1)
  BY <1>1
<1>2. ASSUME NEW g, NEW h PROVE Round(g, 0) = Round(h, 0)
  OBVIOUS
<1> HIDE DEF Round
<1>3. ASSUME NEW n \in Nat, NEW g, NEW h, NEW m \in Nat, UpTo(n, g), UpTo(m, h)
      PROVE  \A k \in Nat : k <= n /\ k <= m => g[k] = h[k]
  <2> DEFINE T == {k \in Nat : k <= n /\ k <= m /\ g[k] # h[k]}
  <2>1. SUFFICES ASSUME T # {} PROVE FALSE
    OBVIOUS
  <2>2. PICK k \in T : \A l \in T : k <= l
    BY <2>1, LeastNatural
  <2>3. g[k] = Round(g, k) /\ h[k] = Round(h, k) /\ k \in Nat /\ k <= n /\ k <= m
    BY <2>2, <1>3
  <2>4. CASE k = 0
    BY <2>2, <2>3, <2>4, <1>2
  <2>5. CASE k # 0
    <3>1. k - 1 \in Nat /\ ~(k <= k - 1) /\ k - 1 <= n /\ k - 1 <= m /\ k - 1 + 1 = k
      BY <2>3, <2>5
    <3>2. g[k - 1] = h[k - 1]
      BY <3>1, <2>2
    <3>3. Round(g, k - 1 + 1) = Round(h, k - 1 + 1)
      BY <3>1, <3>2, <1>1
    <3> QED
      BY <3>1, <3>3, <2>2, <2>3
  <2> QED
    BY <2>4, <2>5
<1>4. \A n \in Nat : \E g : UpTo(n, g)
  <2> DEFINE T == {n \in Nat : ~\E g : UpTo(n, g)}
  <2>1. SUFFICES ASSUME T # {} PROVE FALSE
    OBVIOUS
  <2>2. PICK n \in T : \A l \in T : n <= l
    BY <2>1, LeastNatural
  <2>3. PICK g : n > 0 => UpTo(n - 1, g)
    <3>1. CASE n = 0
      <4>1. ~(n > 0)
        BY <3>1
      <4> QED
        BY <4>1
    <3>2. CASE n # 0
      <4>1. n - 1 \in Nat /\ ~(n <= n - 1)
        BY <3>2
      <4>2. n - 1 \notin T
        BY <4>1, <2>2
      <4> QED
        BY <4>1, <4>2
    <3> QED
      BY <3>1, <3>2
  <2> DEFINE h == [k \in Nat |-> Round(g, k)]
  <2>4. ASSUME NEW k \in Nat, k <= n PROVE h[k] = Round(h, k)
    <3>1. CASE k = 0
      BY <3>1, <1>2
    <3>2. CASE k # 0
      <4>1. k - 1 \in Nat /\ n > 0 /\ k - 1 <= n - 1 /\ k - 1 + 1 = k
        BY <3>2, <2>4
      <4>2. h[k - 1] = g[k - 1]
        BY <4>1, <2>3
      <4>3. h[k] = Round(g, k)
        OBVIOUS
      <4> HIDE DEF h
      <4> QED
        BY <4>1, <4>2, <4>3, <1>1
    <3> QED
      BY <3>1, <3>2
  <2> HIDE DEF h
  <2>5. UpTo(n, h)
    BY <2>4
  <2> QED
    BY <2>2, <2>5
<1> DEFINE G(n) == CHOOSE g : UpTo(n, g)
           f == [n \in Nat |-> G(n)[n]]
<1>5. \A n \in Nat : UpTo(n, G(n))
  <2> HIDE DEF UpTo
  <2> QED
    BY <1>4
<1> HIDE DEF G
<1>6. ASSUME NEW n \in Nat PROVE f[n] = Round(f, n)
  <2>1. G(n)[n] = Round(G(n), n)
    BY <1>5
  <2>2. CASE n = 0
    BY <2>1, <2>2, <1>2
  <2>3. CASE n # 0
    <3>1. n - 1 \in Nat /\ n - 1 <= n /\ n - 1 <= n - 1 /\ n - 1 + 1 = n
      BY <2>3
    <3>2. UpTo(n, G(n)) /\ UpTo(n - 1, G(n - 1))
      BY <1>5, <3>1
    <3>3. G(n)[n - 1] = G(n - 1)[n - 1]
      <4> HIDE DEF UpTo
      <4> QED
        BY <3>1, <3>2, <1>3
    <3>4. f[n - 1] = G(n)[n - 1] /\ f[n] = G(n)[n]
      BY <3>1, <3>3
    <3> HIDE DEF f
    <3>5. Round(f, n - 1 + 1) = Round(G(n), n - 1 + 1)
      BY <3>1, <3>4, <1>1
    <3> QED
      BY <2>1, <3>1, <3>4, <3>5
  <2> QED
    BY <2>2, <2>3
<1>7. \E fn : fn = [n \in Nat |-> Round(fn, n)]
  <2>1. f = [n \in Nat |-> Round(f, n)]
    <3>1. f = [n \in Nat |-> f[n]]
      OBVIOUS
    <3> HIDE DEF f
    <3> QED
      BY <3>1, <1>6
  <2> QED
    BY <2>1
<1> DEFINE json == Json(valid)
<1>8. json = [n \in Nat |-> Round(json, n)]
  BY <1>7, Zenon DEF Json, Round
<1>9. \A n \in Nat : json[n] = Round(json, n)
  BY <1>8
<1> QED
  BY <1>9 DEF Inner, Round

\* Sequences of more elements.
LEMMA SequencesGrow ==
    ASSUME NEW S, NEW T, S \subseteq T
    PROVE  Seq(S) \subseteq Seq(T)
OBVIOUS

\* Values of values of a larger set, under fewer rules.
LEMMA MadeGrows ==
    ASSUME NEW strict \in BOOLEAN, NEW valid \in BOOLEAN, valid => strict,
           NEW S, NEW T, S \subseteq T
    PROVE  Made(strict, S) \subseteq Made(valid, T)
<1> DEFINE Name(v) == Seq(IF v THEN Char \ {Nul} ELSE Char)
           Fields(v, J) == {fields \in Seq([name : Name(v), value : J]) : v
                 => Distinct(fields)}
<1>1. Seq(S) \subseteq Seq(T)
  BY SequencesGrow
<1>2. Name(strict) \subseteq Name(valid)
  <2>1. (IF strict THEN Char \ {Nul} ELSE Char) \subseteq (IF valid THEN Char \ {Nul} ELSE Char)
    OBVIOUS
  <2> QED
    BY <2>1, SequencesGrow
<1>3. [name : Name(strict), value : S] \subseteq [name : Name(valid), value : T]
  <2> HIDE DEF Name
  <2> QED
    BY <1>2
<1>4. Seq([name : Name(strict), value : S]) \subseteq Seq([name : Name(valid), value : T])
  <2> HIDE DEF Name
  <2> QED
    BY <1>3, SequencesGrow
<1>5. Fields(strict, S) \subseteq Fields(valid, T)
  <2> HIDE DEF Name
  <2> QED
    BY <1>4
<1> HIDE DEF Fields
<1>6. [type : {"array"}, of : Seq(S)] \subseteq [type : {"array"}, of : Seq(T)]
  BY <1>1
<1>7. [type : {"object"}, of : Fields(strict, S)] \subseteq [type : {"object"},
            of : Fields(valid, T)]
  BY <1>5
<1> DEFINE Plain == [type : {"literal"}, of : {<<literal>> : literal \in Literals}]
                    \cup [type : {"number"}, of : Decimals]
                    \cup [type : {"string"}, of : Seq(Char)]
           Arrays(J) == [type : {"array"}, of : Seq(J)]
           Objects(v, J) == [type : {"object"}, of : Fields(v, J)]
<1>8. \A v, J : Made(v, J) = Plain \cup Arrays(J) \cup Objects(v, J)
  BY Zenon DEF Made, Fields, Name
<1>9. Arrays(S) \subseteq Arrays(T) /\ Objects(strict, S) \subseteq Objects(valid, T)
  BY <1>6, <1>7
<1> HIDE DEF Plain, Arrays, Objects
<1> QED
  BY <1>8, <1>9

\* One more level, or one rule less, loses no value inside.
LEMMA InnerGrows ==
    ASSUME NEW strict \in BOOLEAN, NEW valid \in BOOLEAN, valid => strict
    PROVE  \A n \in Nat : /\ Inner(strict, n) \subseteq Inner(valid, n + 1)
                          /\ Inner(strict, n) \subseteq Inner(valid, n)
<1> DEFINE Good(n) == /\ Inner(strict, n) \subseteq Inner(valid, n + 1)
                      /\ Inner(strict, n) \subseteq Inner(valid, n)
           T == {n \in Nat : ~Good(n)}
<1>1. SUFFICES ASSUME T # {} PROVE FALSE
  OBVIOUS
<1>2. PICK n \in T : \A k \in T : n <= k
  BY <1>1, LeastNatural
<1>3. CASE n = 0
  BY <1>2, <1>3 DEF Inner
<1>4. CASE n # 0
  <2>1. n - 1 \in Nat /\ ~(n <= n - 1) /\ n - 1 + 1 = n /\ n + 1 # 0 /\ n + 1 - 1 = n
              /\ n \in Nat
    BY <1>4
  <2>2. Good(n - 1)
    BY <2>1, <1>2
  <2>3. Inner(strict, n - 1) \subseteq Inner(valid, n)
              /\ Inner(strict, n - 1) \subseteq Inner(valid, n - 1)
    BY <2>1, <2>2
  <2>4. Inner(strict, n) = Made(strict, Inner(strict, n - 1))
    BY <1>4, <2>1, JsonEquation DEF Inner
  <2>5. Inner(valid, n) = Made(valid, Inner(valid, n - 1))
    BY <1>4, <2>1, JsonEquation DEF Inner
  <2>6. Inner(valid, n + 1) = Made(valid, Inner(valid, n))
    BY <2>1, JsonEquation DEF Inner
  <2>7. Inner(strict, n) \subseteq Inner(valid, n + 1)
    BY <2>3, <2>4, <2>6, MadeGrows
  <2>8. Inner(strict, n) \subseteq Inner(valid, n)
    BY <2>3, <2>4, <2>5, MadeGrows
  <2> QED
    BY <2>7, <2>8, <1>2
<1> QED
  BY <1>3, <1>4

\* More levels lose no value, and every valid value is a value.
LEMMA JsonGrows ==
    ASSUME NEW valid \in BOOLEAN, NEW m \in Nat, NEW n \in Nat, m <= n
    PROVE  /\ Inner(valid, m) \subseteq Inner(valid, n)
           /\ Json(valid)[m] \subseteq Json(valid)[n]
           /\ Json(TRUE)[n] \subseteq Json(FALSE)[n]
           /\ Inner(valid, n) \subseteq Json(valid)[n]
<1>1. Inner(valid, m) \subseteq Inner(valid, n)
  <2> DEFINE T == {k \in Nat : m <= k /\ ~(Inner(valid, m) \subseteq Inner(valid, k))}
  <2>1. SUFFICES ASSUME T # {} PROVE FALSE
    OBVIOUS
  <2>2. PICK k \in T : \A l \in T : k <= l
    BY <2>1, LeastNatural
  <2>3. k # m
    BY <2>2
  <2>4. k - 1 \in Nat /\ m <= k - 1 /\ ~(k <= k - 1) /\ k - 1 + 1 = k
    BY <2>2, <2>3
  <2>5. Inner(valid, m) \subseteq Inner(valid, k - 1)
    BY <2>2, <2>4
  <2>6. Inner(valid, k - 1) \subseteq Inner(valid, k - 1 + 1)
    BY <2>4, InnerGrows
  <2> QED
    BY <2>2, <2>4, <2>5, <2>6
<1>2. Json(valid)[m] \subseteq Json(valid)[n]
  BY <1>1, JsonEquation, MadeGrows
<1>3. Json(TRUE)[n] \subseteq Json(FALSE)[n]
  <2>1. Inner(TRUE, n) \subseteq Inner(FALSE, n)
    BY InnerGrows
  <2>2. Json(TRUE)[n] = Made(TRUE, Inner(TRUE, n))
              /\ Json(FALSE)[n] = Made(FALSE, Inner(FALSE, n))
    <3>1. TRUE \in BOOLEAN /\ FALSE \in BOOLEAN
      OBVIOUS
    <3> QED
      BY JsonEquation
  <2>3. ASSUME NEW strict \in BOOLEAN, NEW lax \in BOOLEAN, strict = TRUE, lax = FALSE
        PROVE  Made(strict, Inner(strict, n)) \subseteq Made(lax, Inner(lax, n))
    <3>1. Inner(strict, n) \subseteq Inner(lax, n)
      BY <2>1, <2>3
    <3>2. lax => strict
      BY <2>3
    <3> QED
      BY <3>1, <3>2, MadeGrows
  <2> QED
    BY <2>2, <2>3
<1>4. Inner(valid, n) \subseteq Inner(valid, n + 1)
  BY InnerGrows
<1>5. Inner(valid, n + 1) = Json(valid)[n]
  BY DEF Inner
<1> QED
  BY <1>1, <1>2, <1>3, <1>4, <1>5

\* What parse_value may read at one depth: values that are valid and that do not nest
\* deeper than what is left of MAX_NESTING.
Left(nesting) == IF nesting > MaxNesting THEN {} ELSE Json(TRUE)[MaxNesting - nesting]

\* A string that is read is a valid value.
LEMMA StringValueRead ==
    ASSUME NEW text \in Text, NEW J
    PROVE  /\ parse_string_value(text) \in Outcome(Made(TRUE, J))
           /\ parse_string_value(text).ok => Len(parse_string_value(text).rest) < Len(text)
<1> DEFINE read == get_quoted_string(text)
           string == [type |-> "string", of |-> read.json]
<1>1. CASE read.ok
  <2>1. read.json \in Seq(Char) /\ read.rest \in Text /\ Len(read.rest) < Len(text)
    BY <1>1, QuotedStringRead, OutcomeParts
  <2>2. string \in Made(TRUE, J)
    BY <2>1 DEF Made
  <2>3. parse_string_value(text) = Read(string, read.rest)
    BY <1>1 DEF parse_string_value
  <2> HIDE DEF string, read
  <2>4. parse_string_value(text).rest = read.rest
    BY <2>3 DEF Read
  <2>5. Read(string, read.rest) \in Outcome(Made(TRUE, J))
    BY <2>1, <2>2, OutcomeForms
  <2> QED
    BY <2>1, <2>3, <2>4, <2>5
<1>2. CASE ~read.ok
  <2>1. parse_string_value(text) = Failure
    BY <1>2 DEF parse_string_value
  <2> QED
    BY <2>1, OutcomeForms
<1> QED
  BY <1>1, <1>2

\* So is a literal.
LEMMA LiteralValueRead ==
    ASSUME NEW text \in Text, Begins(text, Literals), NEW J
    PROVE  /\ parse_literal_value(text) \in Outcome(Made(TRUE, J))
           /\ parse_literal_value(text).ok => Len(parse_literal_value(text).rest) < Len(text)
<1> DEFINE literal == [type |-> "literal", of |-> <<Head(text)>>]
<1>1. Tail(text) \in Text /\ Len(Tail(text)) < Len(text) /\ Head(text) \in Literals
  BY TailShorter DEF Begins
<1>2. literal \in Made(TRUE, J)
  BY <1>1 DEF Made
<1>3. parse_literal_value(text) = Read(literal, Tail(text))
  BY DEF parse_literal_value
<1> HIDE DEF literal
<1>4. parse_literal_value(text).rest = Tail(text)
  BY <1>3 DEF Read
<1>5. Read(literal, Tail(text)) \in Outcome(Made(TRUE, J))
  BY <1>1, <1>2, OutcomeForms
<1> QED
  BY <1>1, <1>3, <1>4, <1>5

\* strtod takes what is a numeral when nothing longer is one.
LEMMA TakenIs ==
    ASSUME NEW text \in Text, NEW n \in 0..Len(text),
           n # 0 => SubSeq(text, 1, n) \in Numerals,
           \A k \in 1..Len(text) : SubSeq(text, 1, k) \in Numerals => k <= n
    PROVE  Taken(text) = n
<1> DEFINE places == {0} \cup {k \in 1..Len(text) : SubSeq(text, 1, k) \in Numerals}
<1>1. Len(text) \in Nat
  BY TextLength
<1>2. places \subseteq Nat /\ n \in places /\ \A k \in places : n >= k
  BY <1>1
<1>3. Taken(text) = Max(places)
  BY DEF Taken
<1> HIDE DEF places
<1>4. \A k \in places : (\A l \in places : k >= l) => k = n
  BY <1>2
<1> QED
  BY <1>2, <1>3, <1>4 DEF Max

\* It takes the longest numeral, or nothing.
LEMMA TakenNumeral ==
    ASSUME NEW text \in Text
    PROVE  /\ Taken(text) \in 0..Len(text)
           /\ Taken(text) # 0 => SubSeq(text, 1, Taken(text)) \in Numerals
           /\ \A k \in 1..Len(text) :
                 SubSeq(text, 1, k) \in Numerals => k <= Taken(text)
<1> DEFINE Takes(k) == k = 0 \/ SubSeq(text, 1, k) \in Numerals
           lefts == {l \in 0..Len(text) : Takes(Len(text) - l)}
<1>1. Len(text) \in Nat
  BY TextLength
<1>2. lefts \subseteq Nat /\ Len(text) \in lefts
  BY <1>1
<1>3. PICK l \in lefts : \A other \in lefts : l <= other
  <2> HIDE DEF lefts
  <2> QED
    BY <1>2, LeastNatural
<1> DEFINE n == Len(text) - l
<1>4. n \in 0..Len(text) /\ (n # 0 => SubSeq(text, 1, n) \in Numerals)
  BY <1>1, <1>3
<1>5. ASSUME NEW k \in 1..Len(text), SubSeq(text, 1, k) \in Numerals
      PROVE  k <= n
  <2>1. Len(text) - k \in 0..Len(text) /\ Len(text) - (Len(text) - k) = k
    BY <1>1
  <2>2. Len(text) - k \in lefts
    BY <2>1, <1>5
  <2>3. l <= Len(text) - k /\ l \in Nat
    BY <1>2, <1>3, <2>2
  <2> QED
    BY <1>1, <2>3
<1> HIDE DEF n
<1>6. Taken(text) = n
  BY <1>4, <1>5, TakenIs
<1> QED
  BY <1>4, <1>5, <1>6

\* What a number's reader takes, and what it makes of it.
NumeralOf(text) == SubSeq(text, 1, Taken(text))
NumberOfText(text) ==
    [type |-> "number",
     of |-> IF Taken(text) = 0 THEN <<"0">> ELSE NumeralOf(text)]

\* The reader of numbers, by what strtod takes.
LEMMA NumberValueIs ==
    ASSUME NEW text \in Text
    PROVE  parse_number_value(text) =
              IF is_decimal(NumeralOf(text)) /\ NumeralOf(text) \notin Huge
              THEN Read(NumberOfText(text), Behind(text, Taken(text)))
              ELSE Failure
<1>1. Taken(text) \in Nat /\ Len(text) \in Nat /\ Taken(text) <= Len(text)
  BY TakenNumeral, TextLength
<1>2. text \in Seq(Piece)
  BY DEF Text
<1>3. Len(NumeralOf(text)) = Taken(text)
  BY <1>1, <1>2 DEF NumeralOf
<1>4. NumeralOf(text) = <<>> <=> Taken(text) = 0
  BY <1>1, <1>2, <1>3 DEF NumeralOf
<1> QED
  BY <1>3, <1>4, Zenon DEF parse_number_value, NumeralOf, NumberOfText

\* A number that is read is a valid value; its reader may take nothing.
LEMMA NumberValueRead ==
    ASSUME NEW text \in Text, Begins(text, Lead), NEW J
    PROVE  /\ parse_number_value(text) \in Outcome(Made(TRUE, J))
           /\ parse_number_value(text).ok => Len(parse_number_value(text).rest) <= Len(text)
<1> DEFINE number == NumberOfText(text)
           rest == Behind(text, Taken(text))
<1>0. /\ Taken(text) \in Nat /\ Len(text) \in Nat /\ Taken(text) <= Len(text)
      /\ text \in Seq(Piece) /\ text # <<>> /\ text[1] \in Lead
  BY TakenNumeral, TextLength DEF Text, Begins
<1>1. CASE is_decimal(NumeralOf(text)) /\ NumeralOf(text) \notin Huge
  <2>1. number.of \in Decimals
    <3>1. CASE Taken(text) = 0
      <4>1. number.of = <<"0">>
        BY <3>1 DEF NumberOfText
      <4>2. is_decimal(<<"0">>)
        BY DEF is_decimal, ToSet
      <4>3. <<"0">> \in Numerals \ Huge /\ Head(<<"0">>) \in Lead
        BY FiguresAssumption DEF Lead
      <4> QED
        BY <4>1, <4>2, <4>3 DEF Decimals
    <3>2. CASE Taken(text) # 0
      <4>1. number.of = NumeralOf(text)
        BY <3>2 DEF NumberOfText
      <4>2. NumeralOf(text) \in Numerals
        BY <3>2, TakenNumeral DEF NumeralOf
      <4>3. Head(NumeralOf(text)) = text[1]
        BY <1>0, <3>2 DEF NumeralOf
      <4> QED
        BY <1>0, <1>1, <4>1, <4>2, <4>3 DEF Decimals
    <3> QED
      BY <3>1, <3>2
  <2>2. number = [type |-> "number", of |-> number.of]
    BY DEF NumberOfText
  <2>3. number \in Made(TRUE, J)
    BY <2>1, <2>2 DEF Made
  <2>4. rest \in Text /\ Len(rest) <= Len(text)
    BY <1>0, BehindText
  <2> HIDE DEF number, rest
  <2>5. parse_number_value(text) = Read(number, rest)
    BY <1>1, NumberValueIs DEF number, rest
  <2>6. parse_number_value(text).rest = rest
    BY <2>5 DEF Read
  <2>7. Read(number, rest) \in Outcome(Made(TRUE, J))
    BY <2>3, <2>4, OutcomeForms
  <2> QED
    BY <2>4, <2>5, <2>6, <2>7
<1>2. CASE ~(is_decimal(NumeralOf(text)) /\ NumeralOf(text) \notin Huge)
  <2>1. parse_number_value(text) = Failure
    BY <1>2, NumberValueIs
  <2> QED
    BY <2>1, OutcomeForms
<1> QED
  BY <1>1, <1>2

\* The containers of valid values are valid values.
LEMMA ContainersMade ==
    ASSUME NEW J, NEW type \in {"array", "object"}
    PROVE  Containers(type, J) \subseteq Made(TRUE, J)
<1>1. CASE type = "array"
  <2>1. Containers(type, J) \subseteq [type : {"array"}, of : Seq(J)]
    BY <1>1 DEF Containers, Inside
  <2> QED
    BY <2>1 DEF Made
<1>2. CASE type = "object"
  <2>1. Containers(type, J)
          \subseteq [type : {"object"},
                     of : {fields \in Seq([name : Seq(Char \ {Nul}), value : J]) :
                              TRUE => Distinct(fields)}]
    BY <1>2 DEF Containers, Inside, FieldOf
  <2> QED
    BY <2>1 DEF Made
<1> QED
  BY <1>1, <1>2

\* Readers of more values.
LEMMA OutcomesGrow ==
    ASSUME NEW S, NEW T, S \subseteq T
    PROVE  Outcome(S) \subseteq Outcome(T)
BY DEF Outcome

\* One depth of parse_value, when the next depth reads what it may.
LEMMA NestedRead ==
    ASSUME NEW n \in Nat, ~TooDeep(n), NEW J, NEW inner \in [Text -> Outcome(J)],
           Advances(inner)
    PROVE  /\ Nested(n, inner) \in [Text -> Outcome(Made(TRUE, J))]
           /\ Advances(Nested(n, inner))
<1> DEFINE Fine(o, start) == /\ o \in Outcome(Made(TRUE, J))
                             /\ o.ok => Len(o.rest) <= Len(start)
<1>1. ASSUME NEW start \in Text
      PROVE  Fine(Nested(n, inner)[start], start)
  <2> DEFINE text == Skipped[start]
  <2>1. text \in Text /\ Len(text) <= Len(start) /\ Len(text) \in Nat /\ Len(start) \in Nat
    BY SkippedPasses, TextLength
  <2>2. ASSUME NEW type \in {"array", "object"}, text # <<>>
        PROVE  Fine(Container(type, inner, text), start)
    <3> DEFINE o == Container(type, inner, text)
    <3> HIDE DEF text
    <3>1. o \in Outcome(Containers(type, J)) /\ (o.ok => Len(o.rest) < Len(text))
      BY <2>1, <2>2, ContainerRead
    <3>2. o \in Outcome(Made(TRUE, J))
      BY <3>1, ContainersMade, OutcomesGrow
    <3>3. o.ok => o.rest \in Text
      BY <3>2, OutcomeParts
    <3> HIDE DEF o
    <3>4. o.ok => Len(o.rest) <= Len(start)
      BY <2>1, <3>1, <3>3, TextLength
    <3> QED
      BY <3>2, <3>4 DEF o
  <2>3. Fine(parse_string_value(text), start)
    <3> DEFINE o == parse_string_value(text)
    <3> HIDE DEF text
    <3>1. o \in Outcome(Made(TRUE, J)) /\ (o.ok => Len(o.rest) < Len(text))
      BY <2>1, StringValueRead
    <3>2. o.ok => o.rest \in Text
      BY <3>1, OutcomeParts
    <3> HIDE DEF o
    <3>3. o.ok => Len(o.rest) <= Len(start)
      BY <2>1, <3>1, <3>2, TextLength
    <3> QED
      BY <3>1, <3>3 DEF o
  <2>4. ASSUME Begins(text, Literals) PROVE Fine(parse_literal_value(text), start)
    <3> DEFINE o == parse_literal_value(text)
    <3> HIDE DEF text
    <3>1. o \in Outcome(Made(TRUE, J)) /\ (o.ok => Len(o.rest) < Len(text))
      BY <2>1, <2>4, LiteralValueRead
    <3>2. o.ok => o.rest \in Text
      BY <3>1, OutcomeParts
    <3> HIDE DEF o
    <3>3. o.ok => Len(o.rest) <= Len(start)
      BY <2>1, <3>1, <3>2, TextLength
    <3> QED
      BY <3>1, <3>3 DEF o
  <2>9. ASSUME Begins(text, Lead) PROVE Fine(parse_number_value(text), start)
    <3> DEFINE o == parse_number_value(text)
    <3> HIDE DEF text
    <3>1. o \in Outcome(Made(TRUE, J)) /\ (o.ok => Len(o.rest) <= Len(text))
      BY <2>1, <2>9, NumberValueRead
    <3>2. o.ok => o.rest \in Text
      BY <3>1, OutcomeParts
    <3> HIDE DEF o
    <3>3. o.ok => Len(o.rest) <= Len(start)
      BY <2>1, <3>1, <3>2, TextLength
    <3> QED
      BY <3>1, <3>3 DEF o
  <2>5. Fine(Failure, start)
    BY OutcomeForms
  <2>6. Begins(text, {"{"}) => text # <<>>
    BY DEF Begins
  <2>7. Begins(text, {"["}) => text # <<>>
    BY DEF Begins
  <2>8. Nested(n, inner)[start] =
           CASE TooDeep(n) -> Failure
             [] ~TooDeep(n) /\ Begins(text, {"{"}) -> Container("object", inner, text)
             [] ~TooDeep(n) /\ Begins(text, {"["}) -> Container("array", inner, text)
             [] ~TooDeep(n) /\ Begins(text, {Quote}) -> parse_string_value(text)
             [] ~TooDeep(n) /\ Begins(text, Literals) -> parse_literal_value(text)
             [] ~TooDeep(n) /\ Begins(text, Lead) -> parse_number_value(text)
             [] OTHER -> Failure
    BY Zenon DEF Nested
  <2> HIDE DEF Fine, text
  <2> QED
    BY <2>2, <2>3, <2>4, <2>5, <2>6, <2>7, <2>8, <2>9
<1>2. Nested(n, inner) = [start \in Text |-> Nested(n, inner)[start]]
  BY DEF Nested
<1> QED
  BY <1>1, <1>2 DEF Advances

\* What holds too deep, and at each depth when it holds one deeper, holds everywhere.
LEMMA DepthInduction ==
    ASSUME NEW T, \A n \in Nat : TooDeep(n) \/ n + 1 \in T => n \in T
    PROVE  Nat \subseteq T
<1>0. MaxNesting \in Nat
  BY NestingAssumption
<1> DEFINE Low == {k \in Nat : k <= MaxNesting + 1 /\ MaxNesting + 1 - k \notin T}
<1>1. Low = {}
  <2>1. SUFFICES ASSUME Low # {} PROVE FALSE
    OBVIOUS
  <2>2. PICK k \in Low : \A l \in Low : k <= l
    BY <2>1, LeastNatural
  <2>3. k # 0
    <3>1. TooDeep(MaxNesting + 1) /\ MaxNesting + 1 \in Nat
                /\ MaxNesting + 1 - 0 = MaxNesting + 1
      BY <1>0 DEF TooDeep
    <3> QED
      BY <2>2, <3>1
  <2>4. k - 1 \in Nat /\ ~(k <= k - 1) /\ k - 1 <= MaxNesting + 1
    BY <1>0, <2>2, <2>3
  <2>5. MaxNesting + 1 - (k - 1) \in T
    BY <2>2, <2>4
  <2>6. MaxNesting + 1 - k \in Nat /\ MaxNesting + 1 - (k - 1) = MaxNesting + 1 - k + 1
    BY <1>0, <2>2, <2>3
  <2>7. MaxNesting + 1 - k \in T
    BY <2>5, <2>6
  <2> QED
    BY <2>2, <2>7
<1>2. ASSUME NEW n \in Nat PROVE n \in T
  <2>1. CASE TooDeep(n)
    BY <2>1
  <2>2. CASE ~TooDeep(n)
    <3>1. /\ MaxNesting + 1 - n \in Nat /\ MaxNesting + 1 - n <= MaxNesting + 1
          /\ MaxNesting + 1 - (MaxNesting + 1 - n) = n
      BY <1>0, <2>2 DEF TooDeep
    <3> QED
      BY <3>1, <1>1
  <2> QED
    BY <2>1, <2>2
<1> QED
  BY <1>2

\* The values that may begin at one depth are made of those that may begin one deeper.
LEMMA LeftMade ==
    ASSUME NEW n \in Nat
    PROVE  /\ ~TooDeep(n) => Left(n) = Made(TRUE, Left(n + 1))
           /\ TooDeep(n) => Left(n) = {}
<1>0. MaxNesting \in Nat
  BY NestingAssumption
<1>1. TooDeep(n) => Left(n) = {}
  BY DEF TooDeep, Left
<1>2. ASSUME ~TooDeep(n)
      PROVE  Left(n) = Made(TRUE, Left(n + 1))
  <2>1. n <= MaxNesting
    BY <1>0, <1>2 DEF TooDeep
  <2>2. MaxNesting - n \in Nat
    BY <1>0, <2>1
  <2>3. Left(n + 1) = Inner(TRUE, MaxNesting - n)
    <3>1. CASE n = MaxNesting
      <4>1. n + 1 > MaxNesting /\ MaxNesting - n = 0
        BY <1>0, <3>1
      <4> QED
        BY <4>1 DEF Left, Inner
    <3>2. CASE n # MaxNesting
      <4>1. ~(n + 1 > MaxNesting) /\ MaxNesting - n # 0
            /\ MaxNesting - (n + 1) = MaxNesting - n - 1
        BY <1>0, <2>1, <3>2
      <4> QED
        BY <4>1 DEF Left, Inner
    <3> QED
      BY <3>1, <3>2
  <2>4. ~(n > MaxNesting)
    BY <1>0, <2>1
  <2> QED
    BY <2>2, <2>3, <2>4, JsonEquation DEF Left
<1> QED
  BY <1>1, <1>2

\* At every depth the parser reads valid values that nest no deeper than is left.
LEMMA ParseValueRead ==
    ASSUME NEW n \in Nat
    PROVE  /\ parse_value[n] \in [Text -> Outcome(Left(n))]
           /\ Advances(parse_value[n])
           /\ TooDeep(n) => parse_value[n] = Nothing
<1> DEFINE Good(m) == /\ parse_value[m] \in [Text -> Outcome(Left(m))]
                      /\ Advances(parse_value[m])
<1>0. MaxNesting \in Nat
  BY NestingAssumption
<1>1. ASSUME NEW m \in Nat, TooDeep(m)
      PROVE  Good(m) /\ parse_value[m] = Nothing
  <2>1. parse_value[m] = Nothing
    BY <1>1, ParseValueEquation, NothingTooDeep
  <2>2. Nothing \in [Text -> Outcome(Left(m))]
    BY OutcomeForms DEF Nothing
  <2>3. Advances(Nothing)
    BY OutcomeForms DEF Nothing, Advances
  <2> QED
    BY <2>1, <2>2, <2>3
<1>2. ASSUME NEW m \in Nat, ~TooDeep(m), Good(m + 1)
      PROVE  Good(m)
  <2>2. /\ parse_value[m] \in [Text -> Outcome(Made(TRUE, Left(m + 1)))]
        /\ Advances(parse_value[m])
    <3>1. parse_value[m] = Nested(m, parse_value[m + 1])
      BY ParseValueEquation
    <3>2. m + 1 \in Nat
      OBVIOUS
    <3>3. parse_value[m + 1] \in [Text -> Outcome(Left(m + 1))]
                /\ Advances(parse_value[m + 1])
      BY <1>2
    <3> DEFINE left == Left(m + 1)
               inner == parse_value[m + 1]
    <3>4. inner \in [Text -> Outcome(left)] /\ Advances(inner)
      BY <3>3
    <3> HIDE DEF left, inner
    <3>5. /\ Nested(m, inner) \in [Text -> Outcome(Made(TRUE, left))]
          /\ Advances(Nested(m, inner))
      BY <1>2, <3>4, NestedRead
    <3> QED
      BY <3>1, <3>5 DEF left, inner
  <2>3. Left(m) = Made(TRUE, Left(m + 1))
    BY <1>2, LeftMade
  <2> QED
    BY <2>2, <2>3
<1> HIDE DEF Good
<1> DEFINE T == {m \in Nat : Good(m) /\ (TooDeep(m) => parse_value[m] = Nothing)}
<1>3. \A m \in Nat : TooDeep(m) \/ m + 1 \in T => m \in T
  BY <1>1, <1>2
<1> HIDE DEF T
<1>4. Nat \subseteq T
  BY <1>3, DepthInduction
<1> QED
  BY <1>4 DEF T, Good

\* What json_parse_string reads keeps the limits of parson.
THEOREM ReadIsWellFormed ==
    \A text \in Text : /\ json_parse_string(text) \in Outcome(Json(TRUE)[MaxNesting])
                       /\ json_parse_string(text).ok
                                => WellFormed(json_parse_string(text).json)
<1>1. MaxNesting \in Nat /\ 0 \in Nat /\ ~(0 > MaxNesting) /\ MaxNesting - 0 = MaxNesting
  BY NestingAssumption
<1>2. Left(0) = Json(TRUE)[MaxNesting]
  BY <1>1 DEF Left
<1>3. parse_value[0] \in [Text -> Outcome(Json(TRUE)[MaxNesting])]
  BY <1>1, <1>2, ParseValueRead
<1>4. ASSUME NEW text \in Text
      PROVE  json_parse_string(text) \in Outcome(Json(TRUE)[MaxNesting])
  <2>1. (IF Begins(text, {Bom}) THEN Tail(text) ELSE text) \in Text
    BY TailShorter DEF Begins
  <2> QED
    BY <1>3, <2>1 DEF json_parse_string
<1> QED
  BY <1>4, OutcomeParts DEF WellFormed

-----------------------------------------------------------------------------
(* Where more text follows.                                                *)

\* What a text begins with, it begins with when more follows.
LEMMA LongerText ==
    ASSUME NEW text \in Text, NEW more \in Text
    PROVE  /\ text \o more \in Text
           /\ Len(text \o more) = Len(text) + Len(more)
           /\ text # <<>> => /\ text \o more # <<>>
                             /\ Head(text \o more) = Head(text)
                             /\ Tail(text \o more) = Tail(text) \o more
                             /\ \A S : Begins(text \o more, S) <=> Begins(text, S)
           /\ text = <<>> => text \o more = more
<1>1. text \in Seq(Piece) /\ more \in Seq(Piece)
  BY DEF Text
<1>2. text \o more \in Text /\ Len(text \o more) = Len(text) + Len(more)
  BY <1>1 DEF Text
<1>3. ASSUME text # <<>>
      PROVE  /\ text \o more # <<>>
             /\ Head(text \o more) = Head(text)
             /\ Tail(text \o more) = Tail(text) \o more
  <2>1. Len(text) > 0 /\ Len(text) \in Nat /\ Len(more) \in Nat
    BY <1>1, <1>3
  <2>2. text \o more # <<>>
    BY <2>1, <1>1
  <2>3. Head(text \o more) = Head(text)
    BY <2>1, <1>1
  <2>4. Tail(text \o more) = Tail(text) \o more
    BY <2>1, <1>1
  <2> QED
    BY <2>2, <2>3, <2>4
<1>4. text = <<>> => text \o more = more
  BY <1>1
<1> QED
  BY <1>2, <1>3, <1>4 DEF Begins

\* Blanks are skipped up to the same piece.
LEMMA SkippedLonger ==
    ASSUME NEW text \in Text, NEW more \in Text, Skipped[text] # <<>>
    PROVE  Skipped[text \o more] = Skipped[text] \o more
<1> DEFINE T == {t \in Text : Skipped[t] # <<>> => Skipped[t \o more] = Skipped[t] \o more}
<1>1. ASSUME NEW s \in Text, \A t \in Text : Len(t) < Len(s) => t \in T
      PROVE  s \in T
  <2>1. CASE Begins(s, WhiteSpace)
    <3>1. Tail(s) \in Text /\ Len(Tail(s)) < Len(s) /\ s # <<>>
      BY <2>1, TailShorter DEF Begins
    <3>2. Skipped[s] = Skipped[Tail(s)]
      BY <2>1, SkippedValue
    <3>3. /\ s \o more \in Text /\ Begins(s \o more, WhiteSpace)
          /\ Tail(s \o more) = Tail(s) \o more
      BY <2>1, <3>1, LongerText
    <3>4. Skipped[s \o more] = Skipped[Tail(s) \o more]
      BY <3>3, SkippedValue
    <3> QED
      BY <3>1, <3>2, <3>4, <1>1
  <2>2. CASE ~Begins(s, WhiteSpace)
    <3>1. Skipped[s] = s
      BY <2>2, SkippedValue
    <3>2. s # <<>> => s \o more \in Text /\ ~Begins(s \o more, WhiteSpace)
      BY <2>2, LongerText
    <3>3. s # <<>> => Skipped[s \o more] = s \o more
      BY <3>2, SkippedValue
    <3> QED
      BY <3>1, <3>3
  <2> QED
    BY <2>1, <2>2
<1> HIDE DEF T
<1>2. Text \subseteq T
  BY <1>1, TextInduction
<1>3. text \in T
  BY <1>2
<1> QED
  BY <1>3 DEF T

\* The first pieces stay the first.
LEMMA BehindLonger ==
    ASSUME NEW text \in Text, NEW more \in Text, NEW n \in Nat, n <= Len(text)
    PROVE  Behind(text \o more, n) = Behind(text, n) \o more
<1>1. text \in Seq(Piece) /\ more \in Seq(Piece) /\ text \o more \in Seq(Piece)
      /\ Len(text) \in Nat /\ Len(more) \in Nat
  BY DEF Text
<1> DEFINE s == Behind(text \o more, n)
           t == Behind(text, n)
<1>2. s \in Seq(Piece) /\ Len(s) = Len(text) + Len(more) - n
  <2>1. n <= Len(text \o more) /\ Len(text \o more) = Len(text) + Len(more)
    BY <1>1
  <2> DEFINE whole == text \o more
  <2>2. whole \in Text
    BY LongerText
  <2> HIDE DEF whole
  <2>3. Behind(whole, n) \in Text /\ Len(Behind(whole, n)) = Len(whole) - n
    BY <2>1, <2>2, BehindText DEF whole
  <2> QED
    BY <2>1, <2>3 DEF Text, whole
<1>3. t \in Seq(Piece) /\ Len(t) = Len(text) - n
  BY BehindText DEF Text
<1>4. \A i \in 1..Len(s) : s[i] = (text \o more)[n + i]
  <2>1. n + 1 <= Len(text \o more) + 1 /\ Len(text \o more) = Len(text) + Len(more)
    BY <1>1
  <2> QED
    BY <1>1, <1>2, <2>1, SubSeqProperties DEF Behind
<1>5. \A i \in 1..Len(t) : t[i] = text[n + i]
  BY <1>1, <1>3, SubSeqProperties DEF Behind
<1> HIDE DEF s, t
<1>6. Len(t \o more) = Len(s) /\ t \o more \in Seq(Piece)
  BY <1>1, <1>2, <1>3
<1>7. ASSUME NEW i \in 1..Len(s) PROVE s[i] = (t \o more)[i]
  <2>1. CASE i <= Len(t)
    <3>1. (t \o more)[i] = t[i] /\ i \in 1..Len(t)
      BY <2>1, <1>1, <1>3
    <3>2. (text \o more)[n + i] = text[n + i]
      BY <2>1, <1>1, <1>3
    <3> QED
      BY <3>1, <3>2, <1>4, <1>5
  <2>2. CASE ~(i <= Len(t))
    <3>1. (t \o more)[i] = more[i - Len(t)]
      BY <2>2, <1>1, <1>2, <1>3
    <3>2. (text \o more)[n + i] = more[n + i - Len(text)]
      BY <2>2, <1>1, <1>2, <1>3
    <3>3. n + i - Len(text) = i - Len(t)
      BY <1>1, <1>3
    <3> QED
      BY <3>1, <3>2, <3>3, <1>4
  <2> QED
    BY <2>1, <2>2
<1>8. s = t \o more
  BY <1>2, <1>6, <1>7, SeqEqual
<1> QED
  BY <1>8 DEF s, t

\* The closing quote is found at the same place.
LEMMA SkipQuotesLonger ==
    ASSUME NEW text \in Text, NEW more \in Text, skip_quotes[text] # <<>>
    PROVE  skip_quotes[text \o more] = skip_quotes[text] \o more
<1> DEFINE T == {t \in Text : skip_quotes[t] # <<>> =>
                                 skip_quotes[t \o more] = skip_quotes[t] \o more}
<1>1. ASSUME NEW s \in Text, \A t \in Text : Len(t) < Len(s) => t \in T
      PROVE  s \in T
  <2>1. CASE s = <<>>
    <3>1. skip_quotes[s] = <<>>
      BY <2>1, SkipQuotesValue
    <3> QED
      BY <3>1
  <2>2. CASE Begins(s, {Quote})
    <3>1. skip_quotes[s] = s /\ s # <<>>
      BY <2>2, SkipQuotesValue DEF Begins
    <3>2. s \o more \in Text /\ Begins(s \o more, {Quote})
      BY <2>2, <3>1, LongerText
    <3>3. skip_quotes[s \o more] = s \o more
      BY <3>2, SkipQuotesValue
    <3> QED
      BY <3>1, <3>3
  <2>3. CASE s # <<>> /\ ~Begins(s, {Quote}) /\ Begins(s, {Backslash}) /\ Len(s) > 1
    <3>1. skip_quotes[s] = skip_quotes[Behind(s, 2)]
      BY <2>3, SkipQuotesValue
    <3>2. Behind(s, 2) \in Text /\ Len(Behind(s, 2)) < Len(s) /\ 2 <= Len(s)
      BY <2>3, BehindText, TextLength
    <3>3. /\ s \o more \in Text /\ s \o more # <<>> /\ ~Begins(s \o more, {Quote})
          /\ Begins(s \o more, {Backslash}) /\ Len(s \o more) > 1
      BY <2>3, LongerText, TextLength
    <3>4. skip_quotes[s \o more] = skip_quotes[Behind(s \o more, 2)]
      BY <3>3, SkipQuotesValue
    <3>5. Behind(s \o more, 2) = Behind(s, 2) \o more
      BY <3>2, BehindLonger
    <3> QED
      BY <3>1, <3>2, <3>4, <3>5, <1>1
  <2>4. CASE s # <<>> /\ ~Begins(s, {Quote}) /\ Begins(s, {Backslash}) /\ ~(Len(s) > 1)
    <3>1. Tail(s) = <<>>
      BY <2>4, TailShorter DEF Text
    <3>2. skip_quotes[s] = skip_quotes[Tail(s)]
      BY <2>4, SkipQuotesValue
    <3>3. skip_quotes[<<>>] = <<>>
      BY EmptyText, SkipQuotesValue
    <3> QED
      BY <3>1, <3>2, <3>3
  <2>5. CASE s # <<>> /\ ~Begins(s, {Quote}) /\ ~Begins(s, {Backslash})
    <3>1. skip_quotes[s] = skip_quotes[Tail(s)]
      BY <2>5, SkipQuotesValue
    <3>2. Tail(s) \in Text /\ Len(Tail(s)) < Len(s)
      BY <2>5, TailShorter
    <3>3. /\ s \o more \in Text /\ s \o more # <<>> /\ ~Begins(s \o more, {Quote})
          /\ ~Begins(s \o more, {Backslash}) /\ Tail(s \o more) = Tail(s) \o more
      BY <2>5, LongerText
    <3>4. skip_quotes[s \o more] = skip_quotes[Tail(s) \o more]
      BY <3>3, SkipQuotesValue
    <3> QED
      BY <3>1, <3>2, <3>4, <1>1
  <2> QED
    BY <2>1, <2>2, <2>3, <2>4, <2>5
<1> HIDE DEF T
<1>2. Text \subseteq T
  BY <1>1, TextInduction
<1>3. text \in T
  BY <1>2
<1> QED
  BY <1>3 DEF T

\* The same outcome with more text behind it.
Longer(o, more) == Read(o.json, o.rest \o more)

\* What a reader read, it reads as well where more text follows.
Extends(reader) ==
    \A text, more \in Text :
        reader[text].ok => reader[text \o more] = Longer(reader[text], more)

\* So does one that may read a number, when no character of a number follows it.
ExtendsValues(reader) ==
    \A text, more \in Text :
        LET o == reader[text] IN
        o.ok /\ (o.json.type = "number" => ~Begins(o.rest \o more, Figure)) =>
            reader[text \o more] = Longer(o, more)

\* What is left begins with something else than a character of a number.
Stops(text) == text # <<>> /\ ~Begins(text, Figure)

\* What was read stays, and more is left.
LEMMA LongerParts ==
    ASSUME NEW o, NEW more
    PROVE  /\ Longer(o, more).ok
           /\ Longer(o, more).json = o.json
           /\ Longer(o, more).rest = o.rest \o more
BY DEF Longer, Read

\* The same for what was read whole.
LEMMA LongerRead ==
    ASSUME NEW json, NEW rest, NEW more
    PROVE  Longer(Read(json, rest), more) = Read(json, rest \o more)
BY DEF Longer, Read

\* get_quoted_string reads the same with more text behind.
LEMMA QuotedStringLonger ==
    ASSUME NEW text \in Text, NEW more \in Text, get_quoted_string(text).ok
    PROVE  get_quoted_string(text \o more) = Longer(get_quoted_string(text), more)
<1> DEFINE end == skip_quotes[Tail(text)]
           inner == SubSeq(text, 2, Len(text) - Len(end))
           string == process_string[inner]
           end2 == skip_quotes[Tail(text \o more)]
           inner2 == SubSeq(text \o more, 2, Len(text \o more) - Len(end2))
           string2 == process_string[inner2]
<1>1. Begins(text, {Quote}) /\ end # <<>> /\ string.ok
      /\ get_quoted_string(text) = Read(string.json, Tail(end))
  BY OutcomeForms DEF get_quoted_string
<1>2. /\ Tail(text) \in Text /\ Len(Tail(text)) = Len(text) - 1 /\ text # <<>>
      /\ Len(text) \in Nat
  BY <1>1, TailShorter DEF Begins
<1>3. end \in Text /\ Len(end) <= Len(Tail(text)) /\ Len(end) \in Nat /\ Len(end) > 0
  BY <1>1, <1>2, SkipQuotesStops, TailShorter
<1>4. end2 = end \o more
  <2> DEFINE behind == Tail(text)
  <2>1. Tail(text \o more) = behind \o more
    BY <1>2, LongerText
  <2>2. behind \in Text /\ skip_quotes[behind] # <<>>
    BY <1>1, <1>2
  <2> HIDE DEF behind
  <2>3. skip_quotes[behind \o more] = skip_quotes[behind] \o more
    BY <2>2, SkipQuotesLonger
  <2> QED
    BY <2>1, <2>3 DEF behind
<1>5. /\ Begins(text \o more, {Quote})
      /\ end2 # <<>> /\ Tail(end2) = Tail(end) \o more
  <2>1. Begins(text \o more, {Quote})
    BY <1>1, <1>2, LongerText
  <2> HIDE DEF end, end2
  <2>2. end \o more # <<>> /\ Tail(end \o more) = Tail(end) \o more
    BY <1>1, <1>3, LongerText
  <2> QED
    BY <2>1, <2>2, <1>4
<1>6. inner2 = inner
  <2>1. Len(text \o more) - Len(end2) = Len(text) - Len(end)
    <3> HIDE DEF end, end2
    <3>1. Len(text \o more) = Len(text) + Len(more) /\ Len(end2) = Len(end) + Len(more)
      BY <1>3, <1>4, LongerText
    <3>2. Len(more) \in Nat
      BY TextLength
    <3> QED
      BY <1>2, <1>3, <3>1, <3>2
  <2> DEFINE last == Len(text) - Len(end)
  <2>2. last \in Nat /\ last <= Len(text)
    BY <1>2, <1>3
  <2> HIDE DEF last
  <2>3. SubSeq(text \o more, 2, last) = SubSeq(text, 2, last)
    <3>1. text \in Seq(Piece) /\ more \in Seq(Piece) /\ text \o more \in Seq(Piece)
      BY DEF Text
    <3>2. \A i \in 2..last : text[i] \in Piece /\ (text \o more)[i] = text[i]
      BY <2>2, <3>1
    <3>3. \A i \in 2..last : (text \o more)[i] \in Piece
      BY <3>2
    <3> DEFINE s == SubSeq(text \o more, 2, last)
               t == SubSeq(text, 2, last)
    <3>4. Len(text \o more) \in Nat /\ last <= Len(text \o more) /\ Len(text) \in Nat
      BY <2>2, <3>1
    <3>5. /\ s \in Seq(Piece) /\ Len(s) = (IF 2 <= last THEN last - 1 ELSE 0)
          /\ \A i \in 1..(last - 1) : s[i] = (text \o more)[1 + i]
      BY <2>2, <3>1, <3>3, <3>4, SubSeqProperties
    <3>6. /\ t \in Seq(Piece) /\ Len(t) = (IF 2 <= last THEN last - 1 ELSE 0)
          /\ \A i \in 1..(last - 1) : t[i] = text[1 + i]
      BY <2>2, <3>1, <3>2, <3>4, SubSeqProperties
    <3> HIDE DEF s, t
    <3>7. \A i \in 1..Len(s) : i \in 1..(last - 1) /\ 1 + i \in 2..last
      BY <2>2, <3>5
    <3>8. ASSUME NEW i \in 1..Len(s) PROVE s[i] = t[i]
      <4>1. i \in 1..(last - 1) /\ 1 + i \in 2..last
        BY <3>7
      <4>2. (text \o more)[1 + i] = text[1 + i]
        BY <4>1, <3>2
      <4> QED
        BY <4>1, <4>2, <3>5, <3>6
    <3>10. Len(s) = Len(t)
      BY <3>5, <3>6
    <3>9. s = t
      BY <3>5, <3>6, <3>8, <3>10, SeqEqual
    <3> QED
      BY <3>9 DEF s, t
  <2> QED
    BY <2>1, <2>3 DEF last
<1>7. string2 = string
  BY <1>6
<1> HIDE DEF string, string2, end, end2
<1>8. get_quoted_string(text \o more) = Read(string2.json, Tail(end2))
  BY <1>1, <1>5, <1>7 DEF get_quoted_string, string2, end2
<1>9. Longer(Read(string.json, Tail(end)), more) = Read(string.json, Tail(end) \o more)
  BY LongerRead
<1> QED
  BY <1>1, <1>5, <1>7, <1>8, <1>9

\* So does parse_field.
LEMMA FieldLonger ==
    ASSUME NEW J, NEW value \in [Text -> Outcome(J)], Advances(value), ExtendsValues(value),
           NEW text \in Text, NEW more \in Text, parse_field(value, text).ok,
           Stops(parse_field(value, text).rest)
    PROVE  parse_field(value, text \o more) = Longer(parse_field(value, text), more)
<1> DEFINE name == get_quoted_string(text)
           colon == Skipped[name.rest]
           read == value[Tail(colon)]
           name2 == get_quoted_string(text \o more)
           colon2 == Skipped[name2.rest]
           read2 == value[Tail(colon2)]
<1>1. /\ name.ok /\ Nul \notin ToSet(name.json) /\ Begins(colon, {":"}) /\ read.ok
      /\ parse_field(value, text)
           = Read([name |-> name.json, value |-> read.json], read.rest)
  BY OutcomeForms DEF parse_field, Member
<1>2. name.rest \in Text
  BY <1>1, QuotedStringRead, OutcomeParts
<1>3. name2.ok /\ name2.json = name.json /\ name2.rest = name.rest \o more
  BY <1>1, QuotedStringLonger, LongerParts
<1>4. colon \in Text /\ colon # <<>>
  BY <1>1, <1>2, SkippedPasses DEF Begins
<1>5. colon2 = colon \o more
  <2> DEFINE rest == name.rest
  <2>1. rest \in Text /\ Skipped[rest] # <<>>
    BY <1>2, <1>4
  <2> HIDE DEF rest
  <2>2. Skipped[rest \o more] = Skipped[rest] \o more
    BY <2>1, SkippedLonger
  <2> QED
    BY <2>2, <1>3 DEF rest
<1>6. Begins(colon2, {":"}) /\ Tail(colon2) = Tail(colon) \o more /\ Tail(colon) \in Text
  <2> HIDE DEF colon, colon2
  <2> QED
    BY <1>1, <1>4, <1>5, LongerText, TailShorter
<1>7. read2.ok /\ read2.json = read.json /\ read2.rest = read.rest \o more
  <2> DEFINE behind == Tail(colon)
             rest == read.rest
  <2>2. rest \in Text /\ Stops(rest)
    <3>1. parse_field(value, text).rest = read.rest
      BY <1>1 DEF Read
    <3> QED
      BY <1>1, <1>6, <3>1, OutcomeParts
  <2>3. ~Begins(rest \o more, Figure)
    <3> HIDE DEF rest
    <3> QED
      BY <2>2, LongerText DEF Stops
  <2>4. behind \in Text /\ value[behind].ok /\ ~Begins(value[behind].rest \o more, Figure)
    BY <1>1, <1>6, <2>3
  <2>5. Tail(colon2) = behind \o more
    BY <1>6
  <2>6. value[behind \o more] = Longer(value[behind], more)
    <3> HIDE DEF behind
    <3> QED
      BY <2>4 DEF ExtendsValues
  <2>1. read2 = Longer(read, more)
    BY <2>5, <2>6
  <2> HIDE DEF read, read2
  <2> QED
    BY <2>1, LongerParts
<1> HIDE DEF name, name2, read, read2
<1>8. parse_field(value, text \o more)
        = Read([name |-> name2.json, value |-> read2.json], read2.rest)
  BY <1>1, <1>3, <1>6, <1>7 DEF parse_field, Member, name2, read2
<1> DEFINE member == [name |-> name.json, value |-> read.json]
<1>9. Longer(Read(member, read.rest), more) = Read(member, read.rest \o more)
  BY LongerRead
<1> QED
  BY <1>1, <1>3, <1>7, <1>8, <1>9

\* So do the loops for one element.
LEMMA ElementLonger ==
    ASSUME NEW J, NEW value \in [Text -> Outcome(J)], Advances(value), ExtendsValues(value),
           NEW type, NEW text \in Text, NEW more \in Text, Element(type, value, text).ok,
           Stops(Element(type, value, text).rest)
    PROVE  Element(type, value, text \o more) = Longer(Element(type, value, text), more)
<1>1. CASE type = "array"
  <2> DEFINE o == value[text]
  <2>1. o.ok /\ Stops(o.rest) /\ o \in Outcome(J)
    BY <1>1 DEF Element
  <2>2. o.rest \in Text
    BY <2>1, OutcomeParts
  <2>3. ~Begins(o.rest \o more, Figure)
    <3> HIDE DEF o
    <3> QED
      BY <2>1, <2>2, LongerText DEF Stops
  <2>4. value[text \o more] = Longer(o, more)
    BY <2>1, <2>3 DEF ExtendsValues
  <2> QED
    BY <1>1, <2>4 DEF Element
<1>2. CASE type # "array"
  <2>1. parse_field(value, text).ok /\ Stops(parse_field(value, text).rest)
    BY <1>2 DEF Element
  <2>2. parse_field(value, text \o more) = Longer(parse_field(value, text), more)
    BY <2>1, FieldLonger
  <2> QED
    BY <1>2, <2>2 DEF Element
<1> QED
  BY <1>1, <1>2

\* Before a comma or a bracket no number goes on.
LEMMA StopsBefore ==
    ASSUME NEW text \in Text, NEW mark \in Structure, Begins(Skipped[text], {mark})
    PROVE  Stops(text)
<1>1. CASE Begins(text, WhiteSpace)
  <2>1. text # <<>> /\ Head(text) \in Structure
    BY <1>1 DEF Begins, Structure
  <2> QED
    BY <2>1, FiguresAssumption DEF Stops, Begins
<1>2. CASE ~Begins(text, WhiteSpace)
  <2>1. Skipped[text] = text
    BY <1>2, SkippedValue
  <2>2. text # <<>> /\ Head(text) = mark
    BY <2>1 DEF Begins
  <2> QED
    BY <2>2, FiguresAssumption DEF Stops, Begins
<1> QED
  BY <1>1, <1>2

\* At the end of the text there are no elements.
LEMMA ElementsEnd ==
    ASSUME NEW J, NEW value \in [Text -> Outcome(J)], Advances(value), NEW type
    PROVE  Elements(type, value)[<<>>] = Failure
<1> DEFINE elements == Elements(type, value)
           element == Element(type, value, <<>>)
           after == Skipped[element.rest]
           next == IF Begins(after, {","}) THEN Skipped[Tail(after)] ELSE after
<1>1. elements[<<>>] =
         IF ~element.ok THEN Failure
         ELSE IF Closed(next, type) THEN Read(<<element.json>>, Behind(next, 1))
         ELSE IF Begins(after, {","}) /\ elements[next].ok
         THEN Read(<<element.json>> \o elements[next].json, elements[next].rest)
         ELSE Failure
  BY EmptyText, ElementsValue DEF Round_elements, Continued
<1>2. CASE element.ok
  <2>1. element.rest \in Text /\ Len(element.rest) <= Len(<<>>)
    BY <1>2, EmptyText, ElementRead, OutcomeParts
  <2>2. after \in Text /\ Len(after) <= Len(element.rest)
    BY <2>1, SkippedPasses
  <2>3. after = <<>>
    <3>1. Len(<<>>) = 0 /\ Len(after) \in Nat /\ Len(element.rest) \in Nat
      BY <2>1, <2>2, TextLength
    <3> HIDE DEF after, element
    <3>2. Len(after) = 0
      BY <2>1, <2>2, <3>1
    <3> QED
      BY <2>2, <3>2 DEF Text
  <2> HIDE DEF after
  <2>4. ~Begins(after, {","}) /\ next = after /\ ~Closed(next, type)
    BY <2>3 DEF Begins, Closed
  <2> HIDE DEF next
  <2> QED
    BY <1>1, <2>4
<1>3. CASE ~element.ok
  BY <1>1, <1>3
<1> QED
  BY <1>2, <1>3

\* So do the loops for all elements.
LEMMA ElementsLonger ==
    ASSUME NEW J, NEW value \in [Text -> Outcome(J)], Advances(value), ExtendsValues(value),
           NEW type
    PROVE  Extends(Elements(type, value))
<1> DEFINE elements == Elements(type, value)
           element(s) == Element(type, value, s)
           after(s) == Skipped[element(s).rest]
           next(s) == IF Begins(after(s), {","}) THEN Skipped[Tail(after(s))] ELSE after(s)
<1>1. \A s \in Text : elements[s] =
         IF ~element(s).ok THEN Failure
         ELSE IF Closed(next(s), type) THEN Read(<<element(s).json>>, Behind(next(s), 1))
         ELSE IF Begins(after(s), {","}) /\ elements[next(s)].ok
         THEN Read(<<element(s).json>> \o elements[next(s)].json, elements[next(s)].rest)
         ELSE Failure
  BY ElementsValue DEF Round_elements, Continued
<1>2. ASSUME NEW s \in Text, element(s).ok
      PROVE  /\ next(s) \in Text
             /\ Begins(after(s), {","}) => Len(next(s)) < Len(s)
             /\ after(s) \in Text /\ element(s).rest \in Text
  <2>1. element(s).rest \in Text
    BY <1>2, ElementRead, OutcomeParts
  <2> QED
    BY <1>2, <2>1, NextShorter
<1>3. ASSUME NEW s \in Text, NEW more \in Text, element(s).ok, next(s) # <<>>,
             Closed(next(s), type) \/ Begins(after(s), {","})
      PROVE  /\ element(s \o more).ok /\ element(s \o more).json = element(s).json
             /\ next(s \o more) = next(s) \o more
             /\ Begins(after(s \o more), {","}) <=> Begins(after(s), {","})
  <2>1. element(s \o more) = Longer(element(s), more)
    <3>1. Element(type, value, s).ok /\ Element(type, value, s).rest \in Text
      BY <1>2, <1>3
    <3>2. \E mark \in Structure : Begins(Skipped[Element(type, value, s).rest], {mark})
      <4>1. CASE Begins(after(s), {","})
        <5>1. "," \in Structure
          BY DEF Structure
        <5> QED
          BY <4>1, <5>1
      <4>2. CASE ~Begins(after(s), {","})
        <5>1. next(s) = after(s) /\ Begins(after(s), {Close(type)})
          BY <1>3, <4>2 DEF Closed
        <5>2. Close(type) \in Structure
          BY DEF Close, Structure
        <5> QED
          BY <5>1, <5>2
      <4> QED
        BY <4>1, <4>2
    <3>3. Stops(Element(type, value, s).rest)
      BY <3>1, <3>2, StopsBefore
    <3> QED
      BY <3>1, <3>3, ElementLonger
  <2>2. /\ element(s \o more).ok /\ element(s \o more).json = element(s).json
        /\ element(s \o more).rest = element(s).rest \o more
    <3> HIDE DEF element
    <3> QED
      BY <2>1, LongerParts
  <2>3. after(s) \in Text /\ element(s).rest \in Text /\ next(s) \in Text
    BY <1>3, <1>2
  <2>4. after(s) # <<>>
    <3>1. after(s) = <<>> => ~Begins(after(s), {","})
      BY DEF Begins
    <3> QED
      BY <3>1, <1>3
  <2>5. after(s \o more) = after(s) \o more
    <3> DEFINE rest == element(s).rest
    <3>1. rest \in Text /\ Skipped[rest] # <<>>
      BY <2>3, <2>4
    <3> HIDE DEF rest
    <3>2. Skipped[rest \o more] = Skipped[rest] \o more
      BY <3>1, SkippedLonger
    <3> HIDE DEF element
    <3> QED
      BY <2>2, <3>2 DEF rest
  <2>6. /\ Begins(after(s \o more), {","}) <=> Begins(after(s), {","})
        /\ Tail(after(s \o more)) = Tail(after(s)) \o more /\ Tail(after(s)) \in Text
    <3> DEFINE a == after(s)
    <3>1. a \in Text /\ a # <<>>
      BY <2>3, <2>4
    <3> HIDE DEF a
    <3>2. /\ Begins(a \o more, {","}) <=> Begins(a, {","})
          /\ Tail(a \o more) = Tail(a) \o more /\ Tail(a) \in Text
      BY <3>1, LongerText, TailShorter
    <3> HIDE DEF after
    <3> QED
      BY <3>2, <2>5 DEF a
  <2> HIDE DEF after, element
  <2>7. next(s \o more) = next(s) \o more
    <3>1. CASE Begins(after(s), {","})
      <4>1. Skipped[Tail(after(s))] # <<>>
        BY <1>3, <3>1
      <4>2. Skipped[Tail(after(s)) \o more] = Skipped[Tail(after(s))] \o more
        BY <2>6, <4>1, SkippedLonger
      <4> QED
        BY <2>6, <3>1, <4>2
    <3>2. CASE ~Begins(after(s), {","})
      BY <2>5, <2>6, <3>2
    <3> QED
      BY <3>1, <3>2
  <2> QED
    BY <2>2, <2>6, <2>7
<1>4. elements \in [Text -> Outcome(Seq(Inside(type, J)))]
  BY ElementsValue
<1> HIDE DEF elements, element, after, next
<1> DEFINE T == {s \in Text : \A more \in Text : elements[s].ok =>
                    elements[s \o more] = Longer(elements[s], more)}
<1>5. ASSUME NEW s \in Text, \A t \in Text : Len(t) < Len(s) => t \in T
      PROVE  s \in T
  <2>1. SUFFICES ASSUME NEW more \in Text, elements[s].ok
                 PROVE  elements[s \o more] = Longer(elements[s], more)
    OBVIOUS
  <2>2. element(s).ok /\ s \o more \in Text
    BY <2>1, <1>1, OutcomeForms, LongerText
  <2>3. next(s) \in Text
    BY <2>2, <1>2
  <2>6. Begins(after(s), {","}) => Len(next(s)) < Len(s)
    BY <2>2, <1>2
  <2>4. CASE Closed(next(s), type)
    <3>1. next(s) # <<>>
      BY <2>4 DEF Closed, Begins
    <3>2. /\ element(s \o more).ok /\ element(s \o more).json = element(s).json
          /\ next(s \o more) = next(s) \o more
      BY <2>2, <2>4, <3>1, <1>3
    <3>3. Closed(next(s \o more), type)
      BY <2>3, <2>4, <3>1, <3>2, LongerText DEF Closed
    <3>4. Behind(next(s \o more), 1) = Behind(next(s), 1) \o more
      <4>1. 1 <= Len(next(s))
        BY <2>3, <3>1, TailShorter
      <4> QED
        BY <2>3, <3>2, <4>1, BehindLonger
    <3>5. elements[s \o more] = Read(<<element(s).json>>, Behind(next(s), 1) \o more)
      BY <2>2, <3>2, <3>3, <3>4, <1>1
    <3>6. elements[s] = Read(<<element(s).json>>, Behind(next(s), 1))
      BY <2>2, <2>4, <1>1
    <3>7. Longer(Read(<<element(s).json>>, Behind(next(s), 1)), more)
            = Read(<<element(s).json>>, Behind(next(s), 1) \o more)
      BY LongerRead
    <3> QED
      BY <3>5, <3>6, <3>7
  <2>5. CASE ~Closed(next(s), type)
    <3>1. /\ Begins(after(s), {","}) /\ elements[next(s)].ok
          /\ elements[s] = Read(<<element(s).json>> \o elements[next(s)].json,
                                elements[next(s)].rest)
      BY <2>1, <2>2, <2>5, <1>1, OutcomeForms
    <3>2. next(s) # <<>>
      <4>3. elements[<<>>] = Failure
        BY ElementsEnd DEF elements
      <4> QED
        BY <3>1, <4>3, OutcomeForms
    <3>3. /\ element(s \o more).ok /\ element(s \o more).json = element(s).json
          /\ next(s \o more) = next(s) \o more
          /\ Begins(after(s \o more), {","})
      BY <2>2, <3>1, <3>2, <1>3
    <3>4. ~Closed(next(s \o more), type)
      <4> DEFINE t == next(s)
      <4>1. t \in Text /\ t # <<>>
        BY <2>3, <3>2
      <4> HIDE DEF t
      <4>2. Begins(t \o more, {Close(type)}) <=> Begins(t, {Close(type)})
        BY <4>1, LongerText
      <4> QED
        BY <4>2, <2>5, <3>3 DEF Closed, t
    <3>5. elements[next(s) \o more] = Longer(elements[next(s)], more)
      BY <2>3, <2>6, <3>1, <1>5
    <3>6. /\ elements[next(s \o more)].ok
          /\ elements[next(s \o more)].json = elements[next(s)].json
          /\ elements[next(s \o more)].rest = elements[next(s)].rest \o more
      <4> DEFINE o == elements[next(s)]
      <4>1. elements[next(s \o more)] = Longer(o, more)
        BY <3>3, <3>5
      <4> HIDE DEF o
      <4>2. /\ Longer(o, more).ok /\ Longer(o, more).json = o.json
            /\ Longer(o, more).rest = o.rest \o more
        BY LongerParts
      <4> QED
        BY <4>1, <4>2 DEF o
    <3>7. elements[s \o more] = Read(<<element(s).json>> \o elements[next(s)].json,
                                     elements[next(s)].rest \o more)
      BY <2>2, <3>3, <3>4, <3>6, <1>1
    <3> DEFINE all == <<element(s).json>> \o elements[next(s)].json
               rest == elements[next(s)].rest
    <3>8. Longer(Read(all, rest), more) = Read(all, rest \o more)
      BY LongerRead
    <3> QED
      BY <3>1, <3>7, <3>8
  <2> QED
    BY <2>4, <2>5
<1> HIDE DEF T
<1>6. Text \subseteq T
  BY <1>5, TextInduction
<1>7. \A s \in Text : s \in T
  BY <1>6
<1> QED
  BY <1>7 DEF T, Extends, elements

\* So do parse_object_value and parse_array_value.
LEMMA ContainerLonger ==
    ASSUME NEW J, NEW value \in [Text -> Outcome(J)], Advances(value), ExtendsValues(value),
           NEW type, NEW text \in Text, NEW more \in Text, text # <<>>,
           Container(type, value, text).ok
    PROVE  Container(type, value, text \o more) = Longer(Container(type, value, text), more)
<1> DEFINE elements == Elements(type, value)
           first == Skipped[Tail(text)]
           first2 == Skipped[Tail(text \o more)]
<1>0. Tail(text) \in Text /\ Tail(text \o more) = Tail(text) \o more
  BY TailShorter, LongerText
<1>1. first \in Text
  BY <1>0, SkippedPasses
<1>2. first # <<>>
  <2>1. SUFFICES ASSUME first = <<>> PROVE FALSE
    OBVIOUS
  <2>2. ~Begins(first, {Close(type)})
    BY <2>1 DEF Begins
  <2>3. elements[first].ok
    BY <2>2, OutcomeForms DEF Container
  <2>4. elements[<<>>] = Failure
    BY ElementsEnd
  <2> HIDE DEF first, elements
  <2> QED
    BY <2>1, <2>3, <2>4, OutcomeForms
<1>3. first2 = first \o more
  <2> DEFINE behind == Tail(text)
  <2>1. behind \in Text /\ Skipped[behind] # <<>>
    BY <1>0, <1>2
  <2> HIDE DEF behind
  <2>2. Skipped[behind \o more] = Skipped[behind] \o more
    BY <2>1, SkippedLonger
  <2> QED
    BY <2>2, <1>0 DEF behind
<1>4. /\ Begins(first2, {Close(type)}) <=> Begins(first, {Close(type)})
      /\ Tail(first2) = Tail(first) \o more
  <2> HIDE DEF first, first2
  <2> QED
    BY <1>1, <1>2, <1>3, LongerText
<1>5. CASE Begins(first, {Close(type)})
  <2> DEFINE empty == [type |-> type, of |-> <<>>]
  <2>1. Container(type, value, text) = Read(empty, Tail(first))
    BY <1>5 DEF Container
  <2>2. Container(type, value, text \o more) = Read(empty, Tail(first) \o more)
    BY <1>4, <1>5 DEF Container
  <2>3. Longer(Read(empty, Tail(first)), more) = Read(empty, Tail(first) \o more)
    BY LongerRead
  <2> QED
    BY <2>1, <2>2, <2>3
<1>6. CASE ~Begins(first, {Close(type)})
  <2> DEFINE o == elements[first]
             full == [type |-> type, of |-> o.json]
  <2>1. /\ o.ok /\ (type = "object" => Distinct(o.json))
        /\ Container(type, value, text) = Read(full, o.rest)
    BY <1>6, OutcomeForms DEF Container
  <2>2. elements[first2] = Longer(o, more)
    BY <1>1, <1>3, <2>1, ElementsLonger DEF Extends
  <2> HIDE DEF o
  <2>3. /\ Longer(o, more).ok /\ Longer(o, more).json = o.json
        /\ Longer(o, more).rest = o.rest \o more
    BY LongerParts
  <2>4. Container(type, value, text \o more) = Read(full, o.rest \o more)
    <3>1. elements[first2].ok /\ elements[first2].json = o.json
          /\ elements[first2].rest = o.rest \o more
      BY <2>2, <2>3
    <3>2. ~Begins(first2, {Close(type)})
      BY <1>4, <1>6
    <3> QED
      BY <2>1, <3>1, <3>2 DEF Container
  <2>5. Longer(Read(full, o.rest), more) = Read(full, o.rest \o more)
    BY LongerRead
  <2> QED
    BY <2>1, <2>4, <2>5
<1> QED
  BY <1>5, <1>6

\* So does parse_string_value.
LEMMA StringValueLonger ==
    ASSUME NEW text \in Text, NEW more \in Text, parse_string_value(text).ok
    PROVE  parse_string_value(text \o more) = Longer(parse_string_value(text), more)
<1> DEFINE o == get_quoted_string(text)
           string == [type |-> "string", of |-> o.json]
<1>1. o.ok /\ parse_string_value(text) = Read(string, o.rest)
  BY OutcomeForms DEF parse_string_value
<1>2. get_quoted_string(text \o more) = Longer(o, more)
  BY <1>1, QuotedStringLonger
<1> HIDE DEF o
<1>3. /\ Longer(o, more).ok /\ Longer(o, more).json = o.json
      /\ Longer(o, more).rest = o.rest \o more
  BY LongerParts
<1>4. parse_string_value(text \o more) = Read(string, o.rest \o more)
  BY <1>2, <1>3 DEF parse_string_value
<1>5. Longer(Read(string, o.rest), more) = Read(string, o.rest \o more)
  BY LongerRead
<1> QED
  BY <1>1, <1>4, <1>5

\* So do the readers of literals.
LEMMA LiteralValueLonger ==
    ASSUME NEW text \in Text, NEW more \in Text, text # <<>>
    PROVE  parse_literal_value(text \o more) = Longer(parse_literal_value(text), more)
<1> DEFINE literal == [type |-> "literal", of |-> <<Head(text)>>]
<1>1. Head(text \o more) = Head(text) /\ Tail(text \o more) = Tail(text) \o more
  BY LongerText
<1>2. parse_literal_value(text \o more) = Read(literal, Tail(text) \o more)
  BY <1>1 DEF parse_literal_value
<1>3. parse_literal_value(text) = Read(literal, Tail(text))
  BY DEF parse_literal_value
<1>4. Longer(Read(literal, Tail(text)), more) = Read(literal, Tail(text) \o more)
  BY LongerRead
<1> QED
  BY <1>2, <1>3, <1>4

\* What the reader of numbers reads is a number.
LEMMA NumberIsRead ==
    ASSUME NEW text \in Text, parse_number_value(text).ok
    PROVE  parse_number_value(text).json.type = "number"
<1>1. parse_number_value(text) = Read(NumberOfText(text), Behind(text, Taken(text)))
  BY NumberValueIs, OutcomeForms
<1>2. parse_number_value(text).json = NumberOfText(text)
  BY <1>1 DEF Read
<1> QED
  BY <1>2 DEF NumberOfText

\* So does the reader of numbers, where no character of a number follows.
LEMMA NumberValueLonger ==
    ASSUME NEW text \in Text, NEW more \in Text, Begins(text, Lead),
           parse_number_value(text).ok,
           ~Begins(parse_number_value(text).rest \o more, Figure)
    PROVE  parse_number_value(text \o more) = Longer(parse_number_value(text), more)
<1> DEFINE n == Taken(text)
           whole == text \o more
           rest == Behind(text, n)
<1>0. /\ n \in Nat /\ n <= Len(text) /\ Len(text) \in Nat /\ Len(more) \in Nat
      /\ text \in Seq(Piece) /\ more \in Seq(Piece)
  BY TakenNumeral, TextLength DEF Text
<1>1. /\ is_decimal(NumeralOf(text)) /\ NumeralOf(text) \notin Huge
      /\ parse_number_value(text) = Read(NumberOfText(text), rest)
  BY NumberValueIs, OutcomeForms
<1>2. parse_number_value(text).rest = rest
  BY <1>1 DEF Read
<1>3. Behind(whole, n) = rest \o more
  BY <1>0, BehindLonger
<1>4. whole \in Text /\ whole \in Seq(Piece) /\ Len(whole) = Len(text) + Len(more)
  BY LongerText DEF Text
<1>5. n < Len(whole) => whole[n + 1] \notin Figure
  <2> HIDE DEF n, rest, whole
  <2>1. ~Begins(Behind(whole, n), Figure)
    BY <1>2, <1>3
  <2>2. ASSUME n < Len(whole)
        PROVE  Behind(whole, n) # <<>> /\ Head(Behind(whole, n)) = whole[n + 1]
    <3> DEFINE behind == Behind(whole, n)
    <3>0. n <= Len(whole) /\ n \in Nat
      BY <1>0, <1>4
    <3>1. behind \in Seq(Piece) /\ Len(behind) = Len(whole) - n
      BY <1>4, <3>0, BehindText DEF Text
    <3>2. \A i \in 1..Len(behind) : behind[i] = whole[n + i]
      <4>1. \A i \in (n + 1)..Len(whole) : whole[i] \in Piece
        BY <1>4, <3>0
      <4>2. Len(whole) \in Int /\ n + 1 \in Int
        BY <1>0, <1>4
      <4>3. \A i \in 1..(Len(whole) - (n + 1) + 1) :
               SubSeq(whole, n + 1, Len(whole))[i] = whole[n + 1 + i - 1]
        BY <4>1, <4>2, SubSeqProperties
      <4>4. behind = SubSeq(whole, n + 1, Len(whole))
        BY DEF Behind
      <4> HIDE DEF behind
      <4>5. ASSUME NEW i \in 1..Len(behind)
            PROVE  behind[i] = whole[n + i]
        <5>1. i \in Int /\ i \in 1..(Len(whole) - (n + 1) + 1) /\ n + 1 + i - 1 = n + i
          BY <1>0, <1>4, <3>1
        <5> QED
          BY <5>1, <4>3, <4>4
      <4> QED
        BY <4>5
    <3> HIDE DEF behind
    <3>3. behind # <<>> /\ behind[1] = whole[n + 1] /\ Head(behind) = behind[1]
      BY <1>0, <1>4, <2>2, <3>1, <3>2
    <3> QED
      BY <3>3 DEF behind
  <2> QED
    BY <2>1, <2>2 DEF Begins
<1>6. \A k \in 0..n : SubSeq(whole, 1, k) = SubSeq(text, 1, k)
  <2> HIDE DEF n
  <2> QED
    BY <1>0
<1>7. ASSUME NEW k \in 1..Len(whole), SubSeq(whole, 1, k) \in Numerals
      PROVE  k <= n
  <2> HIDE DEF n, rest, whole
  <2>1. SUFFICES ASSUME n < k PROVE FALSE
    BY <1>0
  <2>2. SubSeq(whole, 1, k) \in Seq(Figure)
    BY <1>7 DEF Numerals
  <2>3. Len(SubSeq(whole, 1, k)) = k /\ SubSeq(whole, 1, k)[n + 1] = whole[n + 1]
    BY <1>0, <1>4, <2>1
  <2>4. whole[n + 1] \in Figure
    BY <1>0, <2>1, <2>2, <2>3
  <2> QED
    BY <1>0, <1>4, <1>5, <2>1, <2>4
<1>8. Taken(whole) = n
  <2>1. n # 0 => SubSeq(whole, 1, n) \in Numerals
    <3>1. n # 0 => SubSeq(text, 1, n) \in Numerals
      BY TakenNumeral
    <3>2. SubSeq(whole, 1, n) = SubSeq(text, 1, n)
      <4> HIDE DEF n
      <4>1. n \in 0..n
        BY <1>0
      <4> QED
        BY <1>6, <4>1
    <3> QED
      BY <3>1, <3>2
  <2>2. n \in 0..Len(whole)
    BY <1>0, <1>4
  <2> HIDE DEF n, whole
  <2> QED
    BY <1>4, <1>7, <2>1, <2>2, TakenIs
<1>9. NumeralOf(whole) = NumeralOf(text) /\ NumberOfText(whole) = NumberOfText(text)
  BY <1>0, <1>6, <1>8 DEF NumeralOf, NumberOfText
<1>10. parse_number_value(whole) = Read(NumberOfText(text), rest \o more)
  <2>1. parse_number_value(whole) =
           IF is_decimal(NumeralOf(whole)) /\ NumeralOf(whole) \notin Huge
           THEN Read(NumberOfText(whole), Behind(whole, Taken(whole)))
           ELSE Failure
    BY <1>4, NumberValueIs
  <2> HIDE DEF n, whole, rest
  <2> QED
    BY <1>1, <1>3, <1>8, <1>9, <2>1
<1> QED
  BY <1>1, <1>10, LongerRead

\* What a value begins with.
Openings == {"{", "[", Quote} \cup Literals \cup Lead

\* One depth of parse_value, by what the text begins with.
LEMMA NestedCases ==
    ASSUME NEW n, NEW inner, NEW start \in Text
    PROVE  LET text == Skipped[start]
               o == Nested(n, inner)[start]
           IN  /\ TooDeep(n) => o = Failure
               /\ ~TooDeep(n) =>
                    /\ Begins(text, {"{"}) => o = Container("object", inner, text)
                    /\ Begins(text, {"["}) => o = Container("array", inner, text)
                    /\ Begins(text, {Quote}) => o = parse_string_value(text)
                    /\ Begins(text, Literals) => o = parse_literal_value(text)
                    /\ Begins(text, Lead) => o = parse_number_value(text)
                    /\ ~Begins(text, Openings) => o = Failure
<1> DEFINE text == Skipped[start]
           o == Nested(n, inner)[start]
<1>1. o = CASE TooDeep(n) -> Failure
            [] ~TooDeep(n) /\ Begins(text, {"{"}) -> Container("object", inner, text)
            [] ~TooDeep(n) /\ Begins(text, {"["}) -> Container("array", inner, text)
            [] ~TooDeep(n) /\ Begins(text, {Quote}) -> parse_string_value(text)
            [] ~TooDeep(n) /\ Begins(text, Literals) -> parse_literal_value(text)
            [] ~TooDeep(n) /\ Begins(text, Lead) -> parse_number_value(text)
            [] OTHER -> Failure
  BY Zenon DEF Nested
<1>2. /\ "{" # "[" /\ "{" # Quote /\ "[" # Quote
      /\ {"{", "[", Quote} \cap Literals = {} /\ {"{", "[", Quote} \cap Lead = {}
      /\ Literals \cap Lead = {}
  BY PiecesAssumption, FiguresAssumption DEF Structure, Quote
<1> HIDE DEF text, o
<1>4. /\ Begins(text, {"{"}) => ~Begins(text, {"["}) /\ ~Begins(text, {Quote})
               /\ ~Begins(text, Literals) /\ ~Begins(text, Lead)
      /\ Begins(text, {"["}) => ~Begins(text, {"{"}) /\ ~Begins(text, {Quote})
               /\ ~Begins(text, Literals) /\ ~Begins(text, Lead)
      /\ Begins(text, {Quote}) => ~Begins(text, {"{"}) /\ ~Begins(text, {"["})
               /\ ~Begins(text, Literals) /\ ~Begins(text, Lead)
      /\ Begins(text, Literals) => ~Begins(text, {"{"}) /\ ~Begins(text, {"["})
               /\ ~Begins(text, {Quote}) /\ ~Begins(text, Lead)
      /\ Begins(text, Lead) => ~Begins(text, {"{"}) /\ ~Begins(text, {"["})
               /\ ~Begins(text, {Quote}) /\ ~Begins(text, Literals)
      /\ ~Begins(text, Openings) =>
            ~Begins(text, {"{"}) /\ ~Begins(text, {"["}) /\ ~Begins(text, {Quote})
                  /\ ~Begins(text, Literals) /\ ~Begins(text, Lead)
  BY <1>2 DEF Begins, Openings
<1>5. TooDeep(n) => o = Failure
  BY <1>1, <1>4
<1>6. ~TooDeep(n) =>
         /\ Begins(text, {"{"}) => o = Container("object", inner, text)
         /\ Begins(text, {"["}) => o = Container("array", inner, text)
         /\ Begins(text, {Quote}) => o = parse_string_value(text)
         /\ Begins(text, Literals) => o = parse_literal_value(text)
         /\ Begins(text, Lead) => o = parse_number_value(text)
         /\ ~Begins(text, Openings) => o = Failure
  BY <1>1, <1>4
<1> QED
  BY <1>5, <1>6 DEF text, o

\* So does parse_value at one depth, if it does one deeper.
LEMMA NestedLonger ==
    ASSUME NEW n \in Nat, ~TooDeep(n), NEW J, NEW inner \in [Text -> Outcome(J)],
           Advances(inner), ExtendsValues(inner)
    PROVE  ExtendsValues(Nested(n, inner))
<1> SUFFICES ASSUME NEW start \in Text, NEW more \in Text, Nested(n, inner)[start].ok,
                    Nested(n, inner)[start].json.type = "number" =>
                       ~Begins(Nested(n, inner)[start].rest \o more, Figure)
             PROVE  Nested(n, inner)[start \o more] = Longer(Nested(n, inner)[start], more)
  BY DEF ExtendsValues
<1> DEFINE text == Skipped[start]
<1>1. text \in Text
  BY SkippedPasses
<1>2. Begins(text, Openings)
  BY NestedCases, OutcomeForms
<1>3. text # <<>>
  BY <1>2 DEF Begins
<1>4. start \o more \in Text /\ Skipped[start \o more] = text \o more
  BY <1>3, SkippedLonger, LongerText
<1> DEFINE text2 == Skipped[start \o more]
<1> HIDE DEF text
<1>5. \A S : Begins(text2, S) <=> Begins(text, S)
  BY <1>1, <1>3, <1>4, LongerText
<1>6. CASE Begins(text, {"{"})
  <2>1. Nested(n, inner)[start] = Container("object", inner, text)
    BY <1>6, NestedCases DEF text
  <2>2. Nested(n, inner)[start \o more] = Container("object", inner, text2)
    BY <1>4, <1>5, <1>6, NestedCases
  <2> QED
    BY <1>1, <1>3, <1>4, <2>1, <2>2, ContainerLonger
<1>7. CASE Begins(text, {"["})
  <2>1. Nested(n, inner)[start] = Container("array", inner, text)
    BY <1>7, NestedCases DEF text
  <2>2. Nested(n, inner)[start \o more] = Container("array", inner, text2)
    BY <1>4, <1>5, <1>7, NestedCases
  <2> QED
    BY <1>1, <1>3, <1>4, <2>1, <2>2, ContainerLonger
<1>8. CASE Begins(text, {Quote})
  <2>1. Nested(n, inner)[start] = parse_string_value(text)
    BY <1>8, NestedCases DEF text
  <2>2. Nested(n, inner)[start \o more] = parse_string_value(text2)
    BY <1>4, <1>5, <1>8, NestedCases
  <2> QED
    BY <1>1, <1>4, <2>1, <2>2, StringValueLonger
<1>9. CASE Begins(text, Literals)
  <2>1. Nested(n, inner)[start] = parse_literal_value(text)
    BY <1>9, NestedCases DEF text
  <2>2. Nested(n, inner)[start \o more] = parse_literal_value(text2)
    BY <1>4, <1>5, <1>9, NestedCases
  <2> QED
    BY <1>1, <1>3, <1>4, <2>1, <2>2, LiteralValueLonger
<1>10. CASE Begins(text, Lead)
  <2>1. Nested(n, inner)[start] = parse_number_value(text)
    BY <1>10, NestedCases DEF text
  <2>2. Nested(n, inner)[start \o more] = parse_number_value(text2)
    BY <1>4, <1>5, <1>10, NestedCases
  <2>3. parse_number_value(text).json.type = "number"
    BY <1>1, <1>10, <2>1, NumberIsRead
  <2>4. ~Begins(parse_number_value(text).rest \o more, Figure)
    BY <2>1, <2>3
  <2> QED
    BY <1>1, <1>4, <1>10, <2>1, <2>2, <2>4, NumberValueLonger
<1> QED
  BY <1>2, <1>6, <1>7, <1>8, <1>9, <1>10 DEF Begins, Openings

\* Where parse_value reads a value, it reads the same one with more text behind it,
\* if that does not make another number of it.
LEMMA ParseValueLonger == \A n \in Nat : ExtendsValues(parse_value[n])
<1> DEFINE T == {n \in Nat : ExtendsValues(parse_value[n])}
<1>1. ASSUME NEW n \in Nat, TooDeep(n) PROVE n \in T
  <2>1. parse_value[n] = Nothing
    BY <1>1, ParseValueRead
  <2>2. ExtendsValues(Nothing)
    BY OutcomeForms DEF ExtendsValues, Nothing
  <2> QED
    BY <2>1, <2>2
<1>2. ASSUME NEW n \in Nat, ~TooDeep(n), n + 1 \in T PROVE n \in T
  <2> DEFINE inner == parse_value[n + 1]
             left == Left(n + 1)
  <2>1. inner \in [Text -> Outcome(left)] /\ Advances(inner) /\ ExtendsValues(inner)
    BY <1>2, ParseValueRead
  <2>2. parse_value[n] = Nested(n, inner)
    BY ParseValueEquation
  <2> HIDE DEF inner, left
  <2>3. ExtendsValues(Nested(n, inner))
    BY <1>2, <2>1, NestedLonger
  <2> QED
    BY <2>2, <2>3
<1>3. \A n \in Nat : TooDeep(n) \/ n + 1 \in T => n \in T
  BY <1>1, <1>2
<1> HIDE DEF T
<1>4. Nat \subseteq T
  BY <1>3, DepthInduction
<1> QED
  BY <1>4 DEF T

-----------------------------------------------------------------------------
(* Texts that are joined.                                                  *)

\* Texts are joined in any order.
LEMMA Associative == \A s, t, u \in Text : (s \o t) \o u = s \o (t \o u)
BY DEF Text

\* Joined texts are a text.
LEMMA TextJoined == \A s, t \in Text : s \o t \in Text
BY DEF Text

\* The empty text joined to another.
LEMMA JoinedEmpty == \A s \in Text : s \o <<>> = s /\ <<>> \o s = s
BY DEF Text

\* FlattenSeq by its running result.
LEMMA FlattenValue ==
    ASSUME NEW parts \in Seq(Text)
    PROVE  /\ parts = <<>> => FlattenSeq(parts) = <<>>
           /\ parts # <<>> =>
                 \E flat \in [1..Len(parts) -> Text] :
                    /\ FlattenSeq(parts) = flat[Len(parts)]
                    /\ \A i \in 1..Len(parts) :
                          flat[i] = IF i = 1 THEN parts[i] ELSE flat[i - 1] \o parts[i]
<1>0. Len(parts) \in Nat /\ (parts = <<>> <=> Len(parts) = 0)
  OBVIOUS
<1>1. parts = <<>> => FlattenSeq(parts) = <<>>
  BY DEF FlattenSeq
<1>2. ASSUME parts # <<>>
      PROVE  \E flat \in [1..Len(parts) -> Text] :
                /\ FlattenSeq(parts) = flat[Len(parts)]
                /\ \A i \in 1..Len(parts) :
                      flat[i] = IF i = 1 THEN parts[i] ELSE flat[i - 1] \o parts[i]
  <2> DEFINE S == 1..Len(parts)
             Round(g, i) == IF i = 1 THEN parts[i] ELSE g[i - 1] \o parts[i]
             step == [p \in [S -> Text] \X S |-> Round(p[1], p[2])]
             rank == [i \in S |-> i]
  <2>0. \A i \in S : parts[i] \in Text /\ (i # 1 => i - 1 \in S /\ i - 1 < i)
    BY <1>0
  <2>1. \A s, t \in Text : s \o t \in Text
    BY DEF Text
  <2>2. ASSUME NEW g \in [S -> Text], NEW i \in S
        PROVE  Round(g, i) \in Text
    <3>1. i # 1 => g[i - 1] \in Text
      BY <2>0
    <3> QED
      BY <3>1, <2>0, <2>1
  <2>3. ASSUME NEW g, NEW h, NEW i \in S, \A j \in S : j < i => g[j] = h[j]
        PROVE  Round(g, i) = Round(h, i)
    BY <2>0, <2>3
  <2> HIDE DEF Round
  <2>4. step \in [[S -> Text] \X S -> Text]
    BY <2>2
  <2>5. rank \in [S -> Nat] /\ \A i \in S : rank[i] = i
    BY <1>0
  <2> HIDE DEF rank
  <2>6. UsesLesser(S, Text, rank, step)
    <3>1. \A g, h \in [S -> Text], i \in S :
             (\A j \in S : j < i => g[j] = h[j]) => Round(g, i) = Round(h, i)
      BY <2>3
    <3>2. \A g \in [S -> Text], i \in S : step[<<g, i>>] = Round(g, i)
      OBVIOUS
    <3> HIDE DEF S, step
    <3>3. ASSUME NEW g \in [S -> Text], NEW h \in [S -> Text], NEW i \in S,
                 \A j \in S : rank[j] < rank[i] => g[j] = h[j]
          PROVE  step[<<g, i>>] = step[<<h, i>>]
      <4>1. \A j \in S : j < i => g[j] = h[j]
        BY <2>5, <3>3
      <4>2. Round(g, i) = Round(h, i)
        BY <3>1, <4>1
      <4> QED
        BY <3>2, <4>2
    <3> QED
      BY <3>3, Zenon DEF UsesLesser
  <2>7. PICK flat \in [S -> Text] : flat = [i \in S |-> step[<<flat, i>>]]
    <3> HIDE DEF step, S
    <3>1. Recursion(S, Text, step)
      BY <2>4, <2>5, <2>6, EmptyText, RecursionOnRank
    <3> QED
      BY <3>1 DEF Recursion
  <2>8. flat = [i \in S |-> Round(flat, i)]
    <3>1. \A i \in S : step[<<flat, i>>] = Round(flat, i)
      OBVIOUS
    <3> HIDE DEF step, S
    <3> QED
      BY <2>7, <3>1
  <2> DEFINE flatten == CHOOSE f : f = [i \in S |-> Round(f, i)]
  <2>9. flatten = [i \in S |-> Round(flatten, i)]
    <3>1. \E f : f = [i \in S |-> Round(f, i)]
      BY <2>8
    <3> QED
      BY <3>1, Zenon
  <2>10. FlattenSeq(parts) = flatten[Len(parts)]
    BY <1>0, <1>2, Zenon DEF FlattenSeq, Round
  <2> HIDE DEF flatten
  <2>11. \A i \in S : flatten[i] = Round(flatten, i)
    BY <2>9
  <2>12. \A i \in S : flatten[i] \in Text
    <3> DEFINE T == {i \in S : flatten[i] \notin Text}
    <3>1. SUFFICES ASSUME T # {} PROVE FALSE
      OBVIOUS
    <3>2. T \subseteq Nat
      BY <1>0
    <3>3. PICK i \in T : \A j \in T : i <= j
      BY <3>1, <3>2, LeastNatural
    <3>4. i # 1 => flatten[i - 1] \in Text
      <4>1. i # 1 => i - 1 \in S /\ ~(i <= i - 1)
        BY <2>0, <3>3
      <4> QED
        BY <4>1, <3>3
    <3>5. Round(flatten, i) \in Text
      BY <3>3, <3>4, <2>0, <2>1 DEF Round
    <3> QED
      BY <3>3, <3>5, <2>11
  <2>13. flatten \in [S -> Text]
    BY <2>9, <2>12
  <2> QED
    BY <2>10, <2>11, <2>13 DEF Round
<1> QED
  BY <1>1, <1>2

\* FlattenSeq from the front.
LEMMA FlattenCons ==
    ASSUME NEW part \in Text, NEW parts \in Seq(Text)
    PROVE  /\ FlattenSeq(parts) \in Text
           /\ FlattenSeq(<<part>> \o parts) = part \o FlattenSeq(parts)
<1> DEFINE all == <<part>> \o parts
<1>0. /\ all \in Seq(Text) /\ all # <<>> /\ Len(all) = Len(parts) + 1 /\ Len(parts) \in Nat
      /\ all[1] = part /\ \A i \in 1..Len(parts) : all[i + 1] = parts[i]
      /\ part \in Seq(Piece)
  BY DEF Text
<1> HIDE DEF all
<1>1. PICK g \in [1..Len(all) -> Text] :
         /\ FlattenSeq(all) = g[Len(all)]
         /\ \A i \in 1..Len(all) : g[i] = IF i = 1 THEN all[i] ELSE g[i - 1] \o all[i]
  BY <1>0, FlattenValue
<1>2. CASE parts = <<>>
  <2>0. FlattenSeq(parts) = <<>>
    BY <1>2, FlattenValue
  <2>a. Len(all) = 1
    BY <1>0, <1>2
  <2>1. FlattenSeq(parts) = <<>> /\ Len(all) = 1
    BY <2>0, <2>a
  <2>2. g[1] = part
    BY <1>0, <1>1, <2>1
  <2> QED
    <3>1. FlattenSeq(all) = part /\ part \o <<>> = part
      BY <1>1, <2>1, <2>2, JoinedEmpty
    <3> QED
      BY <3>1, <2>1, EmptyText DEF all
<1>3. CASE parts # <<>>
  <2>1. PICK f \in [1..Len(parts) -> Text] :
           /\ FlattenSeq(parts) = f[Len(parts)]
           /\ \A i \in 1..Len(parts) : f[i] = IF i = 1 THEN parts[i] ELSE f[i - 1] \o parts[i]
    BY <1>3, FlattenValue
  <2>2. \A i \in 1..Len(parts) : g[i + 1] = part \o f[i]
    <3> DEFINE T == {i \in 1..Len(parts) : g[i + 1] # part \o f[i]}
    <3>1. SUFFICES ASSUME T # {} PROVE FALSE
      OBVIOUS
    <3>2. PICK i \in T : \A j \in T : i <= j
      <4>1. T \subseteq Nat
        BY <1>0
      <4> QED
        BY <3>1, <4>1, LeastNatural
    <3>3. i + 1 \in 1..Len(all) /\ i + 1 # 1 /\ i + 1 - 1 = i /\ i \in 1..Len(parts)
                /\ i \in 1..Len(all)
      BY <1>0
    <3>4. g[i + 1] = g[i] \o parts[i]
      <4> DEFINE j == i + 1
      <4>1. j \in 1..Len(all) /\ j # 1 /\ j - 1 = i /\ all[j] = parts[i]
        BY <1>0, <3>3
      <4> HIDE DEF j
      <4>2. g[j] = g[j - 1] \o all[j]
        BY <1>1, <4>1
      <4> QED
        BY <4>1, <4>2 DEF j
    <3>5. CASE i = 1
      <4>1. g[1] = part /\ f[1] = parts[1]
        BY <1>0, <1>1, <2>1, <3>3, <3>5
      <4> QED
        BY <3>2, <3>4, <3>5, <4>1
    <3>6. CASE i # 1
      <4>1. i - 1 \in 1..Len(parts) /\ ~(i <= i - 1) /\ i - 1 + 1 = i
        BY <1>0, <3>3, <3>6
      <4>2. g[i] = part \o f[i - 1]
        BY <4>1, <3>2
      <4>3. f[i] = f[i - 1] \o parts[i]
        BY <2>1, <3>3, <3>6
      <4>4. f[i - 1] \in Text /\ parts[i] \in Text
        BY <2>1, <3>3, <4>1
      <4>5. (part \o f[i - 1]) \o parts[i] = part \o (f[i - 1] \o parts[i])
        <5> DEFINE a == f[i - 1]
                   b == parts[i]
        <5>1. a \in Text /\ b \in Text
          BY <4>4
        <5> HIDE DEF a, b
        <5>2. (part \o a) \o b = part \o (a \o b)
          BY <5>1, Associative
        <5> QED
          BY <5>2 DEF a, b
      <4> QED
        BY <3>2, <3>4, <4>2, <4>3, <4>5
    <3> QED
      BY <3>5, <3>6
  <2>3. Len(parts) \in 1..Len(parts)
    BY <1>0, <1>3
  <2>4. f[Len(parts)] \in Text
    BY <2>1, <2>3
  <2> QED
    BY <1>0, <1>1, <2>1, <2>2, <2>3, <2>4 DEF all
<1> QED
  BY <1>2, <1>3

-----------------------------------------------------------------------------
(* Strings, written and read.                                              *)

\* A text with one piece in front.
LEMMA OnePiece ==
    ASSUME NEW x \in Piece, NEW t \in Text
    PROVE  /\ <<x>> \in Text /\ <<x>> \o t \in Text
           /\ <<x>> \o t # <<>>
           /\ Head(<<x>> \o t) = x
           /\ Tail(<<x>> \o t) = t
           /\ \A S : Begins(<<x>> \o t, S) <=> x \in S
<1>1. <<x>> \in Seq(Piece) /\ t \in Seq(Piece)
  BY DEF Text
<1>2. <<x>> \o t # <<>> /\ Head(<<x>> \o t) = x /\ <<x>> \o t \in Seq(Piece)
  BY <1>1
<1>3. Tail(<<x>> \o t) = t
  BY <1>1
<1> QED
  BY <1>1, <1>2, <1>3 DEF Begins, Text

\* Two pieces in front are one in front of another.
LEMMA TwoPieces ==
    ASSUME NEW x \in Piece, NEW y \in Piece, NEW t \in Text
    PROVE  /\ <<x, y>> \in Text
           /\ <<x, y>> \o t = <<x>> \o (<<y>> \o t)
<1>1. <<x>> \in Text /\ <<y>> \in Text /\ <<x, y>> \in Text
  BY DEF Text
<1>2. <<x, y>> = <<x>> \o <<y>>
  <2> DEFINE s == <<x>>
             u == <<y>>
             v == <<x, y>>
  <2>1. s \in Seq(Piece) /\ u \in Seq(Piece) /\ v \in Seq(Piece)
        /\ Len(s) = 1 /\ Len(u) = 1 /\ Len(v) = 2
        /\ s[1] = x /\ u[1] = y /\ v[1] = x /\ v[2] = y
    OBVIOUS
  <2> HIDE DEF s, u, v
  <2>2. s \o u \in Seq(Piece) /\ Len(s \o u) = 2 /\ (s \o u)[1] = x /\ (s \o u)[2] = y
    BY <2>1, ConcatProperties
  <2>3. \A i \in 1..Len(v) : i = 1 \/ i = 2
    BY <2>1
  <2>4. v = s \o u
    BY <2>1, <2>2, <2>3, SeqEqual
  <2> QED
    BY <2>4 DEF s, u, v
<1>3. (<<x>> \o <<y>>) \o t = <<x>> \o (<<y>> \o t)
  BY <1>1, Associative
<1> QED
  BY <1>1, <1>2, <1>3

\* The same for three.
LEMMA ThreePieces ==
    ASSUME NEW x \in Piece, NEW y \in Piece, NEW z \in Piece, NEW t \in Text
    PROVE  <<x, y, z>> \o t = <<x>> \o (<<y>> \o (<<z>> \o t))
<1>1. <<x>> \in Text /\ <<y, z>> \in Text /\ <<x, y, z>> \in Text
  BY DEF Text
<1>2. <<x, y, z>> = <<x>> \o <<y, z>>
  OBVIOUS
<1>3. (<<x>> \o <<y, z>>) \o t = <<x>> \o (<<y, z>> \o t)
  BY <1>1, Associative
<1>4. <<y, z>> \o t = <<y>> \o (<<z>> \o t)
  BY TwoPieces
<1> QED
  BY <1>1, <1>2, <1>3, <1>4

\* What stands behind a text is what it was put before.
LEMMA BehindWhole ==
    ASSUME NEW s \in Text, NEW t \in Text
    PROVE  Behind(s \o t, Len(s)) = t
<1>1. Len(s) \in Nat /\ Len(t) \in Nat /\ s \in Seq(Piece) /\ t \in Seq(Piece)
  BY DEF Text
<1>2. Behind(s, Len(s)) = <<>>
  BY <1>1, SubSeqEmpty DEF Behind
<1>3. Behind(s \o t, Len(s)) = Behind(s, Len(s)) \o t
  BY <1>1, BehindLonger
<1> QED
  BY <1>1, <1>2, <1>3

\* skip_quotes passes an escape as a whole, an escaped quote too.
LEMMA SkipEscape ==
    ASSUME NEW x \in Piece, NEW t \in Text
    PROVE  skip_quotes[<<Backslash, x>> \o t] = skip_quotes[t]
<1> DEFINE s == <<Backslash, x>>
           text == s \o t
<1>1. Backslash \in Piece /\ Quote # Backslash
  BY PiecesAssumption DEF Quote, Backslash
<1>2. s \in Text /\ <<x>> \o t \in Text /\ text = <<Backslash>> \o (<<x>> \o t)
  <2>1. <<Backslash, x>> \in Text /\ <<Backslash, x>> \o t = <<Backslash>> \o (<<x>> \o t)
    BY <1>1, TwoPieces, Zenon
  <2> QED
    BY <2>1, OnePiece
<1>3. text \in Text /\ text # <<>> /\ ~Begins(text, {Quote}) /\ Begins(text, {Backslash})
  BY <1>1, <1>2, OnePiece
<1>4. Len(text) > 1 /\ Len(s) = 2
  <2>1. Len(s) = 2
    OBVIOUS
  <2>2. Len(text) = Len(s) + Len(t) /\ Len(t) \in Nat
    BY <1>2, LongerText, TextLength
  <2> HIDE DEF s, text
  <2> QED
    BY <2>1, <2>2
<1>5. Behind(text, 2) = t
  <2> HIDE DEF s
  <2> QED
    BY <1>2, <1>4, BehindWhole
<1> HIDE DEF text
<1>6. skip_quotes[text] = skip_quotes[t]
  BY <1>3, <1>4, <1>5, SkipQuotesValue
<1> QED
  BY <1>6 DEF text

\* It passes every other piece.
LEMMA SkipPlain ==
    ASSUME NEW x \in Piece \ {Quote, Backslash}, NEW t \in Text
    PROVE  skip_quotes[<<x>> \o t] = skip_quotes[t]
<1> DEFINE text == <<x>> \o t
<1>1. /\ text \in Text /\ text # <<>> /\ ~Begins(text, {Quote})
      /\ ~Begins(text, {Backslash}) /\ Tail(text) = t
  BY OnePiece
<1> HIDE DEF text
<1>2. skip_quotes[text] = skip_quotes[t]
  BY <1>1, SkipQuotesValue
<1> QED
  BY <1>2 DEF text

\* The pieces that have a meaning in a string are different ones.
LEMMA NamedPieces ==
    /\ Quote \in Piece /\ Backslash \in Piece /\ "/" \in Piece /\ "n" \in Piece
    /\ "u" \in Piece /\ "0001" \in Piece /\ "0000" \in Piece
    /\ "D83D" \in Piece /\ "DE00" \in Piece
    /\ Quote # Backslash /\ Quote # "/" /\ Backslash # "/"
    /\ {"u", "n", "0001", "0000", "D83D", "DE00"} \cap {Quote, Backslash, "/"} = {}
    /\ {NewLine, Control, Nul, Astral} \cap {Quote, Backslash, "/", Crlf} = {}
    /\ NewLine # Control /\ NewLine # Nul /\ Control # Nul
    /\ Astral \notin {NewLine, Control, Nul}
    /\ Crlf \notin {Quote, Backslash, "/"}
BY PiecesAssumption
   DEF Structure, Quote, Backslash, NewLine, Control, Nul, Astral, Crlf

\* A \u escape in two parts.
LEMMA EscapeInTwo ==
    ASSUME NEW x \in Piece, NEW s \in Text
    PROVE  <<Backslash, "u", x>> \o s = <<Backslash, "u">> \o (<<x>> \o s)
<1>1. Backslash \in Piece /\ "u" \in Piece
  BY NamedPieces
<1>2. <<Backslash, "u", x>> \o s = <<Backslash>> \o (<<"u">> \o (<<x>> \o s))
  BY <1>1, ThreePieces, Zenon
<1>3. <<x>> \o s \in Text
  BY OnePiece
<1> DEFINE t == <<x>> \o s
<1> HIDE DEF t
<1>4. <<Backslash, "u">> \o t = <<Backslash>> \o (<<"u">> \o t)
  BY <1>1, <1>3, TwoPieces, Zenon DEF t
<1> QED
  BY <1>2, <1>4 DEF t

\* A pair of surrogates is two \u escapes.
LEMMA PairInTwo ==
    ASSUME NEW t \in Text
    PROVE  <<Backslash, "u", "D83D", Backslash, "u", "DE00">> \o t
             = <<Backslash, "u", "D83D">> \o (<<Backslash, "u", "DE00">> \o t)
<1>1. Backslash \in Piece /\ "u" \in Piece /\ "D83D" \in Piece /\ "DE00" \in Piece
  BY NamedPieces
<1> DEFINE u == <<Backslash, "u", "D83D">>
           v == <<Backslash, "u", "DE00">>
<1>2. u \in Text /\ v \in Text
  BY <1>1 DEF Text
<1>3. <<Backslash, "u", "D83D", Backslash, "u", "DE00">> = u \o v
  OBVIOUS
<1> HIDE DEF u, v
<1>4. (u \o v) \o t = u \o (v \o t)
  BY <1>2, Associative
<1> QED
  BY <1>3, <1>4 DEF u, v

\* How a character is written.
LEMMA EscapedForms ==
    ASSUME NEW char \in Char, NEW ascii \in BOOLEAN
    PROVE  \/ char \in {Quote, Backslash, "/"} /\ Escaped(char, ascii) = <<Backslash, char>>
           \/ char = NewLine /\ Escaped(char, ascii) = <<Backslash, "n">>
           \/ char = Control /\ Escaped(char, ascii) = <<Backslash, "u", "0001">>
           \/ char = Nul /\ Escaped(char, ascii) = <<Backslash, "u", "0000">>
           \/ /\ char = Astral /\ ascii
              /\ Escaped(char, ascii) = <<Backslash, "u", "D83D", Backslash, "u", "DE00">>
           \/ /\ char \in Piece \ {Quote, Backslash, NewLine, Crlf, Control, Nul}
              /\ Escaped(char, ascii) = <<char>>
<1>1. char \in Piece /\ char # Crlf
  BY DEF Char
<1>2. CASE char \in {Quote, Backslash, "/"}
  BY <1>2, NamedPieces DEF Escaped
<1>3. CASE char = NewLine
  BY <1>3, NamedPieces DEF Escaped
<1>4. CASE char = Control
  BY <1>4, NamedPieces DEF Escaped
<1>5. CASE char = Nul
  BY <1>5, NamedPieces DEF Escaped
<1>6. CASE char = Astral /\ ascii
  BY <1>6, NamedPieces DEF Escaped
<1>7. CASE /\ char \notin {Quote, Backslash, "/"} /\ char # NewLine /\ char # Control
           /\ char # Nul /\ ~(char = Astral /\ ascii)
  <2>1. Escaped(char, ascii) = <<char>>
    BY <1>7 DEF Escaped
  <2> QED
    BY <2>1, <1>1, <1>7
<1> QED
  BY <1>2, <1>3, <1>4, <1>5, <1>6, <1>7

\* An escaped character is a text.
LEMMA EscapedText ==
    ASSUME NEW char \in Char, NEW ascii \in BOOLEAN
    PROVE  Escaped(char, ascii) \in Text
<1>1. char \in Piece
  BY DEF Char
<1>2. <<char>> \in Text /\ <<Backslash, char>> \in Text /\ <<Backslash, "n">> \in Text
  BY <1>1, NamedPieces DEF Text
<1>3. <<Backslash, "u", "0001">> \in Text /\ <<Backslash, "u", "0000">> \in Text
  BY NamedPieces DEF Text
<1>4. <<Backslash, "u", "D83D", Backslash, "u", "DE00">> \in Text
  BY NamedPieces DEF Text
<1> QED
  BY <1>2, <1>3, <1>4, EscapedForms

\* skip_quotes passes over a character as a whole, whatever it is.
LEMMA EscapedSkipped ==
    ASSUME NEW char \in Char, NEW ascii \in BOOLEAN, NEW t \in Text
    PROVE  skip_quotes[Escaped(char, ascii) \o t] = skip_quotes[t]
<1>1. ASSUME NEW x \in Piece \ {Quote, Backslash}, NEW s \in Text
      PROVE  skip_quotes[<<Backslash, "u", x>> \o s] = skip_quotes[s]
  <2> DEFINE behind == <<x>> \o s
  <2>1. behind \in Text
    BY OnePiece
  <2>2. <<Backslash, "u", x>> \o s = <<Backslash, "u">> \o behind
    BY EscapeInTwo
  <2>3. skip_quotes[behind] = skip_quotes[s]
    BY SkipPlain
  <2> HIDE DEF behind
  <2>5. skip_quotes[<<Backslash, "u">> \o behind] = skip_quotes[behind]
    BY <2>1, NamedPieces, SkipEscape
  <2> QED
    BY <2>2, <2>3, <2>5
<1>2. CASE char \in {Quote, Backslash, "/"} /\ Escaped(char, ascii) = <<Backslash, char>>
  BY <1>2, NamedPieces, SkipEscape
<1>3. CASE char = NewLine /\ Escaped(char, ascii) = <<Backslash, "n">>
  BY <1>3, NamedPieces, SkipEscape
<1>4. CASE char = Control /\ Escaped(char, ascii) = <<Backslash, "u", "0001">>
  BY <1>1, <1>4, NamedPieces
<1>5. CASE char = Nul /\ Escaped(char, ascii) = <<Backslash, "u", "0000">>
  BY <1>1, <1>5, NamedPieces
<1>6. CASE Escaped(char, ascii) = <<Backslash, "u", "D83D", Backslash, "u", "DE00">>
  <2> DEFINE half == <<Backslash, "u", "DE00">> \o t
  <2>1. half \in Text
    <3>1. <<Backslash, "u", "DE00">> \in Text
      BY NamedPieces DEF Text
    <3> QED
      BY <3>1, TextJoined
  <2>2. Escaped(char, ascii) \o t = <<Backslash, "u", "D83D">> \o half
    BY <1>6, PairInTwo
  <2>3. skip_quotes[half] = skip_quotes[t]
    BY <1>1, NamedPieces
  <2> HIDE DEF half
  <2>4. skip_quotes[<<Backslash, "u", "D83D">> \o half] = skip_quotes[half]
    BY <1>1, <2>1, NamedPieces
  <2> QED
    BY <2>2, <2>3, <2>4
<1>7. CASE /\ char \in Piece \ {Quote, Backslash, NewLine, Crlf, Control, Nul}
           /\ Escaped(char, ascii) = <<char>>
  BY <1>7, SkipPlain
<1> QED
  BY <1>2, <1>3, <1>4, <1>5, <1>6, <1>7, EscapedForms

\* What is joined begins with its first part.
LEMMA PrefixOfJoined ==
    ASSUME NEW s \in Text, NEW t \in Text
    PROVE  IsPrefix(s, s \o t)
<1>1. Len(s) \in Nat /\ Len(t) \in Nat /\ s \in Seq(Piece) /\ t \in Seq(Piece)
  BY DEF Text
<1> DEFINE u == SubSeq(s, 1, Len(s))
           v == SubSeq(s \o t, 1, Len(s))
<1>2. \A i \in 1..Len(s) : s[i] \in Piece /\ (s \o t)[i] = s[i]
  BY <1>1
<1>3. u \in Seq(Piece) /\ Len(u) = Len(s) /\ \A i \in 1..Len(s) : u[i] = s[i]
  BY <1>1, <1>2, SubSeqProperties
<1>4. v \in Seq(Piece) /\ Len(v) = Len(s) /\ \A i \in 1..Len(s) : v[i] = s[i]
  BY <1>1, <1>2, SubSeqProperties
<1> HIDE DEF u, v
<1>5. u = v
  BY <1>3, <1>4, SeqEqual
<1>6. Len(s) <= Len(s \o t)
  BY <1>1
<1> QED
  BY <1>5, <1>6 DEF IsPrefix, u, v

\* Two escapes of which neither begins with the other.
LEMMA PrefixThird ==
    ASSUME NEW s \in Text, NEW t \in Text, IsPrefix(s, t), Len(s) >= 3
    PROVE  s[3] = t[3]
<1>1. /\ Len(s) \in Nat /\ Len(t) \in Nat /\ s \in Seq(Piece) /\ t \in Seq(Piece)
      /\ Len(s) <= Len(t) /\ SubSeq(s, 1, Len(s)) = SubSeq(t, 1, Len(s))
  BY DEF Text, IsPrefix
<1>2. \A i \in 1..Len(s) : s[i] \in Piece /\ t[i] \in Piece
  BY <1>1
<1>3. \A i \in 1..Len(s) : SubSeq(s, 1, Len(s))[i] = s[i] /\ SubSeq(t, 1, Len(s))[i] = t[i]
  BY <1>1, <1>2, SubSeqProperties
<1>4. 3 \in 1..Len(s)
  BY <1>1
<1> QED
  BY <1>1, <1>3, <1>4

\* parse_utf16 reads the escapes that are written.
LEMMA UnicodeRead ==
    ASSUME NEW t \in Text
    PROVE  /\ parse_utf16(<<Backslash, "u", "0001">> \o t) = Stands(Control, 3)
           /\ parse_utf16(<<Backslash, "u", "0000">> \o t) = Stands(Nul, 3)
           /\ parse_utf16(<<Backslash, "u", "D83D", Backslash, "u", "DE00">> \o t)
                = Stands(Astral, 6)
<1> DEFINE a == <<Backslash, "u", "0001">>
           b == <<Backslash, "u", "0000">>
           c == <<Backslash, "u", "D83D", Backslash, "u", "DE00">>
<1>1. a \in Text /\ b \in Text /\ c \in Text
  BY NamedPieces DEF Text
<1>2. /\ Len(a) = 3 /\ Len(b) = 3 /\ Len(c) = 6
      /\ a[3] = "0001" /\ b[3] = "0000" /\ c[3] = "D83D"
  OBVIOUS
<1> HIDE DEF a, b, c
<1>l. Len(a) >= 3 /\ Len(b) >= 3 /\ Len(c) >= 3
  BY <1>2
<1>3. ASSUME NEW s \in {a, b, c}
      PROVE  /\ s \o t \in Text /\ IsPrefix(s, s \o t) /\ (s \o t)[3] = s[3]
  <2>1. s \in Text /\ Len(s) >= 3
    BY <1>1, <1>l
  <2>2. s \o t \in Text /\ IsPrefix(s, s \o t)
    BY <2>1, TextJoined, PrefixOfJoined
  <2> QED
    BY <2>1, <2>2, PrefixThird
<1>4. \A s \in {a, b, c}, u \in {a, b, c} : IsPrefix(u, s \o t) => u[3] = s[3]
  <2>1. SUFFICES ASSUME NEW s \in {a, b, c}, NEW u \in {a, b, c}, IsPrefix(u, s \o t)
                 PROVE  u[3] = s[3]
    OBVIOUS
  <2>2. u \in Text /\ Len(u) >= 3 /\ s \o t \in Text /\ (s \o t)[3] = s[3]
    BY <1>1, <1>l, <1>3
  <2>3. u[3] = (s \o t)[3]
    <3> DEFINE whole == s \o t
    <3>1. whole \in Text /\ IsPrefix(u, whole)
      BY <2>1, <2>2
    <3> HIDE DEF whole
    <3>2. u[3] = whole[3]
      BY <2>2, <3>1, PrefixThird
    <3> QED
      BY <3>2 DEF whole
  <2> QED
    BY <2>2, <2>3
<1>5. /\ IsPrefix(a, a \o t) /\ ~IsPrefix(b, a \o t) /\ ~IsPrefix(c, a \o t)
      /\ IsPrefix(b, b \o t) /\ ~IsPrefix(a, b \o t) /\ ~IsPrefix(c, b \o t)
      /\ IsPrefix(c, c \o t) /\ ~IsPrefix(a, c \o t) /\ ~IsPrefix(b, c \o t)
  BY <1>2, <1>3, <1>4
<1>6. \A text : parse_utf16(text) =
         CASE IsPrefix(a, text) -> Stands(Control, 3)
           [] IsPrefix(b, text) -> Stands(Nul, 3)
           [] IsPrefix(c, text) -> Stands(Astral, 6)
           [] OTHER -> Refused
  BY Zenon DEF parse_utf16, a, b, c
<1>7. parse_utf16(a \o t) = Stands(Control, 3) /\ parse_utf16(b \o t) = Stands(Nul, 3)
      /\ parse_utf16(c \o t) = Stands(Astral, 6)
  BY <1>5, <1>6
<1> QED
  BY <1>7 DEF a, b, c

\* process_string reads a character as it was written.
LEMMA EscapedRead ==
    ASSUME NEW char \in Char, NEW ascii \in BOOLEAN, NEW t \in Text
    PROVE  Character(Escaped(char, ascii) \o t) = Stands(char, Len(Escaped(char, ascii)))
<1> DEFINE Bad == {NewLine, Crlf, Control, Nul}
<1>0. Backslash \notin Bad /\ Backslash # Quote
  BY NamedPieces
<1>1. ASSUME NEW x \in Piece, NEW s \in Text
      PROVE  /\ ~Begins(<<Backslash, x>> \o s, Bad)
             /\ Begins(<<Backslash, x>> \o s, {Backslash})
             /\ \A S : Begins(Tail(<<Backslash, x>> \o s), S) <=> x \in S
             /\ (<<Backslash, x>> \o s)[2] = x
  <2> DEFINE text == <<Backslash, x>> \o s
             tail == <<x>> \o s
  <2>1. text = <<Backslash>> \o tail
    <3>1. Backslash \in Piece
      BY NamedPieces
    <3> QED
      BY <3>1, TwoPieces, Zenon
  <2>2. tail \in Text /\ \A S : Begins(tail, S) <=> x \in S
    BY OnePiece
  <2> HIDE DEF tail
  <2>3. Tail(text) = tail /\ \A S : Begins(text, S) <=> Backslash \in S
    BY <2>1, <2>2, NamedPieces, OnePiece
  <2>4. text[2] = x
    <3> DEFINE b == <<Backslash, x>>
    <3>1. b \in Seq(Piece) /\ Len(b) = 2 /\ b[2] = x /\ s \in Seq(Piece)
      BY NamedPieces DEF Text
    <3> HIDE DEF b
    <3>2. (b \o s)[2] = b[2]
      <4>1. Len(s) \in Nat
        BY <3>1, LenProperties
      <4>2. 2 \in 1..Len(b) + Len(s) /\ 2 <= Len(b)
        BY <3>1, <4>1
      <4> QED
        BY <3>1, <4>2, ConcatProperties
    <3> QED
      BY <3>1, <3>2 DEF b
  <2> QED
    BY <1>0, <2>2, <2>3, <2>4
<1>2. ASSUME NEW x \in Piece, NEW s \in Text
      PROVE  Character(<<Backslash, x>> \o s) =
                CASE x \in {Quote, Backslash, "/"} -> Stands(x, 2)
                  [] x = "n" -> Stands(NewLine, 2)
                  [] OTHER -> parse_utf16(<<Backslash, x>> \o s)
  <2> DEFINE text == <<Backslash, x>> \o s
  <2>1. /\ ~Begins(text, Bad) /\ Begins(text, {Backslash}) /\ text[2] = x
        /\ Begins(Tail(text), {Quote, Backslash, "/"}) <=> x \in {Quote, Backslash, "/"}
        /\ Begins(Tail(text), {"n"}) <=> x = "n"
    BY <1>1
  <2> HIDE DEF text
  <2>2. Character(text) =
           CASE Begins(Tail(text), {Quote, Backslash, "/"}) -> Stands(text[2], 2)
             [] Begins(Tail(text), {"n"}) -> Stands(NewLine, 2)
             [] OTHER -> parse_utf16(text)
    BY <2>1 DEF Character
  <2>3. "n" \notin {Quote, Backslash, "/"}
    BY NamedPieces
  <2>4. Character(text) =
           CASE x \in {Quote, Backslash, "/"} -> Stands(x, 2)
             [] x = "n" -> Stands(NewLine, 2)
             [] OTHER -> parse_utf16(text)
    BY <2>1, <2>2, <2>3
  <2> QED
    BY <2>4 DEF text
<1>3. CASE char \in {Quote, Backslash, "/"} /\ Escaped(char, ascii) = <<Backslash, char>>
  <2>1. char \in Piece /\ char # "n"
    BY <1>3, NamedPieces
  <2>2. Character(<<Backslash, char>> \o t) = Stands(char, 2)
    BY <1>2, <1>3, <2>1
  <2> QED
    BY <1>3, <2>2
<1>4. CASE char = NewLine /\ Escaped(char, ascii) = <<Backslash, "n">>
  <2>1. "n" \in Piece /\ "n" \notin {Quote, Backslash, "/"}
    BY NamedPieces
  <2>2. Character(<<Backslash, "n">> \o t) = Stands(NewLine, 2)
    BY <1>2, <2>1
  <2> QED
    BY <1>4, <2>2
<1>5. ASSUME NEW s \in Text
      PROVE  Character(<<Backslash, "u">> \o s) = parse_utf16(<<Backslash, "u">> \o s)
  <2>1. "u" \in Piece /\ "u" \notin {Quote, Backslash, "/"} /\ "u" # "n"
    BY NamedPieces
  <2> QED
    BY <1>2, <2>1
<1>6. ASSUME NEW x \in Piece, NEW s \in Text
      PROVE  Character(<<Backslash, "u", x>> \o s) = parse_utf16(<<Backslash, "u", x>> \o s)
  <2> DEFINE behind == <<x>> \o s
  <2>1. behind \in Text
    BY OnePiece
  <2>2. <<Backslash, "u", x>> \o s = <<Backslash, "u">> \o behind
    BY EscapeInTwo
  <2> HIDE DEF behind
  <2> QED
    BY <2>1, <2>2, <1>5
<1>7. CASE char = Control /\ Escaped(char, ascii) = <<Backslash, "u", "0001">>
  <2>1. Character(<<Backslash, "u", "0001">> \o t) = Stands(Control, 3)
    BY <1>6, UnicodeRead, NamedPieces
  <2> QED
    BY <1>7, <2>1
<1>8. CASE char = Nul /\ Escaped(char, ascii) = <<Backslash, "u", "0000">>
  <2>1. Character(<<Backslash, "u", "0000">> \o t) = Stands(Nul, 3)
    BY <1>6, UnicodeRead, NamedPieces
  <2> QED
    BY <1>8, <2>1
<1>9. CASE /\ char = Astral
           /\ Escaped(char, ascii) = <<Backslash, "u", "D83D", Backslash, "u", "DE00">>
  <2> DEFINE half == <<Backslash, "u", "DE00">> \o t
             whole == <<Backslash, "u", "D83D", Backslash, "u", "DE00">> \o t
  <2>1. half \in Text
    <3>1. <<Backslash, "u", "DE00">> \in Text
      BY NamedPieces DEF Text
    <3> QED
      BY <3>1, TextJoined
  <2>2. whole = <<Backslash, "u", "D83D">> \o half
    BY PairInTwo
  <2>3. parse_utf16(whole) = Stands(Astral, 6)
    BY UnicodeRead
  <2> HIDE DEF half, whole
  <2>4. Character(whole) = Stands(Astral, 6)
    BY <1>6, <2>1, <2>2, <2>3, NamedPieces
  <2> QED
    BY <1>9, <2>4 DEF whole
<1>10. CASE /\ char \in Piece \ {Quote, Backslash, NewLine, Crlf, Control, Nul}
            /\ Escaped(char, ascii) = <<char>>
  <2> DEFINE text == <<char>> \o t
  <2>1. /\ ~Begins(text, Bad) /\ ~Begins(text, {Backslash}) /\ Head(text) = char
    BY <1>10, OnePiece
  <2> HIDE DEF text
  <2>2. Character(text) = Stands(char, 1)
    BY <2>1 DEF Character
  <2> QED
    BY <1>10, <2>2 DEF text
<1> QED
  BY <1>3, <1>4, <1>7, <1>8, <1>9, <1>10, EscapedForms

\* A sequence is what comes first and what is left, which is shorter.
LEMMA SequenceParts ==
    ASSUME NEW S, NEW s \in Seq(S), s # <<>>
    PROVE  /\ Head(s) \in S /\ Tail(s) \in Seq(S)
           /\ s = <<Head(s)>> \o Tail(s)
           /\ Len(Tail(s)) < Len(s)
OBVIOUS

\* What holds of a sequence when it holds of all shorter ones, holds of all.
LEMMA SequenceInduction ==
    ASSUME NEW S, NEW T,
           \A s \in Seq(S) : (\A t \in Seq(S) : Len(t) < Len(s) => t \in T) => s \in T
    PROVE  Seq(S) \subseteq T
<1> DEFINE all == Seq(S)
           rank == [s \in all |-> Len(s)]
<1>1. rank \in [all -> Nat] /\ \A s \in all : rank[s] = Len(s)
  OBVIOUS
<1>2. \A s \in all : (\A t \in all : Len(t) < Len(s) => t \in T) => s \in T
  OBVIOUS
<1> HIDE DEF all, rank
<1>3. \A s \in all : (\A t \in all : rank[t] < rank[s] => t \in T) => s \in T
  BY <1>1, <1>2
<1>4. all \subseteq T
  BY <1>1, <1>3, RankInduction
<1> QED
  BY <1>4 DEF all

\* The characters between the quotes, as they are written.
Body(chars, ascii) == FlattenSeq([i \in DOMAIN chars |-> Escaped(chars[i], ascii)])

\* The characters of a string are written one after the other.
LEMMA BodyCons ==
    ASSUME NEW ascii \in BOOLEAN, NEW c \in Char, NEW chars \in Seq(Char)
    PROVE  /\ Body(chars, ascii) \in Text
           /\ Body(<<>>, ascii) = <<>>
           /\ Body(<<c>> \o chars, ascii) = Escaped(c, ascii) \o Body(chars, ascii)
<1> DEFINE Escapes(cs) == [i \in DOMAIN cs |-> Escaped(cs[i], ascii)]
           all == <<c>> \o chars
<1>1. ASSUME NEW cs \in Seq(Char)
      PROVE  /\ Escapes(cs) \in Seq(Text) /\ Len(Escapes(cs)) = Len(cs)
             /\ \A i \in 1..Len(cs) : Escapes(cs)[i] = Escaped(cs[i], ascii)
  <2>1. DOMAIN cs = 1..Len(cs) /\ Len(cs) \in Nat /\ \A i \in 1..Len(cs) : cs[i] \in Char
    OBVIOUS
  <2>2. \A i \in 1..Len(cs) : Escaped(cs[i], ascii) \in Text
    BY <2>1, EscapedText
  <2> QED
    BY <2>1, <2>2
<1>2. /\ all \in Seq(Char) /\ Len(all) = Len(chars) + 1 /\ all[1] = c /\ Len(chars) \in Nat
      /\ \A i \in 1..Len(chars) : all[i + 1] = chars[i]
  OBVIOUS
<1> HIDE DEF all
<1>3. Escapes(all) = <<Escaped(c, ascii)>> \o Escapes(chars)
  <2> DEFINE s == Escapes(all)
             w == Escapes(chars)
             e == Escaped(c, ascii)
             t == <<e>> \o w
  <2>1. e \in Text
    BY EscapedText
  <2>2. w \in Seq(Text) /\ Len(w) = Len(chars)
    BY <1>1
  <2>3. s \in Seq(Text) /\ Len(s) = Len(chars) + 1
    BY <1>1, <1>2
  <2>4. s[1] = e
    <3>1. 1 \in 1..Len(all)
      BY <1>2
    <3> QED
      BY <3>1, <1>1, <1>2
  <2>5. \A i \in 1..Len(chars) : s[i + 1] = w[i]
    <3>1. \A i \in 1..Len(chars) : i + 1 \in 1..Len(all)
      BY <1>2
    <3> QED
      BY <3>1, <1>1, <1>2
  <2> HIDE DEF s, w, e
  <2>6. /\ t \in Seq(Text) /\ Len(t) = Len(chars) + 1 /\ t[1] = e
        /\ \A i \in 1..Len(chars) : t[i + 1] = w[i]
    BY <2>1, <2>2, <1>2
  <2>7. \A i \in 1..Len(s) : i = 1 \/ (i - 1 \in 1..Len(chars) /\ i - 1 + 1 = i)
    BY <2>3, <1>2
  <2>8. ASSUME NEW i \in 1..Len(s) PROVE s[i] = t[i]
    BY <2>4, <2>5, <2>6, <2>7
  <2> HIDE DEF t
  <2>9. s = t
    BY <2>3, <2>6, <2>8, SeqEqual
  <2> QED
    BY <2>9 DEF s, t, w, e
<1>4. Escapes(chars) \in Seq(Text) /\ Escaped(c, ascii) \in Text
  BY <1>1, EscapedText
<1> DEFINE w == Escapes(chars)
           e == Escaped(c, ascii)
<1> HIDE DEF w, e
<1>5. FlattenSeq(w) \in Text /\ FlattenSeq(<<e>> \o w) = e \o FlattenSeq(w)
  BY <1>4, FlattenCons DEF w, e
<1>6. Body(<<>>, ascii) = <<>>
  <2>1. Escapes(<<>>) = <<>>
    OBVIOUS
  <2>2. FlattenSeq(<<>>) = <<>>
    BY DEF FlattenSeq
  <2> QED
    BY <2>1, <2>2 DEF Body
<1>7. Body(all, ascii) = FlattenSeq(<<e>> \o w)
  BY <1>3 DEF Body, w, e
<1>8. Body(chars, ascii) = FlattenSeq(w)
  BY DEF Body, w
<1> QED
  BY <1>5, <1>6, <1>7, <1>8 DEF all, e

\* What was written between the quotes is passed over, and read.
LEMMA BodyRead ==
    ASSUME NEW ascii \in BOOLEAN, NEW chars \in Seq(Char)
    PROVE  /\ Body(chars, ascii) \in Text
           /\ \A t \in Text : skip_quotes[Body(chars,
                    ascii) \o (<<Quote>> \o t)] = <<Quote>> \o t
           /\ process_string[Body(chars, ascii)] = Read(chars, <<>>)
<1> DEFINE T == {s \in Seq(Char) :
                   /\ \A t \in Text : skip_quotes[Body(s, ascii) \o (<<Quote>> \o t)]
                                         = <<Quote>> \o t
                   /\ process_string[Body(s, ascii)] = Read(s, <<>>)}
<1>0. Quote \in Char /\ Quote \in Piece
  BY SpecialPieces, NamedPieces
<1>1. ASSUME NEW s \in Seq(Char), \A t \in Seq(Char) : Len(t) < Len(s) => t \in T
      PROVE  s \in T
  <2>1. CASE s = <<>>
    <3>1. Body(s, ascii) = <<>> /\ <<>> \in Seq(Char)
      BY <2>1, <1>0, BodyCons
    <3>2. ASSUME NEW t \in Text
          PROVE  skip_quotes[Body(s, ascii) \o (<<Quote>> \o t)] = <<Quote>> \o t
      <4> DEFINE u == <<Quote>> \o t
      <4>1. u \in Text /\ Begins(u, {Quote})
        BY <1>0, OnePiece
      <4> HIDE DEF u
      <4>2. <<>> \o u = u /\ skip_quotes[u] = u
        BY <4>1, JoinedEmpty, SkipQuotesValue
      <4> QED
        BY <4>2, <3>1 DEF u
    <3>3. process_string[Body(s, ascii)] = Read(s, <<>>)
      BY <2>1, <3>1, EmptyText, ProcessStringValue DEF Round_string
    <3> QED
      BY <3>2, <3>3
  <2>2. CASE s # <<>>
    <3> DEFINE c == Head(s)
               cs == Tail(s)
               e == Escaped(c, ascii)
               body == Body(cs, ascii)
    <3>1. c \in Char /\ cs \in Seq(Char) /\ s = <<c>> \o cs /\ Len(cs) < Len(s)
      BY <2>2, SequenceParts
    <3>2. cs \in T
      BY <3>1, <1>1
    <3>3. body \in Text /\ e \in Text /\ Body(s, ascii) = e \o body
      <4> HIDE DEF c, cs
      <4> QED
        BY <3>1, BodyCons, EscapedText
    <3>4. ASSUME NEW t \in Text
          PROVE  skip_quotes[Body(s, ascii) \o (<<Quote>> \o t)] = <<Quote>> \o t
      <4> DEFINE u == <<Quote>> \o t
      <4>1. u \in Text /\ body \o u \in Text
        BY <1>0, <3>3, OnePiece, TextJoined
      <4>2. skip_quotes[body \o u] = u
        BY <3>2
      <4> HIDE DEF u, body, c
      <4>3. skip_quotes[e \o (body \o u)] = skip_quotes[body \o u]
        BY <3>1, <4>1, EscapedSkipped
      <4> HIDE DEF e
      <4>4. (e \o body) \o u = e \o (body \o u)
        BY <3>3, <4>1, Associative
      <4> QED
        BY <3>3, <4>2, <4>3, <4>4 DEF u
    <3>5. process_string[Body(s, ascii)] = Read(s, <<>>)
      <4> DEFINE text == e \o body
      <4>1. text \in Text
        BY <3>3, TextJoined
      <4>2. Character(text) = Stands(c, Len(e))
        <5> HIDE DEF c, body
        <5> QED
          BY <3>1, <3>3, EscapedRead
      <4>3. Behind(text, Len(e)) = body
        <5> HIDE DEF e, body
        <5> QED
          BY <3>3, BehindWhole
      <4>4. Len(e) > 0
        <5> HIDE DEF c
        <5>1. Len(e) = 2 \/ Len(e) = 3 \/ Len(e) = 6 \/ Len(e) = 1
          <6>1. Len(<<Backslash, c>>) = 2 /\ Len(<<Backslash, "n">>) = 2 /\ Len(<<c>>) = 1
            OBVIOUS
          <6>2. Len(<<Backslash, "u", "0001">>) = 3 /\ Len(<<Backslash, "u", "0000">>) = 3
            OBVIOUS
          <6>3. Len(<<Backslash, "u", "D83D", Backslash, "u", "DE00">>) = 6
            OBVIOUS
          <6>4. \/ e = <<Backslash, c>> \/ e = <<Backslash, "n">> \/ e = <<c>>
                \/ e = <<Backslash, "u", "0001">> \/ e = <<Backslash, "u", "0000">>
                \/ e = <<Backslash, "u", "D83D", Backslash, "u", "DE00">>
            BY <3>1, EscapedForms
          <6> HIDE DEF e
          <6> QED
            BY <6>1, <6>2, <6>3, <6>4
        <5>2. Len(e) \in Nat
          BY <3>3, TextLength
        <5> DEFINE n == Len(e)
        <5>3. (n = 2 \/ n = 3 \/ n = 6 \/ n = 1) /\ n \in Nat
          BY <5>1, <5>2
        <5> HIDE DEF n
        <5>4. n > 0
          BY <5>3
        <5> QED
          BY <5>4 DEF n
      <4>5. text # <<>>
        <5> HIDE DEF e, body
        <5>1. Len(text) = Len(e) + Len(body)
          BY <3>3, LongerText
        <5>2. Len(e) \in Nat /\ Len(body) \in Nat
          BY <3>3, TextLength
        <5>3. Len(text) # 0
          BY <4>4, <5>1, <5>2
        <5> QED
          BY <5>3
      <4>6. process_string[body] = Read(cs, <<>>)
        BY <3>2
      <4> HIDE DEF text, e, body, c, cs
      <4>7. /\ Character(text).pieces = Len(e) /\ Character(text).char = c
            /\ Read(cs, <<>>).ok /\ Read(cs, <<>>).json = cs
        <5>1. Character(text).pieces = Len(e) /\ Character(text).char = c
          BY <4>2 DEF Stands
        <5>2. Read(cs, <<>>).ok /\ Read(cs, <<>>).json = cs
          BY DEF Read
        <5> QED
          BY <5>1, <5>2
      <4>8. process_string[text] = Read(<<c>> \o cs, <<>>)
        <5>1. process_string[text] = Round_string(process_string, text)
          BY <4>1, ProcessStringValue
        <5>2. process_string[Behind(text, Character(text).pieces)] = Read(cs, <<>>)
          BY <4>3, <4>6, <4>7
        <5> QED
          BY <5>1, <5>2, <4>4, <4>5, <4>7 DEF Round_string
      <4> QED
        BY <4>8, <3>1, <3>3 DEF text
    <3> QED
      BY <3>4, <3>5
  <2> QED
    BY <2>1, <2>2
<1> HIDE DEF T
<1>2. Seq(Char) \subseteq T
  BY <1>1, SequenceInduction
<1>3. chars \in T
  BY <1>2
<1> QED
  BY <1>0, <1>3, BodyCons DEF T

\* A written string is its characters between two quotes.
LEMMA QuotedForm ==
    ASSUME NEW ascii \in BOOLEAN, NEW chars \in Seq(Char), NEW more \in Text
    PROVE  /\ Quoted(chars, ascii) \in Text
           /\ Quoted(chars, ascii) \o more
                = <<Quote>> \o (Body(chars, ascii) \o (<<Quote>> \o more))
<1> DEFINE body == Body(chars, ascii)
           q == <<Quote>>
<1>1. body \in Text /\ q \in Text
  BY BodyRead, NamedPieces, OnePiece
<1>2. Quoted(chars, ascii) = (q \o body) \o q
  BY DEF Quoted, Body
<1> HIDE DEF body, q
<1>3. /\ q \o body \in Text /\ (q \o body) \o q \in Text /\ q \o more \in Text
      /\ body \o (q \o more) \in Text
  BY <1>1, TextJoined
<1>4. ((q \o body) \o q) \o more = (q \o body) \o (q \o more)
  <2> DEFINE p == q \o body
  <2>1. p \in Text
    BY <1>3
  <2> HIDE DEF p
  <2>2. (p \o q) \o more = p \o (q \o more)
    BY <1>1, <2>1, Associative
  <2> QED
    BY <2>2 DEF p
<1>5. (q \o body) \o (q \o more) = q \o (body \o (q \o more))
  <2> DEFINE e == q \o more
  <2>1. e \in Text
    BY <1>3
  <2> HIDE DEF e
  <2>2. (q \o body) \o e = q \o (body \o e)
    BY <1>1, <2>1, Associative
  <2> QED
    BY <2>2 DEF e
<1> QED
  BY <1>2, <1>3, <1>4, <1>5 DEF body, q

\* One piece in front moves the others by one place.
LEMMA OneBefore ==
    ASSUME NEW h \in Seq(Piece), NEW s \in Seq(Piece), Len(h) = 1
    PROVE  /\ h \o s \in Seq(Piece) /\ Len(h \o s) = 1 + Len(s)
           /\ \A i \in 1..Len(s) : (h \o s)[i + 1] = s[i]
<1>1. h \o s \in Seq(Piece) /\ Len(h \o s) = 1 + Len(s)
  BY ConcatProperties
<1>2. ASSUME NEW i \in 1..Len(s) PROVE (h \o s)[i + 1] = s[i]
  <2>1. Len(s) \in Nat
    OBVIOUS
  <2>2. \A j \in 1..(Len(h) + Len(s)) :
           (h \o s)[j] = IF j <= Len(h) THEN h[j] ELSE s[j - Len(h)]
    BY ConcatProperties
  <2> DEFINE j == i + 1
  <2>3. j \in 1..(Len(h) + Len(s)) /\ ~(j <= Len(h)) /\ j - Len(h) = i
    BY <2>1
  <2> HIDE DEF j
  <2>4. (h \o s)[j] = s[i]
    BY <2>2, <2>3
  <2> QED
    BY <2>4 DEF j
<1> QED
  BY <1>1, <1>2

\* What stands between the first piece and the end that is left.
LEMMA Between ==
    ASSUME NEW q \in Piece, NEW s \in Text, NEW t \in Text
    PROVE  LET text == <<q>> \o (s \o t) IN SubSeq(text, 2, Len(text) - Len(t)) = s
<1> DEFINE text == <<q>> \o (s \o t)
           last == Len(text) - Len(t)
           u == SubSeq(text, 2, last)
           st == s \o t
           h == <<q>>
<1>1. /\ s \in Seq(Piece) /\ t \in Seq(Piece) /\ Len(s) \in Nat /\ Len(t) \in Nat
      /\ st \in Seq(Piece) /\ Len(st) = Len(s) + Len(t)
      /\ h \in Seq(Piece) /\ Len(h) = 1
  BY DEF Text
<1>2. \A i \in 1..Len(s) : st[i] = s[i] /\ i \in 1..Len(st)
  BY <1>1, ConcatProperties
<1> HIDE DEF st, h
<1>3. h \o st \in Seq(Piece) /\ Len(h \o st) = 1 + Len(st)
      /\ \A i \in 1..Len(st) : (h \o st)[i + 1] = st[i]
  BY <1>1, OneBefore
<1>4. text = h \o st
  BY DEF h, st
<1> HIDE DEF text
<1>5. last = Len(s) + 1 /\ text \in Seq(Piece) /\ Len(text) = Len(s) + Len(t) + 1
  BY <1>1, <1>3, <1>4
<1>6. \A i \in 1..Len(s) : text[i + 1] = s[i]
  BY <1>2, <1>3, <1>4
<1> HIDE DEF last
<1>7. \A i \in 2..last : text[i] \in Piece
  BY <1>1, <1>5
<1>8. last \in Int /\ 2 \in Int
  BY <1>1, <1>5
<1>9. /\ u \in Seq(Piece) /\ Len(u) = (IF 2 <= last THEN last - 2 + 1 ELSE 0)
      /\ \A i \in 1..(last - 2 + 1) : u[i] = text[2 + i - 1]
  BY <1>7, <1>8, SubSeqProperties
<1> HIDE DEF u
<1>10. Len(u) = Len(s)
  BY <1>1, <1>5, <1>9
<1>11. ASSUME NEW i \in 1..Len(u) PROVE u[i] = s[i]
  <2>1. i \in 1..Len(s) /\ i \in 1..(last - 2 + 1) /\ 2 + i - 1 = i + 1
    BY <1>1, <1>5, <1>10
  <2> QED
    BY <2>1, <1>6, <1>9
<1>12. u = s
  BY <1>1, <1>9, <1>10, <1>11, SeqEqual
<1> QED
  BY <1>12 DEF u, last, text

\* A string is read as it was written.
LEMMA QuotedRead ==
    ASSUME NEW ascii \in BOOLEAN, NEW chars \in Seq(Char), NEW more \in Text
    PROVE  get_quoted_string(Quoted(chars, ascii) \o more) = Read(chars, more)
<1> DEFINE body == Body(chars, ascii)
           end == <<Quote>> \o more
           text == <<Quote>> \o (body \o end)
<1>1. /\ body \in Text /\ Quote \in Piece
      /\ skip_quotes[body \o end] = end
      /\ process_string[body] = Read(chars, <<>>)
  BY BodyRead, NamedPieces
<1>2. end \in Text /\ end # <<>> /\ Tail(end) = more
  BY <1>1, OnePiece
<1> HIDE DEF body, end
<1>3. body \o end \in Text
  BY <1>1, <1>2, TextJoined
<1>4. Begins(text, {Quote}) /\ Tail(text) = body \o end
  BY <1>1, <1>3, OnePiece
<1>5. SubSeq(text, 2, Len(text) - Len(end)) = body
  BY <1>1, <1>2, Between
<1> HIDE DEF text
<1>6. skip_quotes[Tail(text)] = end
  BY <1>1, <1>4
<1>7. Read(chars, <<>>).ok /\ Read(chars, <<>>).json = chars
  BY DEF Read
<1>8. get_quoted_string(text) = Read(chars, more)
  BY <1>1, <1>2, <1>4, <1>5, <1>6, <1>7 DEF get_quoted_string
<1>9. Quoted(chars, ascii) \o more = text
  BY QuotedForm DEF text, body, end
<1> QED
  BY <1>8, <1>9

-----------------------------------------------------------------------------
(* How values are written.                                                 *)

\* What a value is made of, by its type.
LEMMA MadeForms ==
    ASSUME NEW valid \in BOOLEAN, NEW J, NEW json \in Made(valid, J)
    PROVE  /\ json.type \in {"literal", "number", "string", "array", "object"}
           /\ json = [type |-> json.type, of |-> json.of]
           /\ json.type = "literal" => \E literal \in Literals : json.of = <<literal>>
           /\ json.type = "number" => json.of \in Decimals
           /\ json.type = "string" => json.of \in Seq(Char)
           /\ json.type = "array" => json.of \in Seq(J)
           /\ json.type = "object" =>
                 /\ json.of \in Seq([name : Seq(IF valid THEN Char \ {Nul} ELSE Char),
                                     value : J])
                 /\ valid => Distinct(json.of)
<1> DEFINE Fields == {fields \in Seq([name : Seq(IF valid THEN Char \ {Nul} ELSE Char),
                                      value : J]) : valid => Distinct(fields)}
           A == [type : {"literal"}, of : {<<literal>> : literal \in Literals}]
           N == [type : {"number"}, of : Decimals]
           B == [type : {"string"}, of : Seq(Char)]
           C == [type : {"array"}, of : Seq(J)]
           D == [type : {"object"}, of : Fields]
<1>1. json \in A \cup N \cup B \cup C \cup D
  BY DEF Made
<1> HIDE DEF Fields
<1>2. /\ json.type \in {"literal", "number", "string", "array", "object"}
      /\ json = [type |-> json.type, of |-> json.of]
      /\ json.type = "literal" => json \in A
      /\ json.type = "number" => json \in N
      /\ json.type = "string" => json \in B
      /\ json.type = "array" => json \in C
      /\ json.type = "object" => json \in D
  BY <1>1
<1>3. json.type = "object" => json.of \in Fields
  BY <1>2
<1>4. json.type = "literal" => \E literal \in Literals : json.of = <<literal>>
  BY <1>2
<1>5. /\ json.type = "number" => json.of \in Decimals
      /\ json.type = "string" => json.of \in Seq(Char)
      /\ json.type = "array" => json.of \in Seq(J)
  BY <1>2
<1> QED
  BY <1>2, <1>3, <1>4, <1>5 DEF Fields

\* A number is a text that begins in a way only numbers do.
LEMMA DecimalText ==
    ASSUME NEW numeral \in Decimals
    PROVE  /\ numeral \in Text /\ numeral \in Seq(Figure)
           /\ numeral # <<>> /\ Head(numeral) \in Lead
<1>1. numeral \in Seq(Figure) /\ numeral # <<>> /\ Head(numeral) \in Lead
  BY DEF Decimals, Numerals
<1>2. Figure \subseteq Piece
  BY FiguresAssumption
<1> QED
  BY <1>1, <1>2, SequencesGrow DEF Text

\* How deep a value nests.
Depth == [json \in Value |->
             CHOOSE d \in Nat : /\ json \in Json(FALSE)[d]
                                /\ \A k \in Nat : json \in Json(FALSE)[k] => d <= k]

\* The value that stands in a container at one place.
InnerOf(json, i) == IF json.type = "array" THEN json.of[i] ELSE json.of[i].value

\* Every value has a depth, the least number of levels it is a value of.
LEMMA DepthValue ==
    ASSUME NEW json \in Value
    PROVE  /\ Depth[json] \in Nat /\ json \in Json(FALSE)[Depth[json]]
           /\ Depth[json] <= Deepest
           /\ \A k \in Nat : json \in Json(FALSE)[k] => Depth[json] <= k
<1> DEFINE T == {k \in Nat : json \in Json(FALSE)[k]}
<1>1. Deepest \in T
  BY NestingAssumption DEF Value
<1>2. PICK d \in T : \A k \in T : d <= k
  BY <1>1, LeastNatural
<1>3. Depth[json] \in T /\ \A k \in T : Depth[json] <= k
  <2>1. /\ d \in Nat /\ json \in Json(FALSE)[d]
        /\ \A k \in Nat : json \in Json(FALSE)[k] => d <= k
    BY <1>2
  <2>2. Depth[json] = CHOOSE m \in Nat : /\ json \in Json(FALSE)[m]
                                         /\ \A k \in Nat : json \in Json(FALSE)[k] => m <= k
    BY DEF Depth
  <2>3. /\ Depth[json] \in Nat /\ json \in Json(FALSE)[Depth[json]]
        /\ \A k \in Nat : json \in Json(FALSE)[k] => Depth[json] <= k
    BY <2>1, <2>2
  <2> QED
    BY <2>3
<1> QED
  BY <1>1, <1>3

\* What a value is made of; the values inside are less deep.
LEMMA ValueForms ==
    ASSUME NEW json \in Value
    PROVE  /\ json.type \in {"literal", "number", "string", "array", "object"}
           /\ json.type = "literal" => \E literal \in Literals : json.of = <<literal>>
           /\ json.type = "number" => json.of \in Decimals
           /\ json.type = "string" => json.of \in Seq(Char)
           /\ json.type \in {"array", "object"} =>
                 /\ Len(json.of) \in Nat /\ DOMAIN json.of = 1..Len(json.of)
                 /\ \A i \in 1..Len(json.of) :
                       InnerOf(json, i) \in Value /\ Depth[InnerOf(json, i)] < Depth[json]
           /\ json.type = "object" => \A i \in 1..Len(json.of) : json.of[i].name \in Seq(Char)
<1> DEFINE d == Depth[json]
           J == Inner(FALSE, d)
<1>1. d \in Nat /\ json \in Json(FALSE)[d] /\ d <= Deepest /\ Deepest \in Nat
  BY DepthValue, NestingAssumption
<1>2. json \in Made(FALSE, J)
  BY <1>1, JsonEquation
<1>3. ASSUME NEW e \in J
      PROVE  e \in Value /\ Depth[e] < d
  <2>1. d # 0 /\ e \in Json(FALSE)[d - 1]
    BY <1>3 DEF Inner
  <2>2. d - 1 \in Nat /\ d - 1 <= Deepest
    BY <1>1, <2>1
  <2>3. Json(FALSE)[d - 1] \subseteq Json(FALSE)[Deepest]
    BY <1>1, <2>2, JsonGrows
  <2>4. e \in Value
    BY <2>1, <2>3 DEF Value
  <2>5. Depth[e] <= d - 1 /\ Depth[e] \in Nat
    BY <2>1, <2>2, <2>4, DepthValue
  <2> HIDE DEF d
  <2>6. Depth[e] < d
    BY <1>1, <2>5
  <2> QED
    BY <2>4, <2>6
<1> HIDE DEF J, d
<1>4. /\ json.type \in {"literal", "number", "string", "array", "object"}
      /\ json.type = "literal" => \E literal \in Literals : json.of = <<literal>>
      /\ json.type = "number" => json.of \in Decimals
      /\ json.type = "string" => json.of \in Seq(Char)
      /\ json.type = "array" => json.of \in Seq(J)
      /\ json.type = "object" => json.of \in Seq([name : Seq(Char), value : J])
  <2>1. FALSE \in BOOLEAN
    OBVIOUS
  <2> QED
    BY <1>2, <2>1, MadeForms
<1>5. ASSUME json.type = "array"
      PROVE  /\ Len(json.of) \in Nat /\ DOMAIN json.of = 1..Len(json.of)
             /\ \A i \in 1..Len(json.of) : InnerOf(json, i) \in J
  BY <1>4, <1>5 DEF InnerOf
<1>6. ASSUME json.type = "object"
      PROVE  /\ Len(json.of) \in Nat /\ DOMAIN json.of = 1..Len(json.of)
             /\ \A i \in 1..Len(json.of) : InnerOf(json, i) \in J
                      /\ json.of[i].name \in Seq(Char)
  <2>1. json.of \in Seq([name : Seq(Char), value : J])
    BY <1>4, <1>6
  <2>2. \A i \in 1..Len(json.of) : json.of[i] \in [name : Seq(Char), value : J]
    <3> DEFINE R == [name : Seq(Char), value : J]
               s == json.of
    <3>1. s \in Seq(R)
      BY <2>1
    <3> HIDE DEF R, s
    <3>2. \A i \in 1..Len(s) : s[i] \in R
      BY <3>1
    <3> QED
      BY <3>2 DEF R, s
  <2>3. \A i \in 1..Len(json.of) : json.of[i].name \in Seq(Char) /\ json.of[i].value \in J
    BY <2>2
  <2> QED
    BY <2>1, <2>3, <1>6 DEF InnerOf
<1> QED
  BY <1>3, <1>4, <1>5, <1>6 DEF d

(* The layout is text.                                                     *)

\* What stands between the brackets, as it is written inside one level deeper.
Parts(newline, ascii, written, json, level) ==
    [i \in DOMAIN json.of |->
        IF json.type = "array" THEN written[json.of[i]][level + 1]
        ELSE FieldText(json.of[i].name, written[json.of[i].value][level + 1], newline, ascii)]

Open(type) == IF type = "array" THEN "[" ELSE "{"

\* How a value of each type is written.
LEMMA LayoutForms ==
    ASSUME NEW newline, NEW ascii, NEW written, NEW json, NEW level \in Nat
    PROVE  /\ json.type \in {"array", "object"} =>
                Layout(newline, ascii, written, json)[level]
                   = Bracketed(Open(json.type), Parts(newline, ascii, written, json, level),
                               Close(json.type), level, newline)
           /\ json.type = "string" =>
                Layout(newline, ascii, written, json)[level] = Quoted(json.of, ascii)
           /\ json.type \in {"literal", "number"} =>
                Layout(newline, ascii, written, json)[level] = json.of
<1>1. CASE json.type = "array"
  <2>1. Parts(newline, ascii, written, json, level)
          = [i \in DOMAIN json.of |-> written[json.of[i]][level + 1]]
    BY <1>1 DEF Parts
  <2>2. Layout(newline, ascii, written, json)[level]
          = Bracketed("[", [i \in DOMAIN json.of |-> written[json.of[i]][level + 1]],
                      "]", level, newline)
    BY <1>1 DEF Layout
  <2> QED
    BY <1>1, <2>1, <2>2 DEF Open, Close
<1>2. CASE json.type = "object"
  <2>1. Parts(newline, ascii, written, json, level)
          = [i \in DOMAIN json.of |->
                FieldText(json.of[i].name, written[json.of[i].value][level + 1], newline,
                      ascii)]
    BY <1>2 DEF Parts
  <2>2. Layout(newline, ascii, written, json)[level]
          = Bracketed("{", [i \in DOMAIN json.of |->
                FieldText(json.of[i].name, written[json.of[i].value][level + 1], newline,
                      ascii)],
                      "}", level, newline)
    BY <1>2 DEF Layout
  <2> QED
    BY <1>2, <2>1, <2>2 DEF Open, Close
<1>3. json.type = "string" =>
         Layout(newline, ascii, written, json)[level] = Quoted(json.of, ascii)
  BY DEF Layout
<1>4. json.type \in {"literal", "number"} =>
         Layout(newline, ascii, written, json)[level] = json.of
  BY DEF Layout
<1> QED
  BY <1>1, <1>2, <1>3, <1>4

\* Line ends and indents are blanks.
LEMMA BlankText ==
    ASSUME NEW newline \in Seq(WhiteSpace), NEW level \in Nat
    PROVE  newline \in Text /\ Indent(level, newline) \in Seq(WhiteSpace)
           /\ Indent(level, newline) \in Text
<1>1. WhiteSpace \subseteq Piece /\ " " \in WhiteSpace
  BY PiecesAssumption DEF Structure, WhiteSpace
<1>2. Indent(level, newline) \in Seq(WhiteSpace)
  <2>1. [i \in 1..level |-> " "] \in Seq(WhiteSpace)
    <3>1. [i \in 1..level |-> " "] \in [1..level -> WhiteSpace]
      BY <1>1, Zenon
    <3>2. Seq(WhiteSpace) = UNION {[1..n -> WhiteSpace] : n \in Nat}
      BY SeqDef, Zenon
    <3> DEFINE blanks == [i \in 1..level |-> " "]
    <3> HIDE DEF blanks
    <3>3. blanks \in UNION {[1..n -> WhiteSpace] : n \in Nat}
      BY <3>1, Zenon DEF blanks
    <3> QED
      BY <3>2, <3>3 DEF blanks
  <2>2. <<>> \in Seq(WhiteSpace)
    OBVIOUS
  <2> QED
    BY <2>1, <2>2 DEF Indent
<1>3. Seq(WhiteSpace) \subseteq Seq(Piece)
  BY <1>1, SequencesGrow
<1> QED
  BY <1>2, <1>3 DEF Text

\* A written field is a text.
LEMMA FieldTextIsText ==
    ASSUME NEW name \in Seq(Char), NEW text \in Text, NEW newline, NEW ascii \in BOOLEAN
    PROVE  FieldText(name, text, newline, ascii) \in Text
<1> DEFINE quoted == Quoted(name, ascii)
           blank == IF newline = <<>> THEN <<>> ELSE <<" ">>
           colon == <<":">>
<1>1. quoted \in Text
  BY QuotedForm, EmptyText
<1>2. blank \in Text /\ colon \in Text
  <2>1. ":" \in Piece /\ " " \in Piece
    <3>1. ":" \in Structure /\ " " \in Structure
      BY DEF Structure, WhiteSpace
    <3> QED
      BY <3>1, PiecesAssumption
  <2>2. <<":">> \in Text /\ <<" ">> \in Text
    BY <2>1, OnePiece, EmptyText, JoinedEmpty DEF Text
  <2> QED
    BY <2>2, EmptyText
<1>3. FieldText(name, text, newline, ascii) = ((quoted \o colon) \o blank) \o text
  BY DEF FieldText
<1> HIDE DEF quoted, blank, colon
<1>4. quoted \o colon \in Text
  BY <1>1, <1>2, TextJoined
<1>5. (quoted \o colon) \o blank \in Text
  BY <1>2, <1>4, TextJoined
<1>6. ((quoted \o colon) \o blank) \o text \in Text
  BY <1>5, TextJoined
<1> QED
  BY <1>3, <1>6

\* A sequence from one place on.
LeftFrom(s, i) == SubSeq(s, i, Len(s))

\* A sequence from its i-th element on.
LEMMA FromParts ==
    ASSUME NEW S, NEW s \in Seq(S)
    PROVE  /\ LeftFrom(s, 1) = s /\ LeftFrom(s, Len(s) + 1) = <<>>
           /\ \A i \in 1..Len(s) + 1 : LeftFrom(s, i) \in Seq(S)
           /\ \A i \in 1..Len(s) : LeftFrom(s, i) = <<s[i]>> \o LeftFrom(s, i + 1)
<1>0. Len(s) \in Nat /\ \A i \in 1..Len(s) : s[i] \in S
  OBVIOUS
<1>1. ASSUME NEW i \in 1..Len(s) + 1
      PROVE  /\ LeftFrom(s, i) \in Seq(S)
             /\ Len(LeftFrom(s, i)) = Len(s) + 1 - i
             /\ \A k \in 1..Len(s) + 1 - i : LeftFrom(s, i)[k] = s[i + k - 1]
  <2>1. i \in Int /\ i >= 1 /\ i <= Len(s) + 1
    BY <1>0
  <2>2. \A k \in i..Len(s) : s[k] \in S
    BY <1>0, <2>1
  <2>3. LeftFrom(s, i) \in Seq(S)
    BY <1>0, <2>1, <2>2, SubSeqProperties DEF LeftFrom
  <2>4. Len(LeftFrom(s, i)) = Len(s) + 1 - i
    BY <1>0, <2>1, <2>2, SubSeqProperties DEF LeftFrom
  <2>5. \A k \in 1..Len(s) + 1 - i : LeftFrom(s, i)[k] = s[i + k - 1]
    BY <1>0, <2>1, <2>2, SubSeqProperties DEF LeftFrom
  <2> QED
    BY <2>3, <2>4, <2>5
<1>2. LeftFrom(s, 1) = s
  <2>1. 1 \in 1..Len(s) + 1 /\ Len(s) + 1 - 1 = Len(s) /\ \A k \in 1..Len(s) : 1 + k - 1 = k
    BY <1>0
  <2>2. LeftFrom(s, 1) \in Seq(S) /\ Len(LeftFrom(s, 1)) = Len(s)
        /\ \A k \in 1..Len(s) : LeftFrom(s, 1)[k] = s[k]
    BY <1>1, <2>1
  <2> QED
    BY <2>2, SeqEqual
<1>3. LeftFrom(s, Len(s) + 1) = <<>>
  <2>1. Len(s) + 1 \in 1..Len(s) + 1 /\ Len(s) + 1 - (Len(s) + 1) = 0
    BY <1>0
  <2> DEFINE t == LeftFrom(s, Len(s) + 1)
  <2>2. t \in Seq(S) /\ Len(t) = 0
    BY <1>1, <2>1
  <2> HIDE DEF t
  <2>3. t = <<>>
    BY <2>2
  <2> QED
    BY <2>3 DEF t
<1>4. ASSUME NEW i \in 1..Len(s)
      PROVE  LeftFrom(s, i) = <<s[i]>> \o LeftFrom(s, i + 1)
  <2> DEFINE t == LeftFrom(s, i)
             u == LeftFrom(s, i + 1)
             x == s[i]
             n == Len(s) - i
             v == <<x>> \o u
  <2>1. /\ i \in 1..Len(s) + 1 /\ i + 1 \in 1..Len(s) + 1 /\ x \in S /\ n \in Nat
        /\ Len(s) + 1 - i = n + 1 /\ Len(s) + 1 - (i + 1) = n
    BY <1>0
  <2>2. t \in Seq(S) /\ Len(t) = n + 1 /\ \A k \in 1..n + 1 : t[k] = s[i + k - 1]
    BY <1>1, <2>1
  <2>3. u \in Seq(S) /\ Len(u) = n /\ \A k \in 1..n : u[k] = s[(i + 1) + k - 1]
    <3> DEFINE j == i + 1
    <3>1. j \in 1..Len(s) + 1 /\ Len(s) + 1 - j = n
      BY <2>1
    <3> HIDE DEF j, n
    <3>2. LeftFrom(s, j) \in Seq(S) /\ Len(LeftFrom(s, j)) = n
          /\ \A k \in 1..n : LeftFrom(s, j)[k] = s[j + k - 1]
      BY <1>1, <3>1
    <3> QED
      BY <3>2 DEF j
  <2>4. t[1] = x
    <3>1. 1 \in 1..n + 1 /\ i + 1 - 1 = i
      BY <2>1
    <3> QED
      BY <2>2, <3>1
  <2>5. \A k \in 1..n : t[k + 1] = u[k]
    <3>1. SUFFICES ASSUME NEW k \in 1..n PROVE t[k + 1] = u[k]
      OBVIOUS
    <3> DEFINE m == k + 1
    <3>2. m \in 1..n + 1 /\ i + m - 1 = (i + 1) + k - 1
      BY <2>1
    <3>3. t[m] = s[i + m - 1]
      <4> HIDE DEF m, t
      <4> QED
        BY <2>2, <3>2
    <3>4. u[k] = s[(i + 1) + k - 1]
      BY <2>3
    <3> QED
      BY <3>2, <3>3, <3>4
  <2> HIDE DEF t, u, x, n
  <2>6. v \in Seq(S) /\ Len(v) = n + 1 /\ v[1] = x /\ \A k \in 1..n : v[k + 1] = u[k]
    BY <2>1, <2>3
  <2>7. \A k \in 1..n + 1 : k = 1 \/ (k - 1 \in 1..n /\ k - 1 + 1 = k)
    BY <2>1
  <2> HIDE DEF v
  <2>8. ASSUME NEW k \in 1..n + 1 PROVE t[k] = v[k]
    BY <2>4, <2>5, <2>6, <2>7
  <2>9. t = v
    BY <2>2, <2>6, <2>8, SeqEqual
  <2> QED
    BY <2>9 DEF t, v, u, x
<1> QED
  BY <1>1, <1>2, <1>3, <1>4

\* The lines of what stands between two brackets.
PartLine(parts, level, newline, i) ==
    Indent(level + 1, newline) \o parts[i]
       \o (IF i < Len(parts) THEN <<",">> ELSE <<>>) \o newline

PartLines(parts, level, newline) == [i \in DOMAIN parts |-> PartLine(parts, level, newline,
      i)]

\* The lines of a container.
LEMMA LinesText ==
    ASSUME NEW newline \in Seq(WhiteSpace), NEW level \in Nat, NEW parts \in Seq(Text)
    PROVE  /\ PartLines(parts, level, newline) \in Seq(Text)
           /\ Len(PartLines(parts, level, newline)) = Len(parts)
           /\ \A i \in 1..Len(parts) :
                 PartLines(parts, level, newline)[i] = PartLine(parts, level, newline, i)
<1>1. newline \in Text /\ Indent(level + 1, newline) \in Text
  BY BlankText
<1>2. <<",">> \in Text /\ <<>> \in Text
  <2>1. "," \in Structure
    BY DEF Structure
  <2>2. "," \in Piece
    BY <2>1, PiecesAssumption
  <2> QED
    BY <2>2, OnePiece, EmptyText
<1>3. Len(parts) \in Nat /\ DOMAIN parts = 1..Len(parts)
            /\ \A i \in 1..Len(parts) : parts[i] \in Text
  OBVIOUS
<1>4. ASSUME NEW i \in 1..Len(parts)
      PROVE  PartLine(parts, level, newline, i) \in Text
  <2> DEFINE indent == Indent(level + 1, newline)
             part == parts[i]
             comma == IF i < Len(parts) THEN <<",">> ELSE <<>>
  <2>1. indent \in Text /\ part \in Text /\ comma \in Text
    BY <1>1, <1>2, <1>3
  <2>2. PartLine(parts, level, newline, i) = ((indent \o part) \o comma) \o newline
    BY DEF PartLine
  <2> HIDE DEF indent, part, comma
  <2>3. indent \o part \in Text
    BY <2>1, TextJoined
  <2>4. (indent \o part) \o comma \in Text
    BY <2>1, <2>3, TextJoined
  <2>5. ((indent \o part) \o comma) \o newline \in Text
    BY <1>1, <2>4, TextJoined
  <2> QED
    BY <2>2, <2>5
<1> QED
  BY <1>3, <1>4 DEF PartLines

\* A written container: an opening bracket, the lines, a closing bracket.
LEMMA BracketedForm ==
    ASSUME NEW newline \in Seq(WhiteSpace), NEW level \in Nat, NEW parts \in Seq(Text),
           NEW open \in Piece, NEW close \in Piece
    PROVE  /\ Bracketed(open, parts, close, level, newline) \in Text
           /\ parts = <<>> => Bracketed(open, parts, close, level, newline) = <<open, close>>
           /\ parts # <<>> =>
                 Bracketed(open, parts, close, level, newline)
                    = (((<<open>> \o newline) \o FlattenSeq(PartLines(parts, level, newline)))
                          \o Indent(level, newline)) \o <<close>>
<1> DEFINE lines == PartLines(parts, level, newline)
           flat == FlattenSeq(lines)
           indent == Indent(level, newline)
<1>1. lines \in Seq(Text)
  BY LinesText
<1>2. flat \in Text
  <2> HIDE DEF lines
  <2> QED
    BY <1>1, EmptyText, FlattenCons
<1>3. newline \in Text /\ indent \in Text /\ <<open>> \in Text /\ <<close>> \in Text
      /\ <<open, close>> \in Text
  BY BlankText, OnePiece, TwoPieces, EmptyText
<1>4. parts = <<>> => Bracketed(open, parts, close, level, newline) = <<open, close>>
  BY DEF Bracketed
<1>5. parts # <<>> =>
         Bracketed(open, parts, close, level, newline)
            = (((<<open>> \o newline) \o flat) \o indent) \o <<close>>
  BY Zenon DEF Bracketed, PartLines, PartLine
<1> HIDE DEF lines, flat, indent
<1>6. <<open>> \o newline \in Text
  BY <1>3, TextJoined
<1>7. (<<open>> \o newline) \o flat \in Text
  BY <1>2, <1>6, TextJoined
<1>8. ((<<open>> \o newline) \o flat) \o indent \in Text
  BY <1>3, <1>7, TextJoined
<1>9. (((<<open>> \o newline) \o flat) \o indent) \o <<close>> \in Text
  BY <1>3, <1>8, TextJoined
<1> QED
  BY <1>3, <1>4, <1>5, <1>9 DEF lines, flat, indent

\* Brackets are pieces.
LEMMA ClosingPieces ==
    \A type : Open(type) \in Piece /\ Close(type) \in Piece
<1>1. {"[", "]", "{", "}"} \subseteq Structure
  BY DEF Structure
<1>2. {"[", "]", "{", "}"} \subseteq Piece
  BY <1>1, PiecesAssumption
<1> QED
  BY <1>2 DEF Open, Close

\* What stands between the brackets is text when what is written of the inner values is.
LEMMA PartsText ==
    ASSUME NEW newline, NEW ascii \in BOOLEAN, NEW level \in Nat,
           NEW json \in Value, json.type \in {"array", "object"}, NEW written,
           \A i \in 1..Len(json.of) : written[InnerOf(json, i)][level + 1] \in Text
    PROVE  /\ Parts(newline, ascii, written, json, level) \in Seq(Text)
           /\ Len(Parts(newline, ascii, written, json, level)) = Len(json.of)
           /\ \A i \in 1..Len(json.of) :
                 /\ json.type = "array" =>
                       Parts(newline, ascii, written, json, level)[i]
                          = written[InnerOf(json, i)][level + 1]
                 /\ json.type = "object" =>
                       Parts(newline, ascii, written, json, level)[i]
                          = FieldText(json.of[i].name, written[InnerOf(json, i)][level + 1],
                                      newline, ascii)
<1> DEFINE parts == Parts(newline, ascii, written, json, level)
           n == Len(json.of)
           part(i) == IF json.type = "array" THEN written[json.of[i]][level + 1]
                      ELSE FieldText(json.of[i].name, written[json.of[i].value][level + 1],
                                     newline, ascii)
<1>1. n \in Nat /\ DOMAIN json.of = 1..n
  BY ValueForms
<1>2. parts = [i \in 1..n |-> part(i)]
  BY <1>1 DEF Parts
<1>3. ASSUME NEW i \in 1..n
      PROVE  /\ part(i) \in Text
             /\ json.type = "array" => part(i) = written[InnerOf(json, i)][level + 1]
             /\ json.type = "object" =>
                   part(i) = FieldText(json.of[i].name, written[InnerOf(json, i)][level + 1],
                                       newline, ascii)
  <2> DEFINE inner == written[InnerOf(json, i)][level + 1]
  <2>1. inner \in Text
    OBVIOUS
  <2>2. CASE json.type = "array"
    BY <2>1, <2>2 DEF InnerOf
  <2>3. CASE json.type = "object"
    <3>1. part(i) = FieldText(json.of[i].name, inner, newline, ascii)
      BY <2>3 DEF InnerOf
    <3>2. json.of[i].name \in Seq(Char)
      BY <2>3, ValueForms
    <3> HIDE DEF inner, part
    <3>3. FieldText(json.of[i].name, inner, newline, ascii) \in Text
      BY <2>1, <3>2, FieldTextIsText
    <3> QED
      BY <2>3, <3>1, <3>3 DEF inner
  <2> QED
    BY <2>2, <2>3
<1> HIDE DEF n, part
<1>4. parts \in [1..n -> Text]
  BY <1>2, <1>3
<1>5. parts \in Seq(Text) /\ Len(parts) = n
  <2> HIDE DEF parts
  <2> QED
    BY <1>1, <1>4
<1> QED
  BY <1>2, <1>3, <1>5 DEF n

\* A value is written as a text, if the values inside are.
LEMMA LayoutText ==
    ASSUME NEW newline \in Seq(WhiteSpace), NEW ascii \in BOOLEAN,
           NEW json \in Value, NEW written,
           \A inner \in Value : Depth[inner] < Depth[json] => written[inner] \in [Nat -> Text]
    PROVE  Layout(newline, ascii, written, json) \in [Nat -> Text]
<1>1. ASSUME NEW level \in Nat
      PROVE  Layout(newline, ascii, written, json)[level] \in Text
  <2>1. CASE json.type \in {"array", "object"}
    <3> DEFINE parts == Parts(newline, ascii, written, json, level)
               open == Open(json.type)
               close == Close(json.type)
    <3>1. \A i \in 1..Len(json.of) : written[InnerOf(json, i)][level + 1] \in Text
      <4>1. \A i \in 1..Len(json.of) : written[InnerOf(json, i)] \in [Nat -> Text]
        BY <2>1, ValueForms
      <4> QED
        BY <4>1
    <3>2. parts \in Seq(Text)
      BY <2>1, <3>1, PartsText
    <3>3. open \in Piece /\ close \in Piece
      BY ClosingPieces
    <3>4. Layout(newline, ascii, written, json)[level]
             = Bracketed(open, parts, close, level, newline)
      BY <2>1, LayoutForms
    <3> HIDE DEF parts, open, close
    <3>5. Bracketed(open, parts, close, level, newline) \in Text
      BY <3>2, <3>3, BracketedForm
    <3> QED
      BY <3>4, <3>5
  <2>2. CASE json.type = "string"
    <3> DEFINE chars == json.of
    <3>1. /\ chars \in Seq(Char)
          /\ Layout(newline, ascii, written, json)[level] = Quoted(chars, ascii)
      <4>1. json.of \in Seq(Char)
        BY <2>2, ValueForms
      <4>2. Layout(newline, ascii, written, json)[level] = Quoted(json.of, ascii)
        BY <2>2, LayoutForms
      <4> QED
        BY <4>1, <4>2
    <3> HIDE DEF chars
    <3> QED
      BY <3>1, QuotedForm, EmptyText
  <2>3. CASE json.type = "literal"
    <3>1. PICK literal \in Literals : json.of = <<literal>>
      BY <2>3, ValueForms
    <3>2. literal \in Piece
      BY PiecesAssumption
    <3>3. Layout(newline, ascii, written, json)[level] = <<literal>>
      BY <2>3, <3>1, LayoutForms
    <3> QED
      BY <3>2, <3>3, OnePiece, EmptyText
  <2>4. CASE json.type = "number"
    <3>1. json.of \in Text
      BY <2>4, ValueForms, DecimalText
    <3> QED
      BY <2>4, <3>1, LayoutForms
  <2> QED
    BY <2>1, <2>2, <2>3, <2>4, ValueForms
<1> QED
  BY <1>1 DEF Layout

\* A layout depends on what is written of the inner values only.
LEMMA LayoutDepends ==
    ASSUME NEW newline, NEW ascii, NEW json \in Value, NEW g, NEW h,
           \A inner \in Value : Depth[inner] < Depth[json] => g[inner] = h[inner]
    PROVE  Layout(newline, ascii, g, json) = Layout(newline, ascii, h, json)
<1>1. ASSUME NEW level \in Nat
      PROVE  Layout(newline, ascii, g, json)[level] = Layout(newline, ascii, h, json)[level]
  <2>1. CASE json.type \in {"array", "object"}
    <3>1. DOMAIN json.of = 1..Len(json.of)
          /\ \A i \in 1..Len(json.of) : g[InnerOf(json, i)] = h[InnerOf(json, i)]
      BY <2>1, ValueForms
    <3>2. Parts(newline, ascii, g, json, level) = Parts(newline, ascii, h, json, level)
      BY <2>1, <3>1 DEF Parts, InnerOf
    <3> QED
      BY <2>1, <3>2, LayoutForms
  <2>2. CASE json.type \in {"string", "literal", "number"}
    BY <2>2, LayoutForms
  <2> QED
    BY <2>1, <2>2, ValueForms
<1>2. \A w : Layout(newline, ascii, w, json)
               = [level \in Nat |-> Layout(newline, ascii, w, json)[level]]
  <2>1. SUFFICES ASSUME NEW w
                 PROVE  Layout(newline, ascii, w, json)
                           = [level \in Nat |-> Layout(newline, ascii, w, json)[level]]
    OBVIOUS
  <2> DEFINE row(level) ==
        CASE json.type = "array" ->
                Bracketed("[", [i \in DOMAIN json.of |-> w[json.of[i]][level + 1]],
                          "]", level, newline)
          [] json.type = "object" ->
                Bracketed("{", [i \in DOMAIN json.of |->
                                   FieldText(json.of[i].name,
                                             w[json.of[i].value][level + 1],
                                             newline, ascii)],
                          "}", level, newline)
          [] json.type = "string" -> Quoted(json.of, ascii)
          [] json.type \in {"literal", "number"} -> json.of
  <2>2. Layout(newline, ascii, w, json) = [level \in Nat |-> row(level)]
    BY Zenon DEF Layout
  <2> HIDE DEF row
  <2> QED
    BY <2>2
<1> QED
  BY <1>1, <1>2

\* The JSON text of every value.
LEMMA SerializedValue ==
    ASSUME NEW newline \in Seq(WhiteSpace), NEW ascii \in BOOLEAN
    PROVE  /\ Serialized(newline, ascii) \in [Value -> [Nat -> Text]]
           /\ \A json \in Value : Serialized(newline, ascii)[json]
                                    = Layout(newline, ascii, Serialized(newline, ascii), json)
<1> DEFINE V == [Nat -> Text]
           Round(g, json) == Layout(newline, ascii, g, json)
           step == [p \in [Value -> V] \X Value |-> Round(p[1], p[2])]
<1>1. ASSUME NEW g, NEW json \in Value,
             \A inner \in Value : Depth[inner] < Depth[json] => g[inner] \in V
      PROVE  Round(g, json) \in V
  BY <1>1, LayoutText
<1>2. ASSUME NEW g, NEW h, NEW json \in Value,
             \A inner \in Value : Depth[inner] < Depth[json] => g[inner] = h[inner]
      PROVE  Round(g, json) = Round(h, json)
  BY <1>2, LayoutDepends
<1>d. Depth \in [Value -> Nat]
  <2>1. \A json \in Value : Depth[json] \in Nat
    BY DepthValue
  <2> QED
    BY <2>1 DEF Depth
<1>v. V # {}
  <2>1. [k \in Nat |-> <<>>] \in V
    BY EmptyText
  <2> QED
    BY <2>1
<1> HIDE DEF Round, V
<1>3. step \in [[Value -> V] \X Value -> V]
  BY <1>1
<1>4. UsesLesser(Value, V, Depth, step)
  BY <1>2 DEF UsesLesser
<1>5. \E f : f = [json \in Value |-> Round(f, json)]
  <2>1. PICK f \in [Value -> V] : f = [json \in Value |-> step[<<f, json>>]]
    <3> HIDE DEF step
    <3>2. Recursion(Value, V, step)
      BY <1>d, <1>v, <1>3, <1>4, RecursionOnRank
    <3> QED
      BY <3>2 DEF Recursion
  <2>2. \A json \in Value : step[<<f, json>>] = Round(f, json)
    OBVIOUS
  <2> HIDE DEF step
  <2>3. f = [json \in Value |-> Round(f, json)]
    BY <2>1, <2>2
  <2> QED
    BY <2>3
<1> DEFINE written == Serialized(newline, ascii)
<1>6. written = [json \in Value |-> Round(written, json)]
  BY <1>5, Zenon DEF Serialized, Round
<1> HIDE DEF written
<1>7. \A json \in Value : written[json] = Round(written, json)
  BY <1>6
<1>8. Value \subseteq {json \in Value : written[json] \in V}
  <2> DEFINE T == {json \in Value : written[json] \in V}
  <2>1. \A s \in Value : (\A t \in Value : Depth[t] < Depth[s] => t \in T) => s \in T
    BY <1>1, <1>7
  <2> HIDE DEF T
  <2>2. Value \subseteq T
    BY <1>d, <2>1, RankInduction
  <2> QED
    BY <2>2 DEF T
<1>9. written \in [Value -> V]
  BY <1>6, <1>8
<1> QED
  BY <1>7, <1>9 DEF written, Round, V

-----------------------------------------------------------------------------
(* How arrays and objects are read back.                                   *)

\* Blanks are passed over.
LEMMA BlanksSkipped ==
    ASSUME NEW w \in Seq(WhiteSpace), NEW t \in Text
    PROVE  Skipped[w \o t] = Skipped[t]
<1> DEFINE T == {s \in Seq(WhiteSpace) : Skipped[s \o t] = Skipped[t]}
<1>0. WhiteSpace \subseteq Piece
  BY PiecesAssumption DEF Structure
<1>1. ASSUME NEW s \in Seq(WhiteSpace),
             \A u \in Seq(WhiteSpace) : Len(u) < Len(s) => u \in T
      PROVE  s \in T
  <2>1. CASE s = <<>>
    BY <2>1, JoinedEmpty
  <2>2. CASE s # <<>>
    <3> DEFINE x == Head(s)
               u == Tail(s)
               left == u \o t
    <3>1. x \in WhiteSpace /\ u \in Seq(WhiteSpace) /\ s = <<x>> \o u /\ Len(u) < Len(s)
      BY <2>2, SequenceParts
    <3>2. u \in T
      BY <3>1, <1>1
    <3>3. x \in Piece /\ u \in Text
      <4>1. Seq(WhiteSpace) \subseteq Seq(Piece)
        BY <1>0, SequencesGrow
      <4> QED
        BY <3>1, <4>1, <1>0 DEF Text
    <3>4. left \in Text /\ Skipped[left] = Skipped[t]
      BY <3>2, <3>3, TextJoined
    <3>5. s \o t = <<x>> \o left
      <4>1. <<x>> \in Text
        BY <3>3, OnePiece
      <4> HIDE DEF x, u
      <4>2. (<<x>> \o u) \o t = <<x>> \o (u \o t)
        BY <3>3, <4>1, Associative
      <4> QED
        BY <3>1, <4>2 DEF left
    <3> HIDE DEF x, u, left
    <3>6. <<x>> \o left \in Text /\ Begins(<<x>> \o left, WhiteSpace)
                /\ Tail(<<x>> \o left) = left
      BY <3>1, <3>3, <3>4, OnePiece
    <3> DEFINE whole == <<x>> \o left
    <3>7. whole \in Text /\ Begins(whole, WhiteSpace) /\ Tail(whole) = left
      BY <3>6
    <3> HIDE DEF whole
    <3>8. Skipped[whole] = Skipped[left]
      BY <3>7, SkippedValue
    <3> QED
      BY <3>4, <3>5, <3>8 DEF whole
  <2> QED
    BY <2>1, <2>2
<1> HIDE DEF T
<1>2. Seq(WhiteSpace) \subseteq T
  BY <1>1, SequenceInduction
<1> QED
  BY <1>2 DEF T

\* Nothing is skipped where no blank stands.
LEMMA SkippedStays ==
    ASSUME NEW t \in Text, ~Begins(t, WhiteSpace)
    PROVE  Skipped[t] = t
BY SkippedValue

(* The elements of a container, one after the other.                       *)

\* The loops fail with an element that fails.
LEMMA FailedElement ==
    ASSUME NEW J, NEW value \in [Text -> Outcome(J)], Advances(value), NEW type,
           NEW text \in Text, Element(type, value, text) = Failure
    PROVE  Elements(type, value)[text] = Failure
<1>1. ~Element(type, value, text).ok
  BY DEF Failure
<1>2. Round_elements(type, value, Elements(type, value), text) = Failure
  BY <1>1 DEF Round_elements, Continued
<1> QED
  BY <1>2, ElementsValue

\* They end at a closing bracket behind an element.
LEMMA LastElement ==
    ASSUME NEW J, NEW value \in [Text -> Outcome(J)], Advances(value), NEW type,
           NEW text \in Text, Element(type, value, text).ok,
           Begins(Skipped[Element(type, value, text).rest], {Close(type)})
    PROVE  Elements(type, value)[text] =
              Read(<<Element(type, value, text).json>>,
                   Behind(Skipped[Element(type, value, text).rest], 1))
<1> DEFINE element == Element(type, value, text)
           after == Skipped[element.rest]
           next == IF Begins(after, {","}) THEN Skipped[Tail(after)] ELSE after
<1>1. Begins(after, {Close(type)})
  OBVIOUS
<1>2. ~Begins(after, {","})
  BY <1>1 DEF Begins, Close
<1>3. next = after /\ Closed(next, type)
  BY <1>1, <1>2 DEF Closed
<1>4. Round_elements(type, value, Elements(type, value), text)
         = Read(<<element.json>>, Behind(next, 1))
  BY <1>3 DEF Round_elements, Continued
<1> QED
  BY <1>3, <1>4, ElementsValue

\* They go on behind a comma.
LEMMA OtherElement ==
    ASSUME NEW J, NEW value \in [Text -> Outcome(J)], Advances(value), NEW type,
           NEW text \in Text, Element(type, value, text).ok,
           Begins(Skipped[Element(type, value, text).rest], {","}),
           ~Begins(Skipped[Tail(Skipped[Element(type, value, text).rest])], {Close(type)})
    PROVE  LET element == Element(type, value, text)
               others == Elements(type, value)[Skipped[Tail(Skipped[element.rest])]]
           IN  Elements(type, value)[text] =
                  IF others.ok THEN Read(<<element.json>> \o others.json, others.rest)
                  ELSE Failure
<1> DEFINE element == Element(type, value, text)
           after == Skipped[element.rest]
           next == IF Begins(after, {","}) THEN Skipped[Tail(after)] ELSE after
           others == Elements(type, value)[next]
<1>1. Begins(after, {","}) /\ next = Skipped[Tail(after)] /\ ~Closed(next, type)
  BY DEF Closed
<1>2. Round_elements(type, value, Elements(type, value), text)
         = IF others.ok THEN Read(<<element.json>> \o others.json, others.rest) ELSE Failure
  BY <1>1 DEF Round_elements, Continued
<1> QED
  BY <1>1, <1>2, ElementsValue

\* Element i stands at first[i], and rest[i] is left behind it: a comma and the next
\* one, or the closing bracket.
ListedAs(type, value, es, good, first, rest, more) ==
    \A i \in 1..Len(es) :
       /\ first[i] \in Text
       /\ Element(type, value, first[i]) =
             IF i \in good THEN Read(es[i], rest[i]) ELSE Failure
       /\ i < Len(es) =>
             /\ Begins(Skipped[rest[i]], {","})
             /\ Skipped[Tail(Skipped[rest[i]])] = first[i + 1]
             /\ ~Begins(first[i + 1], {Close(type)})
       /\ i = Len(es) =>
             /\ Begins(Skipped[rest[i]], {Close(type)})
             /\ Behind(Skipped[rest[i]], 1) = more

\* Elements that are each read, or refused, in front of the next ones are read as a
\* whole, or refused if one of them is.
LEMMA ListRead ==
    ASSUME NEW J, NEW value \in [Text -> Outcome(J)], Advances(value), NEW type,
           NEW E, NEW es \in Seq(E), es # <<>>,
           NEW good, NEW first, NEW rest, NEW more \in Text,
           ListedAs(type, value, es, good, first, rest, more)
    PROVE  Elements(type, value)[first[1]] =
              IF 1..Len(es) \subseteq good THEN Read(es, more) ELSE Failure
<1>a. ASSUME NEW t \in Text, NEW e, NEW r, Element(type, value, t) = Read(e, r),
             Begins(Skipped[r], {Close(type)}), Behind(Skipped[r], 1) = more
      PROVE  Elements(type, value)[t] = Read(<<e>>, more)
  <2>1. /\ Element(type, value, t).ok /\ Element(type, value, t).json = e
        /\ Element(type, value, t).rest = r
    BY <1>a DEF Read
  <2> QED
    BY <1>a, <2>1, LastElement
<1>b. ASSUME NEW t \in Text, NEW e, NEW r, Element(type, value, t) = Read(e, r),
             Begins(Skipped[r], {","}),
             ~Begins(Skipped[Tail(Skipped[r])], {Close(type)})
      PROVE  LET others == Elements(type, value)[Skipped[Tail(Skipped[r])]] IN
             Elements(type, value)[t]
                = IF others.ok THEN Read(<<e>> \o others.json, others.rest) ELSE Failure
  <2>1. Element(type, value, t) = Read(e, r)
    BY <1>b
  <2>2. /\ Element(type, value, t).ok /\ Element(type, value, t).json = e
        /\ Element(type, value, t).rest = r
    BY <2>1 DEF Read
  <2> QED
    BY <1>b, <2>2, OtherElement
<1> DEFINE n == Len(es)
           elements == Elements(type, value)
           Right(i) == elements[first[i]] =
                          IF i..n \subseteq good THEN Read(LeftFrom(es, i), more) ELSE Failure
           Low == {k \in Nat : k < n /\ ~Right(n - k)}
<1>0. n \in Nat /\ n > 0 /\ \A i \in 1..n : es[i] \in E
  OBVIOUS
<1>l. \A i \in 1..n :
         /\ first[i] \in Text
         /\ Element(type, value, first[i]) =
               IF i \in good THEN Read(es[i], rest[i]) ELSE Failure
         /\ i < n =>
               /\ Begins(Skipped[rest[i]], {","})
               /\ Skipped[Tail(Skipped[rest[i]])] = first[i + 1]
               /\ ~Begins(first[i + 1], {Close(type)})
         /\ i = n =>
               /\ Begins(Skipped[rest[i]], {Close(type)})
               /\ Behind(Skipped[rest[i]], 1) = more
  BY DEF ListedAs
<1>f. /\ LeftFrom(es, 1) = es /\ LeftFrom(es, n + 1) = <<>>
      /\ \A i \in 1..n : LeftFrom(es, i) = <<es[i]>> \o LeftFrom(es, i + 1)
      /\ \A i \in 1..n + 1 : LeftFrom(es, i) \in Seq(E)
  BY FromParts
<1>1. ASSUME NEW i \in 1..n, i \notin good
      PROVE  Right(i)
  <2>1. Element(type, value, first[i]) = Failure /\ first[i] \in Text
    BY <1>1, <1>l
  <2>2. elements[first[i]] = Failure
    BY <2>1, FailedElement
  <2>3. i \in i..n
    BY <1>0
  <2> QED
    BY <1>1, <2>2, <2>3
<1>2. ASSUME n \in good
      PROVE  Right(n)
  <2>0. n \in 1..n
    BY <1>0
  <2>1. /\ Element(type, value, first[n]) = Read(es[n], rest[n]) /\ first[n] \in Text
        /\ Begins(Skipped[rest[n]], {Close(type)})
        /\ Behind(Skipped[rest[n]], 1) = more
    BY <1>2, <1>l, <2>0
  <2>2. elements[first[n]] = Read(<<es[n]>>, more)
    <3> DEFINE e == es[n]
               r == rest[n]
               t == first[n]
    <3>1. /\ Element(type, value, t) = Read(e, r) /\ t \in Text
          /\ Begins(Skipped[r], {Close(type)}) /\ Behind(Skipped[r], 1) = more
      BY <2>1
    <3> HIDE DEF e, r, t
    <3>2. Elements(type, value)[t] = Read(<<e>>, more)
      BY <3>1, <1>a
    <3> QED
      BY <3>2 DEF e, r, t
  <2>3. LeftFrom(es, n) = <<es[n]>> \o <<>>
    BY <1>f, <2>0
  <2>4. <<es[n]>> \o <<>> = <<es[n]>>
    <3> DEFINE x == es[n]
    <3>1. x \in E
      BY <1>0, <2>0
    <3> HIDE DEF x
    <3>2. <<x>> \o <<>> = <<x>>
      BY <3>1
    <3> QED
      BY <3>2 DEF x
  <2>5. n..n \subseteq good
    <3>1. \A k \in n..n : k = n
      BY <1>0
    <3> QED
      BY <3>1, <1>2
  <2> QED
    BY <2>2, <2>3, <2>4, <2>5
<1>3. ASSUME NEW i \in 1..n, i < n, i \in good, Right(i + 1)
      PROVE  Right(i)
  <2> DEFINE next == first[i + 1]
             others == elements[next]
             left == LeftFrom(es, i + 1)
  <2>1. /\ Element(type, value, first[i]) = Read(es[i], rest[i]) /\ first[i] \in Text
        /\ Begins(Skipped[rest[i]], {","})
        /\ Skipped[Tail(Skipped[rest[i]])] = next
        /\ ~Begins(next, {Close(type)})
    BY <1>3, <1>l
  <2>2. elements[first[i]] =
           IF others.ok THEN Read(<<es[i]>> \o others.json, others.rest) ELSE Failure
    <3> DEFINE e == es[i]
               r == rest[i]
               t == first[i]
               behind == Elements(type, value)[Skipped[Tail(Skipped[r])]]
    <3>1. /\ Element(type, value, t) = Read(e, r) /\ t \in Text
          /\ Begins(Skipped[r], {","})
          /\ ~Begins(Skipped[Tail(Skipped[r])], {Close(type)})
      BY <2>1
    <3>2. others = behind
      BY <2>1
    <3> HIDE DEF e, r, t, others
    <3>3. Elements(type, value)[t]
             = IF behind.ok THEN Read(<<e>> \o behind.json, behind.rest) ELSE Failure
      BY <3>1, <1>b
    <3> QED
      BY <3>2, <3>3 DEF e, t
  <2>3. i..n \subseteq good <=> i + 1..n \subseteq good
    <3>1. \A k \in i..n : k = i \/ k \in i + 1..n
      BY <1>0
    <3>2. i + 1..n \subseteq i..n
      BY <1>0
    <3> QED
      BY <3>1, <3>2, <1>3
  <2>4. others = IF i + 1..n \subseteq good THEN Read(left, more) ELSE Failure
    BY <1>3
  <2>5. LeftFrom(es, i) = <<es[i]>> \o left
    BY <1>f
  <2>6. CASE i + 1..n \subseteq good
    <3>1. others = Read(left, more)
      BY <2>4, <2>6
    <3> HIDE DEF others, left
    <3>2. others.ok /\ others.json = left /\ others.rest = more
      BY <3>1 DEF Read
    <3> QED
      BY <2>2, <2>3, <2>5, <2>6, <3>2
  <2>7. CASE ~(i + 1..n \subseteq good)
    <3>1. others = Failure
      BY <2>4, <2>7
    <3> HIDE DEF others
    <3>2. ~others.ok
      BY <3>1 DEF Failure
    <3> QED
      BY <2>2, <2>3, <2>7, <3>2
  <2> QED
    BY <2>6, <2>7
<1> HIDE DEF n, Right
<1>4. Low = {}
  <2>1. SUFFICES ASSUME Low # {} PROVE FALSE
    OBVIOUS
  <2>2. PICK k \in Low : \A l \in Low : k <= l
    <3>1. Low \subseteq Nat
      OBVIOUS
    <3> QED
      BY <2>1, <3>1, LeastNatural
  <2>3. k \in Nat /\ k < n /\ ~Right(n - k) /\ n - k \in 1..n
    BY <1>0, <2>2
  <2>4. CASE k = 0
    <3>1. n - k = n /\ n \in 1..n
      BY <1>0, <2>4
    <3> QED
      BY <2>3, <3>1, <1>1, <1>2
  <2>5. CASE k # 0
    <3>1. k - 1 \in Nat /\ k - 1 < n /\ ~(k <= k - 1) /\ n - (k - 1) = n - k + 1 /\ n - k < n
      BY <1>0, <2>3, <2>5
    <3>2. Right(n - k + 1)
      BY <3>1, <2>2
    <3> DEFINE i == n - k
    <3>3. i \in 1..n /\ i < n /\ Right(i + 1) /\ ~Right(i)
      BY <2>3, <3>1, <3>2
    <3> HIDE DEF i
    <3> QED
      BY <3>3, <1>1, <1>3
  <2> QED
    BY <2>4, <2>5
<1>5. Right(1)
  <2>1. n - 1 \in Nat /\ n - 1 < n /\ n - (n - 1) = 1
    BY <1>0
  <2> QED
    BY <2>1, <1>4
<1> QED
  BY <1>5, <1>f DEF Right, n

\* One text behind the other, as an operator that the proofs need not look into.
Cat(s, t) == s \o t

\* Texts joined by Cat.
LEMMA CatAssociative ==
    /\ \A s, t \in Text : Cat(s, t) \in Text
    /\ \A s, t, u \in Text : Cat(Cat(s, t), u) = Cat(s, Cat(t, u))
BY TextJoined, Associative DEF Cat

\* Five texts joined from either side.
LEMMA FiveTexts ==
    \A a, b, c, d, e \in Text :
       Cat(Cat(Cat(Cat(a, b), c), d), e) = Cat(a, Cat(b, Cat(c, Cat(d, e))))
<1>1. SUFFICES ASSUME NEW a \in Text, NEW b \in Text, NEW c \in Text, NEW d \in Text,
                      NEW e \in Text
               PROVE  Cat(Cat(Cat(Cat(a, b), c), d), e) = Cat(a, Cat(b, Cat(c, Cat(d, e))))
  OBVIOUS
<1>2. Cat(a, b) \in Text /\ Cat(d, e) \in Text
  BY CatAssociative
<1>3. Cat(Cat(a, b), c) \in Text /\ Cat(c, Cat(d, e)) \in Text
  BY <1>2, CatAssociative
<1>4. Cat(Cat(Cat(Cat(a, b), c), d), e) = Cat(Cat(Cat(a, b), c), Cat(d, e))
  BY <1>3, CatAssociative
<1>5. Cat(Cat(Cat(a, b), c), Cat(d, e)) = Cat(Cat(a, b), Cat(c, Cat(d, e)))
  BY <1>2, CatAssociative
<1>6. Cat(Cat(a, b), Cat(c, Cat(d, e))) = Cat(a, Cat(b, Cat(c, Cat(d, e))))
  BY <1>3, CatAssociative
<1> QED
  BY <1>4, <1>5, <1>6

\* What stands behind one piece.
LEMMA BehindFirst ==
    ASSUME NEW x \in Piece, NEW t \in Text
    PROVE  Behind(<<x>> \o t, 1) = t
<1>1. <<x>> \in Text /\ Len(<<x>>) = 1
  BY OnePiece, EmptyText
<1> QED
  BY <1>1, BehindWhole

\* A joined text begins with the first piece of its first part.
LEMMA BeginsJoined ==
    ASSUME NEW s \in Text, s # <<>>, NEW t \in Text
    PROVE  \A S : Begins(s \o t, S) <=> Head(s) \in S
<1> DEFINE x == Head(s)
           u == Tail(s)
<1>1. x \in Piece /\ u \in Text /\ s = <<x>> \o u /\ <<x>> \in Text
  BY TailShorter, OnePiece
<1> HIDE DEF x, u
<1>2. (<<x>> \o u) \o t = <<x>> \o (u \o t) /\ u \o t \in Text
  BY <1>1, Associative, TextJoined
<1>3. \A S : Begins(<<x>> \o (u \o t), S) <=> x \in S
  BY <1>1, <1>2, OnePiece
<1> QED
  BY <1>1, <1>2, <1>3 DEF x

\* A text whose lines from one on are these, and the closing bracket with what follows.
Ending(lines, i, level, newline, close, more) ==
    FlattenSeq(LeftFrom(lines, i)) \o (Indent(level, newline) \o (<<close>> \o more))

\* What is left of a container from its i-th line on.
LEMMA EndingParts ==
    ASSUME NEW newline \in Seq(WhiteSpace), NEW level \in Nat, NEW parts \in Seq(Text),
           NEW close \in Piece, NEW more \in Text
    PROVE  LET lines == PartLines(parts, level, newline)
               ending(i) == Ending(lines, i, level, newline, close, more)
           IN  /\ \A i \in 1..Len(parts) + 1 : ending(i) \in Text
               /\ ending(Len(parts) + 1) = Cat(Indent(level, newline), Cat(<<close>>, more))
               /\ \A i \in 1..Len(parts) :
                     ending(i) = Cat(Indent(level + 1, newline),
                                     Cat(parts[i],
                                         Cat(IF i < Len(parts) THEN <<",">> ELSE <<>>,
                                             Cat(newline, ending(i + 1)))))
<1> DEFINE lines == PartLines(parts, level, newline)
           end == Indent(level, newline) \o (<<close>> \o more)
           n == Len(parts)
           flat(i) == FlattenSeq(LeftFrom(lines, i))
           ending(i) == Ending(lines, i, level, newline, close, more)
<1>1. /\ lines \in Seq(Text) /\ Len(lines) = n /\ n \in Nat
      /\ \A i \in 1..n : lines[i] = PartLine(parts, level, newline, i)
  BY LinesText
<1>2. end \in Text
  <2>1. Indent(level, newline) \in Text
    BY BlankText
  <2>2. <<close>> \o more \in Text
    BY OnePiece
  <2> QED
    BY <2>1, <2>2, TextJoined
<1>3. \A i : ending(i) = Cat(flat(i), end)
  BY Zenon DEF Ending, Cat
<1> HIDE DEF lines, end, n, ending
<1>4. /\ LeftFrom(lines, n + 1) = <<>>
      /\ \A i \in 1..n + 1 : LeftFrom(lines, i) \in Seq(Text)
      /\ \A i \in 1..n : LeftFrom(lines, i) = <<lines[i]>> \o LeftFrom(lines, i + 1)
  BY <1>1, FromParts
<1>5. ASSUME NEW ls \in Seq(Text) PROVE FlattenSeq(ls) \in Text
  BY EmptyText, FlattenCons
<1>6. \A i \in 1..n + 1 : flat(i) \in Text
  BY <1>4, <1>5
<1>7. flat(n + 1) = <<>>
  BY <1>4 DEF FlattenSeq
<1>8. \A i \in 1..n + 1 : ending(i) \in Text
  BY <1>2, <1>3, <1>6, CatAssociative
<1>9. ending(n + 1) = end
  <2>1. ending(n + 1) = Cat(<<>>, end)
    BY <1>3, <1>7
  <2>2. Cat(<<>>, end) = end
    BY <1>2, JoinedEmpty DEF Cat
  <2> QED
    BY <2>1, <2>2
<1> HIDE DEF flat
<1>10. ASSUME NEW i \in 1..n
       PROVE  ending(i) = Cat(Indent(level + 1, newline),
                              Cat(parts[i], Cat(IF i < n THEN <<",">> ELSE <<>>,
                                                Cat(newline, ending(i + 1)))))
  <2> DEFINE indent == Indent(level + 1, newline)
             part == parts[i]
             comma == IF i < n THEN <<",">> ELSE <<>>
             line == lines[i]
             left == LeftFrom(lines, i + 1)
             behind == ending(i + 1)
  <2>0. level + 1 \in Nat
    OBVIOUS
  <2>1. indent \in Text /\ newline \in Text /\ part \in Text /\ comma \in Text
    <3>1. indent \in Text /\ newline \in Text
      BY <2>0, BlankText
    <3>2. part \in Text
      BY <1>1 DEF n
    <3>3. "," \in Structure
      BY DEF Structure
    <3>4. <<",">> \in Text /\ <<>> \in Text
      BY <3>3, PiecesAssumption, OnePiece, EmptyText
    <3> QED
      BY <3>1, <3>2, <3>4
  <2>2. line = ((indent \o part) \o comma) \o newline
    BY <1>1 DEF PartLine, n
  <2>3. i + 1 \in 1..n + 1 /\ i \in 1..n + 1
    BY <1>1
  <2>f. FlattenSeq(<<line>> \o left) = FlattenSeq(LeftFrom(lines, i))
    BY <1>4
  <2> HIDE DEF line, left, indent, part, comma, behind
  <2>4. left \in Seq(Text) /\ line \in Text /\ LeftFrom(lines, i) = <<line>> \o left
    <3>1. left \in Seq(Text)
      BY <1>4, <2>3 DEF left
    <3>2. line \in Text
      <4>1. \A k \in 1..n : lines[k] \in Text
        BY <1>1
      <4> QED
        BY <4>1 DEF line
    <3>3. LeftFrom(lines, i) = <<line>> \o left
      BY <1>4 DEF line, left
    <3> QED
      BY <3>1, <3>2, <3>3
  <2>5. behind \in Text /\ behind = Cat(FlattenSeq(left), end)
        /\ ending(i) = Cat(FlattenSeq(<<line>> \o left), end)
    <3>1. ending(i + 1) \in Text /\ ending(i + 1) = Cat(flat(i + 1), end)
          /\ ending(i) = Cat(flat(i), end)
      BY <1>3, <1>8, <2>3
    <3>2. flat(i + 1) = FlattenSeq(left) /\ flat(i) = FlattenSeq(<<line>> \o left)
      BY <2>f DEF left, flat
    <3> QED
      BY <3>1, <3>2 DEF behind
  <2>6. FlattenSeq(<<line>> \o left) = Cat(line, FlattenSeq(left))
              /\ FlattenSeq(left) \in Text
    BY <2>4, FlattenCons DEF Cat
  <2>7. Cat(Cat(line, FlattenSeq(left)), end) = Cat(line, Cat(FlattenSeq(left), end))
    BY <1>2, <2>4, <2>6, CatAssociative
  <2>8. ending(i) = Cat(line, behind)
    BY <2>5, <2>6, <2>7
  <2>9. Cat(Cat(Cat(Cat(indent, part), comma), newline), behind)
           = Cat(indent, Cat(part, Cat(comma, Cat(newline, behind))))
    BY <2>1, <2>5, FiveTexts
  <2>10. ending(i) = Cat(indent, Cat(part, Cat(comma, Cat(newline, behind))))
    BY <2>2, <2>8, <2>9, Zenon DEF Cat
  <2> QED
    BY <2>10, Zenon DEF indent, part, comma, behind
<1>11. ending(n + 1) = Cat(Indent(level, newline), Cat(<<close>>, more))
  BY <1>9, Zenon DEF end, Cat
<1> QED
  BY <1>8, <1>10, <1>11, Zenon DEF lines, n, ending

\* What stands in brackets, from the opening one on.
LEMMA BracketedText ==
    ASSUME NEW newline \in Seq(WhiteSpace), NEW level \in Nat, NEW parts \in Seq(Text),
           parts # <<>>, NEW open \in Piece, NEW close \in Piece, NEW more \in Text
    PROVE  Cat(Bracketed(open, parts, close, level, newline), more)
             = Cat(<<open>>, Cat(newline, Ending(PartLines(parts, level, newline), 1,
                                                 level, newline, close, more)))
<1> DEFINE lines == PartLines(parts, level, newline)
           flat == FlattenSeq(lines)
           indent == Indent(level, newline)
           a == <<open>>
           z == <<close>>
           zm == z \o more
           body == ((a \o newline) \o flat) \o indent
<1>1. lines \in Seq(Text) /\ LeftFrom(lines, 1) = lines
  BY LinesText, FromParts
<1>2. flat \in Text
  <2> HIDE DEF lines
  <2> QED
    BY <1>1, EmptyText, FlattenCons
<1>3. newline \in Text /\ indent \in Text /\ a \in Text /\ z \in Text
  BY BlankText, OnePiece, EmptyText
<1>4. Bracketed(open, parts, close, level, newline) = body \o z
  BY BracketedForm
<1>5. Ending(lines, 1, level, newline, close, more) = flat \o (indent \o zm)
  BY <1>1 DEF Ending
<1> HIDE DEF lines, flat, indent, a, z
<1>6. zm \in Text /\ body \in Text
  <2>1. zm \in Text
    BY <1>3, TextJoined
  <2>2. a \o newline \in Text
    BY <1>3, TextJoined
  <2>3. (a \o newline) \o flat \in Text
    BY <1>2, <2>2, TextJoined
  <2> QED
    BY <1>3, <2>1, <2>3, TextJoined
<1> HIDE DEF body, zm
<1>7. Cat(Cat(body, z), more) = Cat(body, Cat(z, more))
  BY <1>3, <1>6, CatAssociative
<1>8. Cat(Cat(Cat(Cat(a, newline), flat), indent), zm)
         = Cat(a, Cat(newline, Cat(flat, Cat(indent, zm))))
  BY <1>2, <1>3, <1>6, FiveTexts
<1>9. (body \o z) \o more = a \o (newline \o (flat \o (indent \o zm)))
  BY <1>7, <1>8, Zenon DEF body, zm, Cat
<1>10. (body \o z) \o more = a \o (newline \o Ending(lines, 1, level, newline, close, more))
  BY <1>5, <1>9, Zenon
<1> QED
  BY <1>4, <1>10, Zenon DEF lines, a, Cat

\* Each part is read as the element that it is, or refused, whatever follows it that
\* does not go on with a number.
ReadsParts(type, value, parts, es, good) ==
    \A i \in 1..Len(es) :
       /\ parts[i] # <<>>
       /\ Head(parts[i]) \notin WhiteSpace /\ Head(parts[i]) # Close(type)
       /\ \A behind \in Text :
             Stops(behind) => Element(type, value, parts[i] \o behind) =
                                 IF i \in good THEN Read(es[i], behind) ELSE Failure

\* Brackets and commas are no blanks.
LEMMA BracketPieces ==
    ASSUME NEW type
    PROVE  /\ Close(type) \notin WhiteSpace /\ "," \notin WhiteSpace /\ "," \in Piece
           /\ Open(type) \in Piece /\ Close(type) \in Piece
<1>1. "," \in Piece
  <2>1. "," \in Structure
    BY DEF Structure
  <2> QED
    BY <2>1, PiecesAssumption
<1>2. Close(type) \notin WhiteSpace /\ "," \notin WhiteSpace
  BY DEF Close, WhiteSpace, NewLine, Crlf
<1> QED
  BY <1>1, <1>2, ClosingPieces

\* An empty container is read as one.
LEMMA EmptyRead ==
    ASSUME NEW type, NEW value, NEW more \in Text
    PROVE  Container(type, value, <<Open(type), Close(type)>> \o more)
             = Read([type |-> type, of |-> <<>>], more)
<1> DEFINE open == Open(type)
           close == Close(type)
           text == <<open, close>> \o more
           behind == <<close>> \o more
<1>1. open \in Piece /\ close \in Piece /\ close \notin WhiteSpace
  BY BracketPieces
<1> HIDE DEF open, close
<1>2. behind \in Text /\ Begins(behind, {close}) /\ Tail(behind) = more
            /\ ~Begins(behind, WhiteSpace)
  BY <1>1, OnePiece
<1>3. text = <<open>> \o behind
  BY <1>1, TwoPieces
<1> HIDE DEF behind
<1>4. Tail(text) = behind
  <2>1. Tail(<<open>> \o behind) = behind
    BY <1>1, <1>2, OnePiece
  <2> QED
    BY <1>3, <2>1
<1> HIDE DEF text
<1>5. Skipped[Tail(text)] = behind
  BY <1>2, <1>4, SkippedStays
<1>6. Container(type, value, text) = Read([type |-> type, of |-> <<>>], Tail(behind))
  BY <1>2, <1>5 DEF Container, close
<1> QED
  BY <1>2, <1>6 DEF text, open, close

\* A container is read as it was laid out, unless an element is refused or a name
\* stands twice.
LEMMA BracketedRead ==
    ASSUME NEW J, NEW value \in [Text -> Outcome(J)], Advances(value), NEW type,
           NEW E, NEW es \in Seq(E), NEW parts \in Seq(Text), Len(parts) = Len(es),
           NEW good, ReadsParts(type, value, parts, es, good),
           NEW newline \in Seq(WhiteSpace), NEW level \in Nat, NEW more \in Text
    PROVE  Container(type, value, Bracketed(Open(type), parts, Close(type), level, newline)
                                    \o more)
             = IF 1..Len(es) \subseteq good /\ (type = "object" => Distinct(es))
               THEN Read([type |-> type, of |-> es], more) ELSE Failure
<1> DEFINE n == Len(es)
           open == Open(type)
           close == Close(type)
           lines == PartLines(parts, level, newline)
           comma(i) == IF i < n THEN <<",">> ELSE <<>>
           ending(i) == Ending(lines, i, level, newline, close, more)
           rest == [i \in 1..n |-> comma(i) \o (newline \o ending(i + 1))]
           first == [i \in 1..n |-> parts[i] \o rest[i]]
<1>1. CASE es = <<>>
  <2>1. parts = <<>>
    BY <1>1
  <2>2. Bracketed(open, parts, close, level, newline) = <<open, close>>
    <3>1. open \in Piece /\ close \in Piece
      BY BracketPieces
    <3> HIDE DEF open, close
    <3> QED
      BY <2>1, <3>1, BracketedForm
  <2>3. 1..Len(es) \subseteq good /\ Distinct(es)
    BY <1>1 DEF Distinct
  <2> QED
    BY <1>1, <2>2, <2>3, EmptyRead
<1>2. CASE es # <<>>
  <2>0. n \in Nat /\ n > 0 /\ parts # <<>> /\ Len(parts) = n
              /\ \A i \in 1..n : parts[i] \in Text
    BY <1>2
  <2>p. /\ open \in Piece /\ close \in Piece /\ close \notin WhiteSpace
        /\ "," \in Piece /\ "," \notin WhiteSpace
    BY BracketPieces
  <2>e. /\ \A i \in 1..n + 1 : ending(i) \in Text
        /\ ending(n + 1) = Cat(Indent(level, newline), Cat(<<close>>, more))
        /\ \A i \in 1..n :
              ending(i) = Cat(Indent(level + 1, newline),
                              Cat(parts[i], Cat(comma(i), Cat(newline, ending(i + 1)))))
    <3> HIDE DEF close
    <3>1. close \in Piece
      BY <2>p
    <3>2. /\ \A i \in 1..Len(parts) + 1 : ending(i) \in Text
          /\ ending(Len(parts) + 1) = Cat(Indent(level, newline), Cat(<<close>>, more))
          /\ \A i \in 1..Len(parts) :
                ending(i) = Cat(Indent(level + 1, newline),
                                Cat(parts[i], Cat(IF i < Len(parts) THEN <<",">> ELSE <<>>,
                                                  Cat(newline, ending(i + 1)))))
      BY <3>1, EndingParts
    <3> HIDE DEF ending
    <3>3. Len(parts) = n
      BY <2>0
    <3> HIDE DEF n
    <3>4. \A i \in 1..n + 1 : ending(i) \in Text
      BY <3>2, <3>3
    <3>5. ending(n + 1) = Cat(Indent(level, newline), Cat(<<close>>, more))
      BY <3>2, <3>3
    <3>6. ASSUME NEW i \in 1..n
          PROVE  ending(i) = Cat(Indent(level + 1, newline),
                                 Cat(parts[i], Cat(comma(i), Cat(newline, ending(i + 1)))))
      <4>1. ending(i) = Cat(Indent(level + 1, newline),
                            Cat(parts[i], Cat(IF i < Len(parts) THEN <<",">> ELSE <<>>,
                                              Cat(newline, ending(i + 1)))))
        BY <3>2, <3>3
      <4>2. comma(i) = IF i < Len(parts) THEN <<",">> ELSE <<>>
        BY <3>3
      <4> HIDE DEF comma
      <4> QED
        BY <4>1, <4>2, Zenon
    <3> QED
      BY <3>4, <3>5, <3>6
  <2>w. /\ Indent(level + 1, newline) \in Seq(WhiteSpace)
        /\ Indent(level, newline) \in Seq(WhiteSpace) /\ newline \in Text
    <3>1. level + 1 \in Nat
      OBVIOUS
    <3> QED
      BY <3>1, BlankText
  <2>r. ASSUME NEW i \in 1..n
        PROVE  /\ parts[i] # <<>> /\ Head(parts[i]) \notin WhiteSpace
               /\ Head(parts[i]) # close
               /\ \A behind \in Text :
                     Stops(behind) => Element(type, value, parts[i] \o behind) =
                                         IF i \in good THEN Read(es[i], behind) ELSE Failure
    BY DEF ReadsParts
  <2> HIDE DEF n, open, close, ending
  <2>1. ASSUME NEW i \in 1..n
        PROVE  newline \o ending(i + 1) \in Text /\ rest[i] \in Text
    <3>1. ending(i + 1) \in Text
      <4>1. i + 1 \in 1..n + 1
        BY <2>0
      <4> QED
        BY <4>1, <2>e
    <3>2. comma(i) \in Text
      BY <2>p, OnePiece, EmptyText
    <3> DEFINE behind == ending(i + 1)
               c == comma(i)
    <3> HIDE DEF behind, comma, c
    <3>3. newline \o behind \in Text
      BY <3>1, <2>w, TextJoined DEF behind
    <3> DEFINE nb == newline \o behind
    <3> HIDE DEF nb
    <3>4. c \o nb \in Text
      BY <3>2, <3>3, TextJoined DEF nb, c
    <3> QED
      BY <3>3, <3>4 DEF nb, behind, c
  <2>2. ASSUME NEW i \in 1..n
        PROVE  /\ first[i] \in Text /\ \A S : Begins(first[i], S) <=> Head(parts[i]) \in S
               /\ ending(i) = Indent(level + 1, newline) \o first[i]
    <3> DEFINE part == parts[i]
               behind == rest[i]
    <3>1. part \in Text /\ part # <<>> /\ behind \in Text
      BY <2>0, <2>1, <2>r
    <3>2. first[i] = part \o behind
      OBVIOUS
    <3>3. ending(i) = Indent(level + 1, newline) \o (part \o behind)
      <4>1. behind = comma(i) \o (newline \o ending(i + 1))
        OBVIOUS
      <4>2. ending(i) = Indent(level + 1, newline)
                             \o (part \o (comma(i) \o (newline \o ending(i + 1))))
        BY <2>e, Zenon DEF Cat
      <4> HIDE DEF behind, part, comma
      <4> QED
        BY <4>1, <4>2, Zenon
    <3>4. \A S : Begins(first[i], S) <=> Head(part) \in S
      <4> HIDE DEF part, behind, first
      <4>1. \A S : Begins(part \o behind, S) <=> Head(part) \in S
        BY <3>1, BeginsJoined
      <4> QED
        BY <3>2, <4>1, Zenon
    <3>5. first[i] \in Text
      <4> HIDE DEF part, behind, first
      <4>1. part \o behind \in Text
        BY <3>1, TextJoined
      <4> QED
        BY <3>2, <4>1, Zenon
    <3> HIDE DEF first, rest
    <3>6. ending(i) = Indent(level + 1, newline) \o first[i]
      BY <3>2, <3>3, Zenon
    <3> QED
      BY <3>4, <3>5, <3>6 DEF part
  <2> HIDE DEF rest, comma
  <2>l. \A i \in 1..n : rest[i] = comma(i) \o (newline \o ending(i + 1))
    BY DEF rest
  <2>f. \A i \in 1..n : first[i] = parts[i] \o rest[i]
    BY Zenon
  <2> HIDE DEF first
  <2>3. ASSUME NEW i \in 1..n
        PROVE  Skipped[newline \o ending(i)] = first[i]
    <3> DEFINE start == first[i]
               indent == Indent(level + 1, newline)
               end == ending(i)
    <3>1. start \in Text /\ ~Begins(start, WhiteSpace) /\ end = indent \o start
      BY <2>2, <2>r
    <3>2. end \in Text
      BY <2>e, <2>0
    <3> HIDE DEF start, indent, end
    <3>3. Skipped[newline \o end] = Skipped[end]
      BY <3>2, BlanksSkipped
    <3>4. Skipped[indent \o start] = Skipped[start]
      BY <3>1, <2>w, BlanksSkipped DEF indent
    <3>5. Skipped[start] = start
      BY <3>1, SkippedStays
    <3> QED
      BY <3>1, <3>3, <3>4, <3>5, Zenon DEF start, end
  <2>4. ASSUME NEW i \in 1..n, i < n
        PROVE  /\ Begins(Skipped[rest[i]], {","})
               /\ Skipped[Tail(Skipped[rest[i]])] = first[i + 1]
               /\ ~Begins(first[i + 1], {Close(type)})
    <3>1. i + 1 \in 1..n
      BY <2>0, <2>4
    <3> DEFINE nb == newline \o ending(i + 1)
               j == i + 1
    <3>2. nb \in Text /\ Skipped[nb] = first[j]
      BY <2>1, <2>3, <3>1
    <3>3. rest[i] = <<",">> \o nb
      BY <2>l, <2>4, Zenon DEF comma
    <3> HIDE DEF nb
    <3>4. <<",">> \o nb \in Text /\ Begins(<<",">> \o nb, {","}) /\ Tail(<<",">> \o nb) = nb
          /\ ~Begins(<<",">> \o nb, WhiteSpace)
      BY <3>2, <2>p, OnePiece
    <3> DEFINE r == <<",">> \o nb
    <3> HIDE DEF r
    <3>5. Skipped[r] = r
      BY <3>4, SkippedStays DEF r
    <3>6. Begins(Skipped[rest[i]], {","}) /\ Skipped[Tail(Skipped[rest[i]])] = first[j]
      BY <3>2, <3>3, <3>4, <3>5 DEF r
    <3>7. ~Begins(first[j], {close})
      <4>1. j \in 1..n
        BY <3>1
      <4> HIDE DEF j
      <4> QED
        BY <2>2, <2>r, <4>1
    <3> QED
      BY <3>6, <3>7 DEF close
  <2>5. Begins(Skipped[rest[n]], {Close(type)}) /\ Behind(Skipped[rest[n]], 1) = more
    <3> DEFINE z == <<close>> \o more
               indent == Indent(level, newline)
               end == indent \o z
    <3>1. z \in Text /\ Begins(z, {close}) /\ ~Begins(z, WhiteSpace) /\ Behind(z, 1) = more
      BY <2>p, OnePiece, BehindFirst
    <3>2. end \in Text
      <4>1. indent \in Text
        BY BlankText
      <4> HIDE DEF z, indent
      <4> QED
        BY <3>1, <4>1, TextJoined
    <3>3. rest[n] = <<>> \o (newline \o end)
      <4>1. n \in 1..n /\ ~(n < n)
        BY <2>0
      <4> HIDE DEF z, indent
      <4>2. comma(n) = <<>>
        BY <4>1 DEF comma
      <4>3. ending(n + 1) = indent \o z
        BY <2>e, Zenon DEF z, indent, Cat
      <4>4. rest[n] = comma(n) \o (newline \o ending(n + 1))
        BY <2>l, <4>1
      <4> QED
        BY <4>2, <4>3, <4>4, Zenon
    <3> HIDE DEF z, indent, end
    <3> DEFINE nb == newline \o end
    <3>4. nb \in Text /\ Skipped[nb] = Skipped[end]
      BY <3>2, <2>w, TextJoined, BlanksSkipped
    <3> HIDE DEF nb
    <3>5. <<>> \o nb = nb
      BY <3>4, JoinedEmpty
    <3>6. Skipped[rest[n]] = Skipped[end]
      BY <3>3, <3>4, <3>5, Zenon DEF nb
    <3>7. Skipped[end] = z
      <4>1. Skipped[indent \o z] = Skipped[z]
        BY <3>1, <2>w, BlanksSkipped DEF indent
      <4>2. Skipped[z] = z
        BY <3>1, SkippedStays
      <4> QED
        BY <4>1, <4>2, Zenon DEF end
    <3> QED
      BY <3>1, <3>6, <3>7 DEF close
  <2>s. ASSUME NEW i \in 1..n
        PROVE  Stops(rest[i])
    <3> DEFINE behind == rest[i]
               end == Close(type)
    <3>1. behind \in Text /\ "," \in Structure /\ end \in Structure
      BY <2>1 DEF Structure, Close
    <3>2. CASE i < n
      <4>1. Begins(Skipped[behind], {","})
        BY <2>4, <3>2
      <4> HIDE DEF behind
      <4>2. Stops(behind)
        BY <3>1, <4>1, StopsBefore
      <4> QED
        BY <4>2 DEF behind
    <3>3. CASE ~(i < n)
      <4>1. i = n
        BY <2>0, <3>3
      <4>2. Begins(Skipped[behind], {end})
        BY <2>5, <4>1
      <4> HIDE DEF behind, end
      <4>3. Stops(behind)
        BY <3>1, <4>2, StopsBefore
      <4> QED
        BY <4>3 DEF behind
    <3> QED
      BY <3>2, <3>3
  <2>6. ListedAs(type, value, es, good, first, rest, more)
    <3>1. ASSUME NEW i \in 1..n
          PROVE  Element(type, value, first[i]) =
                    IF i \in good THEN Read(es[i], rest[i]) ELSE Failure
      <4> DEFINE behind == rest[i]
      <4>1. behind \in Text /\ first[i] = parts[i] \o behind /\ Stops(behind)
        BY <2>1, <2>f, <2>s, Zenon
      <4> HIDE DEF behind
      <4>2. Element(type, value, parts[i] \o behind) =
               IF i \in good THEN Read(es[i], behind) ELSE Failure
        BY <2>r, <4>1
      <4> QED
        BY <4>1, <4>2, Zenon DEF behind
    <3>2. \A i \in 1..n : first[i] \in Text
      BY <2>2
    <3> QED
      BY <3>1, <3>2, <2>4, <2>5 DEF ListedAs, n
  <2>7. Elements(type, value)[first[1]] =
           IF 1..n \subseteq good THEN Read(es, more) ELSE Failure
    BY <1>2, <2>6, ListRead DEF n
  <2> DEFINE text == Bracketed(open, parts, close, level, newline) \o more
             start == first[1]
             elements == Elements(type, value)[start]
  <2>8. Skipped[Tail(text)] = start
    <3> DEFINE nb == newline \o ending(1)
    <3>1. 1 \in 1..n /\ ending(1) \in Text
      BY <2>0, <2>e
    <3>2. nb \in Text
      BY <2>w, <3>1, TextJoined
    <3>3. Skipped[nb] = start
      BY <2>3, <3>1
    <3>4. text = <<open>> \o nb
      <4>1. Cat(Bracketed(open, parts, close, level, newline), more)
               = Cat(<<open>>, Cat(newline, Ending(lines, 1, level, newline, close, more)))
        <5>1. parts # <<>> /\ open \in Piece /\ close \in Piece
          BY <2>0, <2>p
        <5> QED
          BY <5>1, BracketedText
      <4> QED
        BY <4>1, Zenon DEF ending, Cat
    <3> HIDE DEF nb, text
    <3>5. Tail(<<open>> \o nb) = nb
      BY <2>p, <3>2, OnePiece
    <3> QED
      BY <3>3, <3>4, <3>5, Zenon
  <2>9. ~Begins(start, {Close(type)})
    <3>1. 1 \in 1..n
      BY <2>0
    <3> QED
      BY <3>1, <2>2, <2>r DEF close
  <2> HIDE DEF text, start
  <2>10. Container(type, value, text) =
            IF elements.ok /\ (type = "object" => Distinct(elements.json))
            THEN Read([type |-> type, of |-> elements.json], elements.rest) ELSE Failure
    BY <2>8, <2>9 DEF Container
  <2>11. elements = IF 1..n \subseteq good THEN Read(es, more) ELSE Failure
    BY <2>7 DEF start
  <2> HIDE DEF elements
  <2>12. CASE 1..n \subseteq good
    <3>1. elements.ok /\ elements.json = es /\ elements.rest = more
      BY <2>11, <2>12 DEF Read
    <3> QED
      BY <2>10, <2>12, <3>1 DEF text, open, close, n
  <2>13. CASE ~(1..n \subseteq good)
    <3>1. ~elements.ok
      BY <2>11, <2>13 DEF Failure
    <3> QED
      BY <2>10, <2>13, <3>1 DEF text, open, close, n
  <2> QED
    BY <2>12, <2>13
<1> QED
  BY <1>1, <1>2

-----------------------------------------------------------------------------
(* How values are read back.                                               *)

\* A value is its type and what it is made of, values again.
LEMMA ValueIs ==
    ASSUME NEW json \in Value
    PROVE  /\ json = [type |-> json.type, of |-> json.of]
           /\ json.type = "array" => json.of \in Seq(Value)
           /\ json.type = "object" => json.of \in Seq([name : Seq(Char), value : Value])
<1> DEFINE J == Inner(FALSE, Deepest)
<1>1. json \in Made(FALSE, J) /\ J \subseteq Value
  <2>1. Deepest \in Nat /\ Deepest <= Deepest /\ FALSE \in BOOLEAN
    BY NestingAssumption
  <2>2. json \in Made(FALSE, J)
    BY <2>1, JsonEquation DEF Value
  <2> HIDE DEF J
  <2>3. J \subseteq Value
    BY <2>1, JsonGrows DEF Value, J
  <2> QED
    BY <2>2, <2>3
<1> HIDE DEF J
<1>2. json = [type |-> json.type, of |-> json.of]
      /\ (json.type = "array" => json.of \in Seq(J))
      /\ (json.type = "object" => json.of \in Seq([name : Seq(Char), value : J]))
  <2>1. FALSE \in BOOLEAN
    OBVIOUS
  <2> QED
    BY <1>1, <2>1, MadeForms
<1>3. Seq(J) \subseteq Seq(Value)
  BY <1>1, SequencesGrow
<1>4. Seq([name : Seq(Char), value : J]) \subseteq Seq([name : Seq(Char), value : Value])
  <2> DEFINE R == [name : Seq(Char), value : J]
             S == [name : Seq(Char), value : Value]
  <2>1. R \subseteq S
    BY <1>1
  <2> HIDE DEF R, S
  <2>2. Seq(R) \subseteq Seq(S)
    BY <2>1, SequencesGrow
  <2> QED
    BY <2>2 DEF R, S
<1> QED
  BY <1>2, <1>3, <1>4

\* The places of a container at which a valid value of J stands.
Fit(json, J) ==
    {i \in 1..Len(json.of) :
        /\ InnerOf(json, i) \in J
        /\ json.type = "object" => Nul \notin ToSet(json.of[i].name)}

\* A name without '\0'.
LEMMA NoNul ==
    ASSUME NEW name \in Seq(Char)
    PROVE  Nul \notin ToSet(name) <=> name \in Seq(Char \ {Nul})
<1>1. /\ ToSet(name) = {name[i] : i \in 1..Len(name)}
      /\ Len(name) \in Nat /\ \A i \in 1..Len(name) : name[i] \in Char
  BY DEF ToSet
<1>2. ASSUME Nul \notin ToSet(name)
      PROVE  name \in Seq(Char \ {Nul})
  <2> DEFINE S == Char \ {Nul}
  <2>1. \A i \in 1..Len(name) : name[i] \in S
    BY <1>1, <1>2
  <2>2. name \in [1..Len(name) -> S]
    BY <2>1
  <2>3. Seq(S) = UNION {[1..k -> S] : k \in Nat}
    BY SeqDef, Zenon
  <2> HIDE DEF S
  <2>4. name \in UNION {[1..k -> S] : k \in Nat}
    BY <1>1, <2>2, Zenon
  <2> QED
    BY <2>3, <2>4 DEF S
<1>3. ASSUME name \in Seq(Char \ {Nul})
      PROVE  Nul \notin ToSet(name)
  <2>1. \A i \in 1..Len(name) : name[i] \in Char \ {Nul}
    BY <1>3
  <2> QED
    BY <1>1, <2>1
<1> QED
  BY <1>2, <1>3

\* A sequence whose elements are all in a set.
LEMMA SequenceOf ==
    ASSUME NEW S, NEW s \in Seq(S), NEW U, \A i \in 1..Len(s) : s[i] \in U
    PROVE  s \in Seq(U)
<1>1. s \in [1..Len(s) -> U] /\ Len(s) \in Nat
  OBVIOUS
<1>2. Seq(U) = UNION {[1..k -> U] : k \in Nat}
  BY SeqDef, Zenon
<1>3. s \in UNION {[1..k -> U] : k \in Nat}
  BY <1>1, Zenon
<1> QED
  BY <1>2, <1>3

\* When a value that was written is valid: its containers hold what fits, and no name twice.
LEMMA ValidForms ==
    ASSUME NEW json \in Value, NEW J
    PROVE  /\ json.type \in {"literal", "number", "string"} => json \in Made(TRUE, J)
           /\ json.type \in {"array", "object"} =>
                 (json \in Made(TRUE, J) <=>
                     /\ 1..Len(json.of) \subseteq Fit(json, J)
                     /\ json.type = "object" => Distinct(json.of))
<1>0. json = [type |-> json.type, of |-> json.of] /\ TRUE \in BOOLEAN
  BY ValueIs
<1>1. CASE json.type = "literal"
  <2>1. PICK literal \in Literals : json.of = <<literal>>
    BY <1>1, ValueForms
  <2>2. json \in [type : {"literal"}, of : {<<l>> : l \in Literals}]
    BY <1>0, <1>1, <2>1
  <2> QED
    BY <1>1, <2>2 DEF Made
<1>5. CASE json.type = "number"
  <2>1. json.of \in Decimals
    BY <1>5, ValueForms
  <2>2. json \in [type : {"number"}, of : Decimals]
    BY <1>0, <1>5, <2>1
  <2> QED
    BY <1>5, <2>2 DEF Made
<1>2. CASE json.type = "string"
  <2>1. json.of \in Seq(Char)
    BY <1>2, ValueForms
  <2>2. json \in [type : {"string"}, of : Seq(Char)]
    BY <1>0, <1>2, <2>1
  <2> QED
    BY <1>2, <2>2 DEF Made
<1>3. CASE json.type = "array"
  <2>1. json.of \in Seq(Value)
    BY <1>3, ValueIs
  <2>2. 1..Len(json.of) \subseteq Fit(json, J) <=> \A i \in 1..Len(json.of) : json.of[i] \in J
    BY <1>3 DEF Fit, InnerOf
  <2>3. ASSUME json \in Made(TRUE, J)
        PROVE  \A i \in 1..Len(json.of) : json.of[i] \in J
    <3>1. json.of \in Seq(J)
      BY <1>0, <1>3, <2>3, MadeForms
    <3> QED
      BY <3>1
  <2>4. ASSUME \A i \in 1..Len(json.of) : json.of[i] \in J
        PROVE  json \in Made(TRUE, J)
    <3> DEFINE s == json.of
    <3>1. s \in Seq(Value) /\ \A i \in 1..Len(s) : s[i] \in J
      BY <2>1, <2>4
    <3> HIDE DEF s
    <3>2. s \in Seq(J)
      BY <3>1, SequenceOf
    <3>3. json \in [type : {"array"}, of : Seq(J)]
      BY <1>0, <1>3, <3>2 DEF s
    <3> QED
      BY <3>3 DEF Made
  <2> QED
    BY <1>3, <2>2, <2>3, <2>4
<1>4. CASE json.type = "object"
  <2> DEFINE Name == Seq(Char \ {Nul})
             R == [name : Name, value : J]
             S == [name : Seq(Char), value : Value]
             fields == json.of
  <2>1. fields \in Seq(S)
    BY <1>4, ValueIs
  <2>f. \A i \in 1..Len(fields) : fields[i] \in S
    <3> HIDE DEF S, fields
    <3> QED
      BY <2>1
  <2>2. \A i \in 1..Len(fields) :
           /\ fields[i] = [name |-> fields[i].name, value |-> fields[i].value]
           /\ fields[i].name \in Seq(Char)
    BY <2>f
  <2>3. \A i \in 1..Len(fields) : Nul \notin ToSet(fields[i].name) <=> fields[i].name \in Name
    BY <2>2, NoNul
  <2>4. 1..Len(fields) \subseteq Fit(json, J)
           <=> \A i \in 1..Len(fields) : fields[i].value \in J
                 /\ Nul \notin ToSet(fields[i].name)
    BY <1>4 DEF Fit, InnerOf
  <2> HIDE DEF Name
  <2>5. (\A i \in 1..Len(fields) : fields[i].value \in J /\ Nul \notin ToSet(fields[i].name))
           <=> \A i \in 1..Len(fields) : fields[i] \in R
    <3>1. ASSUME NEW i \in 1..Len(fields)
          PROVE  fields[i].value \in J /\ Nul \notin ToSet(fields[i].name) <=> fields[i] \in R
      <4> DEFINE f == fields[i]
      <4>1. f = [name |-> f.name, value |-> f.value] /\ (Nul \notin ToSet(f.name)
                  <=> f.name \in Name)
        BY <2>2, <2>3
      <4> HIDE DEF f
      <4>2. f.name \in Name /\ f.value \in J => f \in R
        BY <4>1
      <4>3. f \in R => f.name \in Name /\ f.value \in J
        OBVIOUS
      <4> HIDE DEF R
      <4> QED
        BY <4>1, <4>2, <4>3 DEF f
    <3> HIDE DEF R, fields
    <3> QED
      BY <3>1
  <2>6. ASSUME json \in Made(TRUE, J)
        PROVE  (\A i \in 1..Len(fields) : fields[i] \in R) /\ Distinct(fields)
    <3>1. fields \in Seq(R) /\ Distinct(fields)
      BY <1>0, <1>4, <2>6, MadeForms DEF Name
    <3> HIDE DEF R, fields
    <3> QED
      BY <3>1
  <2>7. ASSUME \A i \in 1..Len(fields) : fields[i] \in R, Distinct(fields)
        PROVE  json \in Made(TRUE, J)
    <3>1. json = [type |-> "object", of |-> fields]
      BY <1>0, <1>4
    <3> DEFINE Valid == {fs \in Seq([name : Seq(IF TRUE THEN Char \ {Nul} ELSE Char),
                                     value : J]) : TRUE => Distinct(fs)}
    <3> HIDE DEF R, S, fields
    <3>2. fields \in Seq(R)
      BY <2>1, <2>7, SequenceOf
    <3>3. fields \in Valid
      BY <2>7, <3>2 DEF R, Name
    <3>4. json \in [type : {"object"}, of : Valid]
      <4> HIDE DEF Valid
      <4> QED
        BY <3>1, <3>3
    <3> QED
      BY <3>4 DEF Made
  <2> QED
    BY <1>4, <2>4, <2>5, <2>6, <2>7
<1> QED
  BY <1>1, <1>2, <1>3, <1>4, <1>5, ValueForms

\* parse_value begins behind the blanks.
LEMMA BlankRead ==
    ASSUME NEW n \in Nat, NEW w \in Seq(WhiteSpace), NEW t \in Text
    PROVE  parse_value[n][w \o t] = parse_value[n][t]
<1> DEFINE start == w \o t
           inner == parse_value[n + 1]
           o == Nested(n, inner)
           Value_at(text) ==
              CASE TooDeep(n) -> Failure
                [] ~TooDeep(n) /\ Begins(text, {"{"}) -> Container("object", inner, text)
                [] ~TooDeep(n) /\ Begins(text, {"["}) -> Container("array", inner, text)
                [] ~TooDeep(n) /\ Begins(text, {Quote}) -> parse_string_value(text)
                [] ~TooDeep(n) /\ Begins(text, Literals) -> parse_literal_value(text)
                [] ~TooDeep(n) /\ Begins(text, Lead) -> parse_number_value(text)
                [] OTHER -> Failure
<1>1. start \in Text
  <2>1. WhiteSpace \subseteq Piece
    BY PiecesAssumption DEF Structure
  <2>2. w \in Text
    BY <2>1, SequencesGrow DEF Text
  <2> QED
    BY <2>2, TextJoined
<1>2. Skipped[start] = Skipped[t]
  BY BlanksSkipped
<1>3. o = [s \in Text |-> Value_at(Skipped[s])]
  BY Zenon DEF Nested
<1> HIDE DEF Value_at, start, o
<1>4. o[start] = o[t]
  BY <1>1, <1>2, <1>3
<1>5. parse_value[n] = o
  BY ParseValueEquation DEF o
<1> QED
  BY <1>4, <1>5 DEF start

\* A written field is read as its name and what its value is read as; one with a '\0'
\* in its name is refused.
LEMMA FieldTextRead ==
    ASSUME NEW n \in Nat, NEW name \in Seq(Char), NEW t \in Text, NEW newline,
           NEW ascii \in BOOLEAN, NEW behind \in Text
    PROVE  LET read == parse_value[n][t \o behind] IN
           parse_field(parse_value[n], FieldText(name, t, newline, ascii) \o behind) =
              IF Nul \notin ToSet(name) /\ read.ok
              THEN Read([name |-> name, value |-> read.json], read.rest) ELSE Failure
<1> DEFINE quoted == Quoted(name, ascii)
           colon == <<":">>
           blank == IF newline = <<>> THEN <<>> ELSE <<" ">>
           text == FieldText(name, t, newline, ascii) \o behind
           rest == t \o behind
           after == blank \o rest
           from == colon \o after
           value == parse_value[n]
<1>1. ":" \in Piece /\ ":" \notin WhiteSpace /\ " " \in Piece /\ " " \in WhiteSpace
  <2>1. {":", " "} \subseteq Structure
    BY DEF Structure, WhiteSpace
  <2>2. ":" \notin WhiteSpace /\ " " \in WhiteSpace
    BY DEF WhiteSpace, NewLine, Crlf
  <2> QED
    BY <2>1, <2>2, PiecesAssumption
<1>2. quoted \in Text /\ colon \in Text /\ blank \in Text /\ blank \in Seq(WhiteSpace)
  <2>1. quoted \in Text
    BY QuotedForm, EmptyText
  <2>2. colon \in Text /\ <<" ">> \in Text /\ <<>> \in Text
    BY <1>1, OnePiece, EmptyText
  <2>3. blank \in Seq(WhiteSpace)
    <3>1. <<" ">> \in Seq(WhiteSpace) /\ <<>> \in Seq(WhiteSpace)
      <4> DEFINE x == " "
      <4>1. x \in WhiteSpace
        BY <1>1
      <4> HIDE DEF x
      <4>2. <<x>> \in Seq(WhiteSpace) /\ <<>> \in Seq(WhiteSpace)
        BY <4>1
      <4> QED
        BY <4>2 DEF x
    <3> QED
      BY <3>1
  <2> QED
    BY <2>1, <2>2, <2>3
<1>3. text = quoted \o from
  <2>1. text = (((quoted \o colon) \o blank) \o t) \o behind
    BY Zenon DEF FieldText
  <2> HIDE DEF quoted, colon, blank, text
  <2>2. Cat(Cat(Cat(Cat(quoted, colon), blank), t), behind)
           = Cat(quoted, Cat(colon, Cat(blank, Cat(t, behind))))
    BY <1>2, FiveTexts
  <2> QED
    BY <2>1, <2>2, Zenon DEF Cat
<1> HIDE DEF quoted, colon, blank
<1>4. rest \in Text
  BY TextJoined
<1> HIDE DEF rest
<1>5. after \in Text /\ value[after] = value[rest]
  BY <1>2, <1>4, TextJoined, BlankRead
<1> HIDE DEF after
<1>6. from \in Text /\ Begins(from, {":"}) /\ ~Begins(from, WhiteSpace) /\ Tail(from) = after
  BY <1>1, <1>5, OnePiece DEF colon
<1> HIDE DEF from, text
<1>7. get_quoted_string(text) = Read(name, from)
  BY <1>3, <1>6, QuotedRead, Zenon DEF quoted
<1>8. Skipped[from] = from
  BY <1>6, SkippedStays
<1>9. get_quoted_string(text).ok /\ get_quoted_string(text).json = name
      /\ get_quoted_string(text).rest = from
  BY <1>7 DEF Read
<1> DEFINE read == value[rest]
<1>10. value[Tail(Skipped[get_quoted_string(text).rest])] = read
  BY <1>5, <1>6, <1>8, <1>9
<1> HIDE DEF read, value
<1>11. parse_field(value, text) =
          IF Nul \notin ToSet(name) /\ read.ok
          THEN Read([name |-> name, value |-> read.json], read.rest) ELSE Failure
  BY <1>6, <1>8, <1>9, <1>10 DEF parse_field, Member
<1> QED
  BY <1>11, Zenon DEF text, value, read, rest

\* A written container begins with its opening bracket.
LEMMA BracketedBegins ==
    ASSUME NEW newline \in Seq(WhiteSpace), NEW level \in Nat, NEW parts \in Seq(Text),
           NEW open \in Piece, NEW close \in Piece
    PROVE  /\ Bracketed(open, parts, close, level, newline) # <<>>
           /\ Head(Bracketed(open, parts, close, level, newline)) = open
<1> DEFINE t == Bracketed(open, parts, close, level, newline)
<1>1. CASE parts = <<>>
  <2>1. t = <<open, close>>
    BY <1>1, BracketedForm
  <2> HIDE DEF t
  <2>2. t # <<>> /\ Head(t) = open
    BY <2>1
  <2> QED
    BY <2>2 DEF t
<1>2. CASE parts # <<>>
  <2> DEFINE e == Ending(PartLines(parts, level, newline), 1, level, newline, close, <<>>)
             ne == newline \o e
  <2>1. t \in Text
    BY BracketedForm
  <2>2. e \in Text
    <3>1. 1 \in 1..Len(parts) + 1
      BY <1>2
    <3> QED
      BY <3>1, EmptyText, EndingParts
  <2>3. Cat(t, <<>>) = Cat(<<open>>, Cat(newline, e))
    BY <1>2, EmptyText, BracketedText
  <2> HIDE DEF t, e
  <2>4. ne \in Text
    <3>1. newline \in Text
      BY BlankText
    <3> QED
      BY <2>2, <3>1, TextJoined
  <2>5. t = Cat(t, <<>>)
    BY <2>1, JoinedEmpty DEF Cat
  <2>6. t = <<open>> \o ne
    BY <2>3, <2>5, Zenon DEF Cat
  <2> HIDE DEF ne
  <2>7. <<open>> \o ne # <<>> /\ Head(<<open>> \o ne) = open
    BY <2>4, OnePiece
  <2> QED
    BY <2>6, <2>7 DEF t
<1> QED
  BY <1>1, <1>2

\* With what the text of a value begins.
Started(json, text) ==
    /\ text \in Text /\ text # <<>>
    /\ json.type = "array" => Head(text) = "["
    /\ json.type = "object" => Head(text) = "{"
    /\ json.type = "string" => Head(text) = Quote
    /\ json.type = "literal" => Head(text) \in Literals
    /\ json.type = "number" => Head(text) \in Lead

\* A value that is written begins with what tells its type, never with a blank or a
\* closing bracket.
LEMMA FirstPiece ==
    ASSUME NEW newline \in Seq(WhiteSpace), NEW ascii \in BOOLEAN, NEW json \in Value,
           NEW level \in Nat
    PROVE  Started(json, Serialized(newline, ascii)[json][level])
<1> DEFINE written == Serialized(newline, ascii)
           text == written[json][level]
<1>1. written \in [Value -> [Nat -> Text]] /\ written[json] = Layout(newline, ascii,
            written, json)
  BY SerializedValue
<1> HIDE DEF written
<1>2. text \in Text
  BY <1>1
<1>3. text = Layout(newline, ascii, written, json)[level]
  BY <1>1
<1>4. CASE json.type \in {"array", "object"}
  <2> DEFINE parts == Parts(newline, ascii, written, json, level)
             open == Open(json.type)
             close == Close(json.type)
  <2>1. parts \in Seq(Text)
    <3>1. \A i \in 1..Len(json.of) : InnerOf(json, i) \in Value
      BY <1>4, ValueForms
    <3>2. level + 1 \in Nat
      OBVIOUS
    <3>3. \A i \in 1..Len(json.of) : written[InnerOf(json, i)][level + 1] \in Text
      BY <1>1, <3>1, <3>2
    <3> QED
      BY <1>4, <3>3, PartsText
  <2>2. open \in Piece /\ close \in Piece
    BY ClosingPieces
  <2>3. text = Bracketed(open, parts, close, level, newline)
    BY <1>3, <1>4, LayoutForms
  <2> HIDE DEF parts, open, close, text
  <2>4. text # <<>> /\ Head(text) = open
    BY <2>1, <2>2, <2>3, BracketedBegins
  <2> QED
    BY <1>2, <1>4, <2>4 DEF Started, open, Open, text, written
<1>5. CASE json.type = "string"
  <2> DEFINE chars == json.of
             behind == Body(chars, ascii) \o (<<Quote>> \o <<>>)
  <2>1. chars \in Seq(Char) /\ text = Quoted(chars, ascii)
    <3>1. Layout(newline, ascii, written, json)[level] = Quoted(json.of, ascii)
      BY <1>5, LayoutForms
    <3>2. json.of \in Seq(Char)
      BY <1>5, ValueForms
    <3> HIDE DEF text
    <3> QED
      BY <1>3, <3>1, <3>2
  <2> HIDE DEF chars, text
  <2>2. text \o <<>> = <<Quote>> \o behind /\ text \in Text
    BY <2>1, EmptyText, QuotedForm
  <2>3. text \o <<>> = text
    BY <2>2, JoinedEmpty
  <2>4. behind \in Text
    <3>1. Body(chars, ascii) \in Text
      BY <2>1, BodyRead
    <3>2. <<Quote>> \o <<>> \in Text
      BY NamedPieces, EmptyText, OnePiece
    <3> DEFINE b == Body(chars, ascii)
               q == <<Quote>> \o <<>>
    <3> HIDE DEF b, q
    <3>3. b \o q \in Text
      BY <3>1, <3>2, TextJoined DEF b, q
    <3> QED
      BY <3>3 DEF b, q
  <2> HIDE DEF behind
  <2>5. <<Quote>> \o behind # <<>> /\ Head(<<Quote>> \o behind) = Quote
    BY <2>4, NamedPieces, OnePiece
  <2>6. text = <<Quote>> \o behind
    BY <2>2, <2>3, Zenon
  <2>7. text # <<>> /\ Head(text) = Quote
    BY <2>5, <2>6
  <2> QED
    BY <1>5, <2>2, <2>7 DEF Started, text, written
<1>6. CASE json.type = "literal"
  <2>1. PICK literal \in Literals : json.of = <<literal>>
    BY <1>6, ValueForms
  <2>2. text = <<literal>>
    BY <1>3, <1>6, <2>1, LayoutForms
  <2> HIDE DEF text
  <2>3. text # <<>> /\ Head(text) = literal
    BY <2>2
  <2> QED
    BY <1>2, <1>6, <2>3 DEF Started, text, written
<1>7. CASE json.type = "number"
  <2> DEFINE numeral == json.of
  <2>1. numeral \in Decimals
    BY <1>7, ValueForms
  <2>2. text = numeral
    BY <1>3, <1>7, LayoutForms
  <2> HIDE DEF text, numeral
  <2>3. text # <<>> /\ Head(text) \in Lead
    BY <2>1, <2>2, DecimalText
  <2> QED
    BY <1>2, <1>7, <2>3 DEF Started, text, written
<1> QED
  BY <1>4, <1>5, <1>6, <1>7, ValueForms

\* Nothing that a value begins with is a blank, a closing bracket or the mark of the
\* byte order.
LEMMA OpeningPieces ==
    ASSUME NEW type
    PROVE  /\ Openings \cap WhiteSpace = {} /\ Bom \notin Openings
           /\ Close(type) \notin Openings
<1>1. /\ Close(type) \in Structure /\ WhiteSpace \subseteq Structure
      /\ {"[", "{", Quote} \subseteq Structure
  BY DEF Structure, Close
<1>2. Close(type) \notin {"[", "{", Quote} /\ {"[", "{", Quote} \cap WhiteSpace = {}
  BY DEF Close, WhiteSpace, Quote, NewLine, Crlf
<1>3. /\ Literals \cap Structure = {} /\ Bom \notin Literals
      /\ Lead \cap Structure = {} /\ Bom \notin Lead /\ Bom \notin Structure
  BY PiecesAssumption, FiguresAssumption
<1> QED
  BY <1>1, <1>2, <1>3 DEF Openings

\* What the text of a value begins with opens it.
LEMMA StartedOpens ==
    ASSUME NEW json \in Value, NEW text, Started(json, text)
    PROVE  Head(text) \in Openings
<1>1. json.type \in {"literal", "number", "string", "array", "object"}
  BY ValueForms
<1> QED
  BY <1>1 DEF Started, Openings

\* A written field begins with a quote.
LEMMA FieldTextBegins ==
    ASSUME NEW name \in Seq(Char), NEW t \in Text, NEW newline, NEW ascii \in BOOLEAN
    PROVE  FieldText(name, t, newline, ascii) # <<>>
           /\ Head(FieldText(name, t, newline, ascii)) = Quote
<1> DEFINE quoted == Quoted(name, ascii)
           colon == <<":">>
           blank == IF newline = <<>> THEN <<>> ELSE <<" ">>
           text == FieldText(name, t, newline, ascii)
           behind == colon \o (blank \o t)
           rest == Body(name, ascii) \o (<<Quote>> \o behind)
<1>1. colon \in Text /\ blank \in Text
  <2>1. {":", " "} \subseteq Structure
    BY DEF Structure, WhiteSpace
  <2>2. ":" \in Piece /\ " " \in Piece
    BY <2>1, PiecesAssumption
  <2>3. <<":">> \in Text /\ <<" ">> \in Text
    BY <2>2, OnePiece, EmptyText
  <2> QED
    BY <2>3, EmptyText
<1>2. quoted \in Text
  BY QuotedForm, EmptyText
<1>3. text = Cat(Cat(Cat(quoted, colon), blank), t)
  BY Zenon DEF FieldText, Cat
<1> HIDE DEF quoted, colon, blank, text
<1>4. Cat(quoted, colon) \in Text /\ Cat(blank, t) \in Text
  BY <1>1, <1>2, CatAssociative
<1>5. Cat(Cat(Cat(quoted, colon), blank), t) = Cat(Cat(quoted, colon), Cat(blank, t))
  BY <1>1, <1>4, CatAssociative
<1>6. Cat(Cat(quoted, colon), Cat(blank, t)) = Cat(quoted, Cat(colon, Cat(blank, t)))
  BY <1>1, <1>2, <1>4, CatAssociative
<1>7. text = quoted \o behind
  BY <1>3, <1>5, <1>6, Zenon DEF Cat
<1>8. behind \in Text
  <2>1. Cat(colon, Cat(blank, t)) \in Text
    BY <1>1, <1>4, CatAssociative
  <2> QED
    BY <2>1, Zenon DEF Cat
<1> HIDE DEF behind
<1>9. quoted \o behind = <<Quote>> \o rest
  BY <1>8, QuotedForm DEF quoted
<1>10. rest \in Text
  <2> DEFINE body == Body(name, ascii)
             q == <<Quote>> \o behind
  <2>1. body \in Text /\ q \in Text
    BY <1>8, BodyRead, NamedPieces, OnePiece
  <2> HIDE DEF body, q
  <2>2. body \o q \in Text
    BY <2>1, TextJoined
  <2> QED
    BY <2>2 DEF body, q
<1> HIDE DEF rest
<1>11. <<Quote>> \o rest # <<>> /\ Head(<<Quote>> \o rest) = Quote
  BY <1>10, NamedPieces, OnePiece
<1>12. text = <<Quote>> \o rest
  BY <1>7, <1>9, Zenon
<1> QED
  BY <1>11, <1>12 DEF text

\* What stands between the brackets is read place by place, when it is one level deeper.
LEMMA PartsRead ==
    ASSUME NEW newline \in Seq(WhiteSpace), NEW ascii \in BOOLEAN, NEW n \in Nat,
           NEW level \in Nat, NEW json \in Value, json.type \in {"array", "object"},
           \A i \in 1..Len(json.of), behind \in Text :
              Stops(behind) =>
                 parse_value[n][Serialized(newline, ascii)[InnerOf(json,
                       i)][level + 1] \o behind]
                    = IF InnerOf(json, i) \in Left(n) THEN Read(InnerOf(json, i), behind)
                      ELSE Failure
    PROVE  ReadsParts(json.type, parse_value[n],
                 Parts(newline, ascii, Serialized(newline, ascii), json, level),
                 json.of, Fit(json, Left(n)))
<1> DEFINE written == Serialized(newline, ascii)
           value == parse_value[n]
           parts == Parts(newline, ascii, written, json, level)
           es == json.of
           good == Fit(json, Left(n))
           J == Left(n)
           text(i) == written[InnerOf(json, i)][level + 1]
<1>0. level + 1 \in Nat /\ \A i \in 1..Len(es) : InnerOf(json, i) \in Value
  BY ValueForms
<1>1. ASSUME NEW i \in 1..Len(es)
      PROVE  /\ text(i) \in Text /\ text(i) # <<>>
             /\ Head(text(i)) \in Openings
  <2> DEFINE inner == InnerOf(json, i)
             deeper == level + 1
  <2>1. inner \in Value /\ deeper \in Nat
    BY <1>0
  <2> HIDE DEF inner, deeper
  <2>2. /\ written[inner][deeper] \in Text /\ written[inner][deeper] # <<>>
        /\ Head(written[inner][deeper]) \in Openings
    <3> DEFINE t == written[inner][deeper]
    <3>1. Started(inner, t)
      BY <2>1, FirstPiece
    <3> HIDE DEF t
    <3>2. Head(t) \in Openings
      BY <2>1, <3>1, StartedOpens
    <3>3. t \in Text /\ t # <<>> /\ Head(t) \in Openings
      BY <3>1, <3>2 DEF Started
    <3> QED
      BY <3>3 DEF t
  <2> QED
    BY <2>2 DEF inner, deeper
<1>2. /\ \A i \in 1..Len(es) :
            /\ json.type = "array" => parts[i] = text(i)
            /\ json.type = "object" => parts[i] = FieldText(es[i].name, text(i), newline,
                     ascii)
  <2> HIDE DEF written
  <2>1. \A i \in 1..Len(json.of) : written[InnerOf(json, i)][level + 1] \in Text
    BY <1>1
  <2> QED
    BY <2>1, PartsText
<1>3. Openings \cap WhiteSpace = {} /\ Close(json.type) \notin Openings
           /\ Quote \in Openings
  BY OpeningPieces DEF Openings
<1>i. \A i \in 1..Len(es), behind \in Text :
         Stops(behind) =>
            value[text(i) \o behind]
               = IF InnerOf(json, i) \in J THEN Read(InnerOf(json, i), behind) ELSE Failure
  OBVIOUS
<1>g. \A i \in 1..Len(es) :
         i \in good <=> /\ InnerOf(json, i) \in J
                        /\ json.type = "object" => Nul \notin ToSet(es[i].name)
  BY DEF Fit
<1> HIDE DEF good, J, parts, text
<1>4. CASE json.type = "array"
  <2>1. ASSUME NEW i \in 1..Len(es)
        PROVE  /\ parts[i] # <<>> /\ Head(parts[i]) \notin WhiteSpace
               /\ Head(parts[i]) # Close(json.type)
    BY <1>1, <1>2, <1>3, <1>4
  <2>2. ASSUME NEW i \in 1..Len(es), NEW behind \in Text, Stops(behind)
        PROVE  Element(json.type, value, parts[i] \o behind)
                  = IF i \in good THEN Read(es[i], behind) ELSE Failure
    <3>1. parts[i] = text(i) /\ InnerOf(json, i) = es[i]
      BY <1>2, <1>4 DEF InnerOf
    <3>2. i \in good <=> es[i] \in J
      BY <1>4, <1>g, <3>1
    <3>3. value[text(i) \o behind] = IF es[i] \in J THEN Read(es[i], behind) ELSE Failure
      BY <1>i, <2>2, <3>1
    <3> DEFINE whole == parts[i] \o behind
    <3>4. value[whole] = IF i \in good THEN Read(es[i], behind) ELSE Failure
      <4>1. whole = text(i) \o behind
        BY <3>1, Zenon
      <4> HIDE DEF whole
      <4> QED
        BY <3>2, <3>3, <4>1
    <3> HIDE DEF whole, value, es
    <3>5. Element(json.type, value, whole) = value[whole]
      BY <1>4 DEF Element
    <3> QED
      BY <3>4, <3>5 DEF whole
  <2>3. ReadsParts(json.type, value, parts, es, good)
    <3> HIDE DEF value, es
    <3> QED
      BY <2>1, <2>2, Zenon DEF ReadsParts
  <2> QED
    BY <2>3, Zenon DEF parts, good, written, J
<1>5. CASE json.type = "object"
  <2>0. \A i \in 1..Len(es) : es[i].name \in Seq(Char)
    BY <1>5, ValueForms
  <2>1. ASSUME NEW i \in 1..Len(es)
        PROVE  /\ parts[i] # <<>> /\ Head(parts[i]) \notin WhiteSpace
               /\ Head(parts[i]) # Close(json.type)
    <3> DEFINE name == es[i].name
               t == text(i)
    <3>1. name \in Seq(Char) /\ t \in Text /\ parts[i] = FieldText(name, t, newline, ascii)
      BY <1>1, <1>2, <1>5, <2>0
    <3> HIDE DEF name, t
    <3>2. parts[i] # <<>> /\ Head(parts[i]) = Quote
      BY <3>1, FieldTextBegins
    <3> QED
      BY <3>2, <1>3
  <2>2. ASSUME NEW i \in 1..Len(es), NEW behind \in Text, Stops(behind)
        PROVE  Element(json.type, value, parts[i] \o behind)
                  = IF i \in good THEN Read(es[i], behind) ELSE Failure
    <3> DEFINE name == es[i].name
               v == es[i].value
               t == text(i)
               read == value[t \o behind]
               whole == parts[i] \o behind
    <3>1. name \in Seq(Char) /\ t \in Text /\ parts[i] = FieldText(name, t, newline, ascii)
      BY <1>1, <1>2, <1>5, <2>0
    <3>2. InnerOf(json, i) = v
      BY <1>5 DEF InnerOf
    <3>3. (i \in good <=> v \in J /\ Nul \notin ToSet(name))
          /\ read = IF v \in J THEN Read(v, behind) ELSE Failure
      BY <1>5, <1>g, <1>i, <2>2, <3>2
    <3>4. es[i] = [name |-> name, value |-> v]
      <4> DEFINE R == [name : Seq(Char), value : Value]
      <4>1. es \in Seq(R)
        BY <1>5, ValueIs
      <4> HIDE DEF R, es
      <4>2. es[i] \in R
        BY <4>1
      <4> QED
        BY <4>2 DEF R
    <3> HIDE DEF name, v, t, es
    <3>5. parse_field(value, FieldText(name, t, newline, ascii) \o behind)
             = IF Nul \notin ToSet(name) /\ read.ok
               THEN Read([name |-> name, value |-> read.json], read.rest) ELSE Failure
      <4> HIDE DEF read
      <4> QED
        BY <3>1, FieldTextRead, Zenon DEF read, value
    <3>6. whole = FieldText(name, t, newline, ascii) \o behind
      BY <3>1, Zenon
    <3> HIDE DEF read, whole, value
    <3>7. Element(json.type, value, whole)
             = IF Nul \notin ToSet(name) /\ read.ok
               THEN Read([name |-> name, value |-> read.json], read.rest) ELSE Failure
      <4>1. Element(json.type, value, whole) = parse_field(value, whole)
        BY <1>5 DEF Element
      <4> QED
        BY <3>5, <3>6, <4>1, Zenon
    <3>8. CASE v \in J
      <4>1. read.ok /\ read.json = v /\ read.rest = behind
        BY <3>3, <3>8 DEF Read
      <4> QED
        BY <3>3, <3>4, <3>7, <3>8, <4>1 DEF whole
    <3>9. CASE v \notin J
      <4>1. ~read.ok
        BY <3>3, <3>9 DEF Failure
      <4> QED
        BY <3>3, <3>7, <3>9, <4>1 DEF whole
    <3> QED
      BY <3>8, <3>9
  <2>3. ReadsParts(json.type, value, parts, es, good)
    <3> HIDE DEF value, es
    <3> QED
      BY <2>1, <2>2, Zenon DEF ReadsParts
  <2> QED
    BY <2>3, Zenon DEF parts, good, written, J
<1> QED
  BY <1>4, <1>5

\* A number is read back as it was written, unless more of a number follows.
LEMMA NumberWritten ==
    ASSUME NEW numeral \in Decimals, NEW more \in Text, ~Begins(more, Figure)
    PROVE  parse_number_value(numeral \o more)
              = Read([type |-> "number", of |-> numeral], more)
<1> DEFINE n == Len(numeral)
           json == [type |-> "number", of |-> numeral]
<1>1. /\ numeral \in Text /\ numeral # <<>> /\ Head(numeral) \in Lead
      /\ numeral \in Seq(Piece) /\ n \in Nat /\ n > 0
  BY DecimalText DEF Text
<1>2. numeral \in Numerals /\ numeral \notin Huge /\ is_decimal(numeral)
  BY DEF Decimals
<1>3. SubSeq(numeral, 1, n) = numeral /\ Behind(numeral, n) = <<>>
  BY <1>1 DEF Behind
<1>4. Taken(numeral) = n
  <2>1. n \in 0..Len(numeral) /\ \A k \in 1..Len(numeral) : k <= n
    BY <1>1
  <2> HIDE DEF n
  <2> QED
    BY <1>1, <1>2, <1>3, <2>1, TakenIs
<1>5. NumeralOf(numeral) = numeral /\ NumberOfText(numeral) = json
  BY <1>1, <1>3, <1>4 DEF NumeralOf, NumberOfText
<1>6. parse_number_value(numeral) = Read(json, <<>>)
  BY <1>1, <1>2, <1>3, <1>4, <1>5, NumberValueIs
<1> HIDE DEF json
<1>7. parse_number_value(numeral).ok /\ parse_number_value(numeral).rest = <<>>
  BY <1>6 DEF Read
<1>8. <<>> \o more = more
  BY JoinedEmpty
<1>9. Begins(numeral, Lead) /\ ~Begins(parse_number_value(numeral).rest \o more, Figure)
  BY <1>1, <1>7, <1>8 DEF Begins
<1>10. parse_number_value(numeral \o more) = Longer(Read(json, <<>>), more)
  BY <1>1, <1>6, <1>7, <1>9, NumberValueLonger
<1>11. Longer(Read(json, <<>>), more) = Read(json, <<>> \o more)
  BY LongerRead
<1> QED
  BY <1>8, <1>10, <1>11 DEF json

\* How a value is read back, one depth after the other, unless it is a number that goes
\* on in what follows.
Returns(newline, ascii, json) ==
    \A level \in Nat, n \in Nat, more \in Text :
       (json.type = "number" => ~Begins(more, Figure)) =>
          parse_value[n][Serialized(newline, ascii)[json][level] \o more]
             = IF json \in Left(n) THEN Read(json, more) ELSE Failure

\* A value is read back as it was written if the values inside it are.
LEMMA ValueReturns ==
    ASSUME NEW newline \in Seq(WhiteSpace), NEW ascii \in BOOLEAN, NEW json \in Value,
           \A inner \in Value : Depth[inner] < Depth[json] => Returns(newline, ascii, inner)
    PROVE  Returns(newline, ascii, json)
<1>1. SUFFICES ASSUME NEW level \in Nat, NEW n \in Nat, NEW more \in Text,
                      json.type = "number" => ~Begins(more, Figure)
               PROVE  parse_value[n][Serialized(newline, ascii)[json][level] \o more]
                         = IF json \in Left(n) THEN Read(json, more) ELSE Failure
  BY DEF Returns
<1> DEFINE written == Serialized(newline, ascii)
           text == written[json][level]
           start == text \o more
           inner == parse_value[n + 1]
           J == Left(n + 1)
<1>2. /\ text \in Text /\ text # <<>>
      /\ json.type = "array" => Head(text) = "["
      /\ json.type = "object" => Head(text) = "{"
      /\ json.type = "string" => Head(text) = Quote
      /\ json.type = "literal" => Head(text) \in Literals
      /\ json.type = "number" => Head(text) \in Lead
      /\ Head(text) \in Openings
  <2>1. Started(json, text)
    BY FirstPiece
  <2> HIDE DEF text
  <2> QED
    BY <2>1, StartedOpens DEF Started
<1>3. text = Layout(newline, ascii, written, json)[level]
  BY SerializedValue
<1>t. json.type \in {"literal", "number", "string", "array", "object"}
      /\ json = [type |-> json.type, of |-> json.of]
  BY ValueForms, ValueIs
<1>n. n + 1 \in Nat /\ level + 1 \in Nat
  OBVIOUS
<1>r. inner \in [Text -> Outcome(J)] /\ Advances(inner)
  BY <1>n, ParseValueRead
<1>v. parse_value[n] = Nested(n, inner)
  BY ParseValueEquation
<1> HIDE DEF text, written, inner, J
<1>4. start \in Text /\ \A S : Begins(start, S) <=> Head(text) \in S
  BY <1>2, TextJoined, BeginsJoined
<1> HIDE DEF start
<1>5. Skipped[start] = start
  <2>1. Head(text) \notin WhiteSpace
    BY <1>2, OpeningPieces
  <2> QED
    BY <1>4, <2>1, SkippedStays
<1> DEFINE o == Nested(n, inner)[start]
<1>6. /\ TooDeep(n) => o = Failure
      /\ ~TooDeep(n) =>
           /\ json.type = "object" => o = Container("object", inner, start)
           /\ json.type = "array" => o = Container("array", inner, start)
           /\ json.type = "string" => o = parse_string_value(start)
           /\ json.type = "literal" => o = parse_literal_value(start)
           /\ json.type = "number" => o = parse_number_value(start)
  <2> HIDE DEF o
  <2>1. /\ TooDeep(n) => o = Failure
        /\ ~TooDeep(n) =>
             /\ Begins(start, {"{"}) => o = Container("object", inner, start)
             /\ Begins(start, {"["}) => o = Container("array", inner, start)
             /\ Begins(start, {Quote}) => o = parse_string_value(start)
             /\ Begins(start, Literals) => o = parse_literal_value(start)
             /\ Begins(start, Lead) => o = parse_number_value(start)
    <3> DEFINE passed == Skipped[start]
    <3>1. /\ TooDeep(n) => o = Failure
          /\ ~TooDeep(n) =>
               /\ Begins(passed, {"{"}) => o = Container("object", inner, passed)
               /\ Begins(passed, {"["}) => o = Container("array", inner, passed)
               /\ Begins(passed, {Quote}) => o = parse_string_value(passed)
               /\ Begins(passed, Literals) => o = parse_literal_value(passed)
               /\ Begins(passed, Lead) => o = parse_number_value(passed)
      BY <1>4, NestedCases DEF o
    <3>2. passed = start
      BY <1>5
    <3> HIDE DEF passed
    <3> QED
      BY <3>1, <3>2
  <2> QED
    BY <1>2, <1>4, <2>1
<1> HIDE DEF o
<1>7. CASE TooDeep(n)
  <2>1. json \notin Left(n)
    BY <1>7, LeftMade
  <2> QED
    BY <1>6, <1>7, <1>v, <2>1, Zenon DEF o, start, text, written
<1>8. CASE ~TooDeep(n)
  <2>0. json \in Left(n) <=> json \in Made(TRUE, J)
    BY <1>8, LeftMade DEF J
  <2>s. SUFFICES o = IF json \in Made(TRUE, J) THEN Read(json, more) ELSE Failure
    BY <1>v, <2>0, Zenon DEF o, start, text, written
  <2>1. CASE json.type = "literal"
    <3>1. json \in Made(TRUE, J)
      BY <2>1, ValidForms
    <3>2. PICK literal \in Literals : json.of = <<literal>>
      BY <2>1, ValueForms
    <3>3. text = <<literal>>
      BY <1>3, <2>1, <3>2, LayoutForms
    <3>4. literal \in Piece
      BY PiecesAssumption
    <3>5. Head(start) = literal /\ Tail(start) = more
      <4>1. start = <<literal>> \o more
        BY <3>3, Zenon DEF start
      <4>2. Head(<<literal>> \o more) = literal /\ Tail(<<literal>> \o more) = more
        BY <3>4, OnePiece
      <4> QED
        BY <4>1, <4>2, Zenon
    <3>6. o = Read([type |-> "literal", of |-> <<literal>>], more)
      BY <1>6, <1>8, <2>1, <3>5 DEF parse_literal_value
    <3>7. json = [type |-> "literal", of |-> <<literal>>]
      BY <1>t, <2>1, <3>2
    <3> QED
      BY <3>1, <3>6, <3>7
  <2>4. CASE json.type = "number"
    <3> DEFINE numeral == json.of
    <3>1. json \in Made(TRUE, J)
      BY <2>4, ValidForms
    <3>2. numeral \in Decimals /\ ~Begins(more, Figure)
      BY <1>1, <2>4, ValueForms
    <3>3. text = numeral
      BY <1>3, <2>4, LayoutForms
    <3>4. json = [type |-> "number", of |-> numeral]
      BY <1>t, <2>4
    <3> HIDE DEF numeral
    <3>5. parse_number_value(numeral \o more)
             = Read([type |-> "number", of |-> numeral], more)
      BY <3>2, NumberWritten
    <3>6. start = numeral \o more
      BY <3>3, Zenon DEF start
    <3>7. o = parse_number_value(start)
      BY <1>6, <1>8, <2>4
    <3>8. o = Read(json, more)
      BY <3>4, <3>5, <3>6, <3>7, Zenon
    <3> QED
      BY <3>1, <3>8
  <2>2. CASE json.type = "string"
    <3> DEFINE chars == json.of
    <3>1. json \in Made(TRUE, J)
      BY <2>2, ValidForms
    <3>2. chars \in Seq(Char)
      BY <2>2, ValueForms
    <3>3. text = Quoted(chars, ascii)
      <4>1. Layout(newline, ascii, written, json)[level] = Quoted(json.of, ascii)
        BY <2>2, LayoutForms
      <4> QED
        BY <1>3, <4>1
    <3>4. json = [type |-> "string", of |-> chars]
      BY <1>t, <2>2
    <3> HIDE DEF chars
    <3>5. get_quoted_string(start) = Read(chars, more)
      BY <3>2, <3>3, QuotedRead, Zenon DEF start
    <3> DEFINE read == get_quoted_string(start)
    <3>6. read.ok /\ read.json = chars /\ read.rest = more
      BY <3>5 DEF Read
    <3>7. parse_string_value(start) = Read([type |-> "string", of |-> chars], more)
      BY <3>6 DEF parse_string_value
    <3>8. o = Read(json, more)
      BY <1>6, <1>8, <2>2, <3>4, <3>7
    <3> QED
      BY <3>1, <3>8
  <2>3. CASE json.type \in {"array", "object"}
    <3> DEFINE es == json.of
               parts == Parts(newline, ascii, written, json, level)
               good == Fit(json, J)
               type == json.type
    <3>1. ASSUME NEW i \in 1..Len(json.of), NEW behind \in Text, Stops(behind)
          PROVE  parse_value[n + 1][written[InnerOf(json, i)][level + 1] \o behind]
                    = IF InnerOf(json, i) \in Left(n + 1)
                      THEN Read(InnerOf(json, i), behind) ELSE Failure
      <4> DEFINE v == InnerOf(json, i)
                 m == n + 1
                 deeper == level + 1
      <4>1. v \in Value /\ Depth[v] < Depth[json]
        BY <2>3, ValueForms
      <4>2. m \in Nat /\ deeper \in Nat
        BY <1>n
      <4>3. Returns(newline, ascii, v)
        BY <4>1
      <4> HIDE DEF v, m, deeper
      <4>4. parse_value[m][Serialized(newline, ascii)[v][deeper] \o behind]
               = IF v \in Left(m) THEN Read(v, behind) ELSE Failure
        BY <3>1, <4>2, <4>3, Zenon DEF Returns, Stops
      <4> QED
        BY <4>4, Zenon DEF v, m, deeper, written
    <3>2. ReadsParts(type, inner, parts, es, good)
      <4> DEFINE m == n + 1
      <4>1. \A i \in 1..Len(json.of), behind \in Text :
               Stops(behind) =>
                  parse_value[m][Serialized(newline, ascii)[InnerOf(json,
                        i)][level + 1] \o behind]
                     = IF InnerOf(json, i) \in Left(m)
                       THEN Read(InnerOf(json, i), behind) ELSE Failure
        BY <3>1, Zenon DEF written
      <4>2. m \in Nat
        BY <1>n
      <4> HIDE DEF m
      <4>3. ReadsParts(json.type, parse_value[m],
                  Parts(newline, ascii, Serialized(newline, ascii), json, level),
                  json.of, Fit(json, Left(m)))
        BY <2>3, <4>1, <4>2, PartsRead
      <4> QED
        BY <4>3, Zenon DEF m, inner, written, J
    <3>3. parts \in Seq(Text) /\ Len(parts) = Len(es)
      <4>1. written \in [Value -> [Nat -> Text]]
        BY SerializedValue DEF written
      <4>2. \A i \in 1..Len(json.of) : InnerOf(json, i) \in Value
        BY <2>3, ValueForms
      <4>3. \A i \in 1..Len(json.of) : written[InnerOf(json, i)][level + 1] \in Text
        BY <1>n, <4>1, <4>2
      <4> DEFINE whole == Parts(newline, ascii, written, json, level)
      <4>4. whole \in Seq(Text) /\ Len(whole) = Len(json.of)
        <5> HIDE DEF written
        <5> QED
          BY <1>n, <2>3, <4>3, PartsText
      <4> QED
        BY <4>4, Zenon
    <3>4. text = Bracketed(Open(type), parts, Close(type), level, newline)
      BY <1>3, <2>3, LayoutForms
    <3>5. \E E : es \in Seq(E)
      BY <2>3, ValueIs
    <3>6. PICK E : es \in Seq(E)
      BY <3>5
    <3>7. json \in Made(TRUE, J) <=>
             1..Len(es) \subseteq good /\ (type = "object" => Distinct(es))
      BY <2>3, ValidForms
    <3>8. json = [type |-> type, of |-> es]
      BY <1>t
    <3>9. o = Container(type, inner, start)
      BY <1>6, <1>8, <2>3
    <3> HIDE DEF es, parts, good, type
    <3>10. Container(type, inner, Bracketed(Open(type), parts, Close(type), level,
                 newline) \o more)
              = IF 1..Len(es) \subseteq good /\ (type = "object" => Distinct(es))
                THEN Read([type |-> type, of |-> es], more) ELSE Failure
      BY <1>r, <3>2, <3>3, <3>6, BracketedRead
    <3>11. start = Bracketed(Open(type), parts, Close(type), level, newline) \o more
      BY <3>4, Zenon DEF start
    <3>12. o = IF 1..Len(es) \subseteq good /\ (type = "object" => Distinct(es))
               THEN Read([type |-> type, of |-> es], more) ELSE Failure
      BY <3>9, <3>10, <3>11, Zenon
    <3> QED
      BY <3>7, <3>8, <3>12
  <2> QED
    BY <1>t, <2>1, <2>2, <2>3, <2>4
<1> QED
  BY <1>7, <1>8

\* What was written is read back as the value that it was when it is valid and nests no
\* deeper than is left; else it is refused.
THEOREM ValueRead ==
    ASSUME NEW newline \in Seq(WhiteSpace), NEW ascii \in BOOLEAN
    PROVE  \A json \in Value : Returns(newline, ascii, json)
<1> DEFINE T == {json \in Value : Returns(newline, ascii, json)}
<1>1. Depth \in [Value -> Nat]
  BY DepthValue DEF Depth
<1>2. \A json \in Value : (\A inner \in Value : Depth[inner] < Depth[json]
            => inner \in T) => json \in T
  BY ValueReturns
<1> HIDE DEF T
<1>3. Value \subseteq T
  BY <1>1, <1>2, RankInduction
<1> QED
  BY <1>3 DEF T

\* json_parse_string does nothing but read, where no mark of the byte order is first.
LEMMA ReadAsItIs ==
    ASSUME NEW text, ~Begins(text, {Bom})
    PROVE  json_parse_string(text) = parse_value[0][text]
BY DEF json_parse_string

\* What is written is a text, and json_parse_string reads it back as what it was when it
\* is valid and within MAX_NESTING, and else refuses it; so it does with a mark of the
\* byte order before it, and whatever follows, but that a number may go on there.
THEOREM WrittenIsRead ==
    ASSUME NEW newline \in Seq(WhiteSpace), NEW ascii \in BOOLEAN, NEW json \in Value
    PROVE  /\ TextOf(json, newline, ascii) \in Text
           /\ \A more \in Text :
                 (json.type = "number" => ~Begins(more, Figure)) =>
                    json_parse_string(TextOf(json, newline, ascii) \o more)
                       = IF WellFormed(json) THEN Read(json, more) ELSE Failure
           /\ json_parse_string(TextOf(json, newline, ascii))
                 = IF WellFormed(json) THEN Read(json, <<>>) ELSE Failure
           /\ json_parse_string(<<Bom>> \o TextOf(json, newline, ascii))
                 = IF WellFormed(json) THEN Read(json, <<>>) ELSE Failure
<1> DEFINE text == TextOf(json, newline, ascii)
<1>1. MaxNesting \in Nat /\ 0 \in Nat /\ ~(0 > MaxNesting) /\ MaxNesting - 0 = MaxNesting
  BY NestingAssumption
<1>2. json \in Left(0) <=> WellFormed(json)
  BY <1>1 DEF Left, WellFormed
<1>3. text \in Text /\ text # <<>> /\ Head(text) # Bom
  <2>1. Started(json, text)
    BY <1>1, FirstPiece DEF TextOf
  <2> HIDE DEF text
  <2>2. Head(text) \in Openings
    BY <2>1, StartedOpens
  <2> QED
    BY <2>1, <2>2, OpeningPieces DEF Started
<1>4. Returns(newline, ascii, json)
  BY ValueRead
<1>5. ASSUME NEW more \in Text, json.type = "number" => ~Begins(more, Figure)
      PROVE  json_parse_string(text \o more)
                = IF WellFormed(json) THEN Read(json, more) ELSE Failure
  <2>1. parse_value[0][text \o more] = IF WellFormed(json) THEN Read(json, more) ELSE Failure
    BY <1>1, <1>2, <1>4, <1>5, Zenon DEF Returns, TextOf
  <2> HIDE DEF text
  <2>2. ~Begins(text \o more, {Bom})
    BY <1>3, BeginsJoined
  <2> DEFINE whole == text \o more
  <2> HIDE DEF whole
  <2>3. json_parse_string(whole) = parse_value[0][whole]
    BY <2>2, ReadAsItIs DEF whole
  <2> QED
    BY <2>1, <2>3 DEF whole
<1> HIDE DEF text
<1>6. json_parse_string(text) = IF WellFormed(json) THEN Read(json, <<>>) ELSE Failure
  <2>1. text \o <<>> = text /\ ~Begins(<<>>, Figure)
    BY <1>3, JoinedEmpty DEF Begins
  <2>2. json_parse_string(text \o <<>>)
           = IF WellFormed(json) THEN Read(json, <<>>) ELSE Failure
    BY <1>5, <2>1, EmptyText
  <2> QED
    BY <2>1, <2>2
<1>7. json_parse_string(<<Bom>> \o text) = json_parse_string(text)
  <2> DEFINE mark == Bom
             whole == <<mark>> \o text
  <2>1. mark \in Piece
    BY PiecesAssumption
  <2> HIDE DEF mark
  <2>2. Tail(whole) = text /\ Begins(whole, {mark})
    BY <1>3, <2>1, OnePiece
  <2> HIDE DEF whole
  <2>3. json_parse_string(whole) = parse_value[0][text]
    BY <2>2 DEF json_parse_string, mark
  <2>4. json_parse_string(text) = parse_value[0][text]
    BY <1>3, ReadAsItIs DEF Begins
  <2> QED
    BY <2>3, <2>4 DEF whole, mark
<1> QED
  BY <1>3, <1>5, <1>6, <1>7 DEF text

\* Nothing is read where there is nothing.
LEMMA EmptyRefused == ~parse_value[0][<<>>].ok
<1>1. <<>> \in Text /\ Skipped[<<>>] = <<>> /\ ~Begins(<<>>, Openings)
  BY EmptyText, SkippedStays DEF Begins
<1>2. parse_value[0] = Nested(0, parse_value[0 + 1])
  BY ParseValueEquation
<1> DEFINE inner == parse_value[0 + 1]
           o == Nested(0, inner)[<<>>]
           passed == Skipped[<<>>]
<1> HIDE DEF inner
<1>3. /\ TooDeep(0) => o = Failure
      /\ ~TooDeep(0) => (~Begins(passed, Openings) => o = Failure)
  BY <1>1, NestedCases
<1>4. o = Failure
  BY <1>1, <1>3
<1> QED
  BY <1>2, <1>4, OutcomeForms DEF inner

\* What is read stays the same, and is read, when more text follows, unless that makes
\* another number of it.
THEOREM ReadWithMore ==
    ASSUME NEW text \in Text, NEW more \in Text, json_parse_string(text).ok,
           json_parse_string(text).json.type = "number" =>
              ~Begins(json_parse_string(text).rest \o more, Figure)
    PROVE  json_parse_string(text \o more)
              = Read(json_parse_string(text).json, json_parse_string(text).rest \o more)
<1> DEFINE value == parse_value[0]
<1>1. ExtendsValues(value)
  BY ParseValueLonger
<1>e. ~value[<<>>].ok /\ ~Begins(<<>>, {Bom}) /\ Tail(<<>>) = <<>>
  BY EmptyRefused DEF Begins
<1> HIDE DEF value
<1>2. text # <<>>
  <2>1. json_parse_string(<<>>) = value[<<>>]
    BY <1>e, ReadAsItIs DEF value
  <2> QED
    BY <1>e, <2>1
<1>3. CASE ~Begins(text, {Bom})
  <2>1. json_parse_string(text) = value[text]
    BY <1>3, ReadAsItIs DEF value
  <2>2. ~Begins(text \o more, {Bom})
    BY <1>2, <1>3, BeginsJoined DEF Begins
  <2> DEFINE whole == text \o more
  <2> HIDE DEF whole
  <2>3. json_parse_string(whole) = value[whole]
    BY <2>2, ReadAsItIs DEF value, whole
  <2>4. value[text \o more] = Longer(value[text], more)
    BY <1>1, <2>1 DEF ExtendsValues
  <2> QED
    BY <2>1, <2>3, <2>4 DEF Longer, whole
<1>4. CASE Begins(text, {Bom})
  <2> DEFINE tail == Tail(text)
  <2>0. tail \in Text
    BY <1>2 DEF Text
  <2> HIDE DEF tail
  <2>1. Tail(text \o more) = tail \o more /\ Begins(text \o more, {Bom})
    BY <1>2, <1>4, LongerText DEF tail
  <2>2. json_parse_string(text) = value[tail]
    BY <1>4 DEF json_parse_string, value, tail
  <2> DEFINE whole == text \o more
  <2> HIDE DEF whole
  <2>3. json_parse_string(whole) = value[Tail(whole)]
    BY <2>1 DEF json_parse_string, value, whole
  <2>4. value[tail \o more] = Longer(value[tail], more)
    BY <1>1, <2>0, <2>2 DEF ExtendsValues
  <2> QED
    BY <2>1, <2>2, <2>3, <2>4 DEF Longer, whole
<1> QED
  BY <1>3, <1>4

\* A number is read only where a character of a number is first.
LEMMA NumberBegins ==
    ASSUME NEW text \in Text, parse_value[0][text].ok,
           parse_value[0][text].json.type = "number"
    PROVE  Begins(Skipped[text], Lead)
<1> DEFINE inner == parse_value[0 + 1]
           o == Nested(0, inner)[text]
           passed == Skipped[text]
<1>1. o.ok /\ o.json.type = "number"
  BY ParseValueEquation
<1>2. /\ o # Failure
      /\ Begins(passed, Openings)
      /\ Begins(passed, {"{"}) => o = Container("object", inner, passed)
      /\ Begins(passed, {"["}) => o = Container("array", inner, passed)
      /\ Begins(passed, {Quote}) => o = parse_string_value(passed)
      /\ Begins(passed, Literals) => o = parse_literal_value(passed)
  BY <1>1, NestedCases, OutcomeForms
<1> HIDE DEF o, passed, inner
<1>3. ASSUME NEW type \in {"array", "object"}, o = Container(type, inner, passed)
      PROVE  o.json.type = type
  BY <1>2, <1>3 DEF Container, Read
<1>4. ASSUME o = parse_string_value(passed)
      PROVE  o.json.type = "string"
  <2> DEFINE q == get_quoted_string(passed)
             string == [type |-> "string", of |-> q.json]
  <2>1. o = Read(string, q.rest)
    BY <1>2, <1>4 DEF parse_string_value
  <2> HIDE DEF q
  <2>2. o.json = string
    BY <2>1 DEF Read
  <2> QED
    BY <2>2
<1>5. o = parse_literal_value(passed) => o.json.type = "literal"
  BY DEF parse_literal_value, Read
<1>6. ~Begins(passed, {"{"}) /\ ~Begins(passed, {"["})
  BY <1>1, <1>2, <1>3
<1>7. ~Begins(passed, {Quote}) /\ ~Begins(passed, Literals)
  BY <1>1, <1>2, <1>4, <1>5
<1> QED
  BY <1>2, <1>6, <1>7 DEF Openings, Begins, passed

\* A text that is cut ends before the rest of it.
LEMMA CutInTwo ==
    ASSUME NEW text \in Text, NEW n \in 0..(Len(text) - 1)
    PROVE  LET part == SubSeq(text, 1, n)
               gone == SubSeq(text, n + 1, Len(text))
           IN  /\ part \in Text /\ gone \in Text /\ gone # <<>> /\ text = part \o gone
               /\ part # <<>> => Head(part) = Head(text)
<1> DEFINE part == SubSeq(text, 1, n)
           gone == SubSeq(text, n + 1, Len(text))
<1>2. part \in Text /\ gone \in Text /\ gone # <<>> /\ text = part \o gone
  <2>1. Len(text) \in Nat /\ text \in Seq(Piece)
    BY DEF Text
  <2>2. PICK m \in Nat : m = Len(text)
    BY <2>1
  <2>3. part \in Seq(Piece) /\ Len(part) = n /\ \A i \in 1..n : part[i] = text[i]
    BY <2>1
  <2>4. /\ gone \in Seq(Piece) /\ Len(gone) = m - n
        /\ \A i \in 1..(m - n) : gone[i] = text[i + n]
    BY <2>1, <2>2
  <2> HIDE DEF part, gone
  <2>5. gone # <<>>
    BY <2>2, <2>4
  <2> DEFINE whole == part \o gone
  <2>6. /\ whole \in Seq(Piece) /\ Len(whole) = m
        /\ \A i \in 1..m : whole[i] = IF i <= n THEN part[i] ELSE gone[i - n]
    BY <2>2, <2>3, <2>4, ConcatProperties
  <2> HIDE DEF whole
  <2>7. \A i \in 1..m : whole[i] = text[i]
    BY <2>2, <2>3, <2>4, <2>6
  <2>8. text = whole
    BY <2>1, <2>2, <2>6, <2>7, SeqEqual
  <2> QED
    BY <2>3, <2>4, <2>5, <2>8 DEF whole, Text
<1>3. part # <<>> => Head(part) = Head(text)
  <2>1. text \in Seq(Piece)
    BY DEF Text
  <2> QED
    BY <2>1
<1> QED
  BY <1>2, <1>3

\* No text that ends before what was written does is read as anything, unless that is a
\* number alone.
THEOREM CutIsRefused ==
    ASSUME NEW newline \in Seq(WhiteSpace), NEW ascii \in BOOLEAN, NEW json \in Value,
           json.type # "number",
           NEW n \in 0..(Len(TextOf(json, newline, ascii)) - 1)
    PROVE  ~json_parse_string(SubSeq(TextOf(json, newline, ascii), 1, n)).ok
<1> DEFINE text == TextOf(json, newline, ascii)
           part == SubSeq(text, 1, n)
           gone == SubSeq(text, n + 1, Len(text))
           read == json_parse_string(part)
           left == read.rest \o gone
<1>1. /\ text \in Text
      /\ json_parse_string(text) = IF WellFormed(json) THEN Read(json, <<>>) ELSE Failure
  BY WrittenIsRead
<1>0. Head(text) \notin Lead /\ Head(text) \notin WhiteSpace /\ Head(text) # Bom
  <2>1. 0 \in Nat /\ json.type \in {"literal", "string", "array", "object"}
    BY ValueForms
  <2>2. Started(json, text)
    BY <2>1, FirstPiece DEF TextOf
  <2> HIDE DEF text
  <2>3. Head(text) \in {"{", "[", Quote} \cup Literals
    BY <2>1, <2>2 DEF Started
  <2>4. {"{", "[", Quote} \subseteq Structure /\ Literals \cap Lead = {}
            /\ Structure \cap Lead = {}
    BY PiecesAssumption, FiguresAssumption DEF Structure
  <2> QED
    BY <2>2, <2>3, <2>4, StartedOpens, OpeningPieces
<1>n. n \in 0..(Len(text) - 1)
  OBVIOUS
<1> HIDE DEF text
<1>2. /\ part \in Text /\ gone \in Text /\ gone # <<>> /\ text = part \o gone
      /\ part # <<>> => Head(part) = Head(text)
  BY <1>1, <1>n, CutInTwo
<1> HIDE DEF part, gone
<1> SUFFICES ASSUME read.ok PROVE FALSE
  BY DEF part, text, read
<1>r. read = parse_value[0][part]
  <2>1. ~Begins(part, {Bom})
    BY <1>0, <1>2 DEF Begins
  <2> QED
    BY <2>1, ReadAsItIs
<1>t. read.json.type # "number"
  <2>1. SUFFICES ASSUME read.json.type = "number" PROVE FALSE
    OBVIOUS
  <2>2. ~Begins(part, WhiteSpace) /\ ~Begins(part, Lead)
    BY <1>0, <1>2 DEF Begins
  <2>3. Skipped[part] = part
    BY <1>2, <2>2, SkippedStays
  <2> HIDE DEF read
  <2>4. parse_value[0][part].ok /\ parse_value[0][part].json.type = "number"
    BY <1>r, <2>1
  <2>5. Begins(Skipped[part], Lead)
    BY <1>2, <2>4, NumberBegins
  <2> QED
    BY <2>2, <2>3, <2>5
<1>3. json_parse_string(part \o gone) = Read(read.json, left)
  BY <1>2, <1>t, ReadWithMore
<1>4. Read(read.json, left) = IF WellFormed(json) THEN Read(json, <<>>) ELSE Failure
  BY <1>1, <1>2, <1>3, Zenon
<1>5. read.rest \in Text
  <2>1. read \in Outcome(Json(TRUE)[MaxNesting])
    BY <1>2, ReadIsWellFormed
  <2> HIDE DEF read
  <2> QED
    BY <2>1, OutcomeParts
<1> DEFINE rest == read.rest
<1> HIDE DEF read
<1>6. rest \o gone # <<>>
  <2> HIDE DEF rest
  <2> QED
    BY <1>2, <1>5 DEF Text, rest
<1>7. left # <<>>
  BY <1>6, Zenon
<1> HIDE DEF left, rest
<1>8. Read(read.json, left).ok /\ Read(read.json, left).rest = left
  BY DEF Read
<1>9. ~Failure.ok /\ Read(json, <<>>).rest = <<>>
  BY DEF Failure, Read
<1> QED
  BY <1>4, <1>7, <1>8, <1>9
=============================================================================
