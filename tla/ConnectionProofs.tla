--------------------------- MODULE ConnectionProofs ---------------------------
(***************************************************************************)
(* Proofs about Connection, for every request, every set of replies, and   *)
(* every size of the array that is read into.                              *)
(***************************************************************************)
EXTENDS Connection, NaturalsInduction, SequenceTheorems, WellFoundedInduction, TLAPS

\* The count of bytes sent is the number of bytes taken, until a write has
\* failed; the client turns to reading when it has reached the whole.
Counted ==
    /\ pc = "connect" => link = "none" /\ upstream = <<>>
    /\ link = "broken" => pc \in {"send", "dead"}
    /\ link # "broken" => sent = Len(upstream)
    /\ pc = "send" => sent < Total
    /\ pc \in {"header", "body", "returned"} => sent = Total

\* The buffer is what has arrived, and a frame is known only of a reply.
Taken ==
    /\ buffer = SubSeq(Wire(reply), 1, arrived)
    /\ pc \in {"body", "returned"} => reply # NoReply

IInv == TypeOK /\ Counted /\ RequestIntact /\ Taken /\ CompleteReply

-----------------------------------------------------------------------------
(* Numbers.                                                                *)

\* A set of natural numbers has a least one.
LEMMA LeastNatural ==
    ASSUME NEW T \in SUBSET Nat, T # {}
    PROVE  \E m \in T : \A k \in T : m <= k
<1> DEFINE R == OpToRel(<, Nat)
<1>1. IsWellFoundedOn(R, Nat)
  BY NatLessThanWellFounded DEF OpToRel
<1>2. \A x, y \in Nat : <<x, y>> \in R <=> x < y
  BY DEF OpToRel
<1> HIDE DEF R
<1>3. PICK m \in T : \A k \in T : ~(<<k, m>> \in R)
  BY <1>1, WFMin
<1>4. ASSUME NEW k \in T
      PROVE  m <= k
  <2>1. m \in Nat /\ k \in Nat /\ ~(k < m)
    BY <1>2, <1>3
  <2> QED
    BY <2>1
<1> QED
  BY <1>4

\* A bounded set of natural numbers has a greatest one.
LEMMA GreatestNatural ==
    ASSUME NEW n \in Nat, NEW T \in SUBSET (0..n), T # {}
    PROVE  \E m \in T : \A k \in T : k <= m
<1> DEFINE rest == {n - k : k \in T}
<1>1. rest \in SUBSET Nat /\ rest # {}
  <2>1. \A k \in T : k \in 0..n /\ n - k \in Nat
    OBVIOUS
  <2> QED
    BY <2>1
<1>2. PICK m \in rest : \A k \in rest : m <= k
  BY <1>1, LeastNatural
<1>3. PICK k \in T : m = n - k
  BY <1>2
<1>4. ASSUME NEW l \in T PROVE l <= k
  <2>1. n - l \in rest
    OBVIOUS
  <2> QED
    BY <1>2, <1>3, <2>1
<1> QED
  BY <1>4

\* What Upto defines is there, for however many digits.
LEMMA UptoDefined ==
    ASSUME NEW digits, digits \in Seq(Digits)
    PROVE  Upto(digits) \in [0..Len(digits) -> Nat]
<1> DEFINE Step(f, n) == IF n = 0 THEN 0 ELSE 10 * f[n - 1] + ValueOf[digits[n]]
           Steps(m, f) == \A n \in 0..m : f[n] = Step(f, n)
           undone == {m \in 0..Len(digits) : ~\E f \in [0..m -> Nat] : Steps(m, f)}
<1>1. Len(digits) \in Nat /\ \A n \in 1..Len(digits) : ValueOf[digits[n]] \in Nat
  <2>1. \A d \in Digits : ValueOf[d] \in Nat
    BY DEF ValueOf, Digits
  <2> QED
    BY <2>1, ElementOfSeq, LenProperties
<1>2. undone = {}
  <2> SUFFICES ASSUME undone # {} PROVE FALSE
    OBVIOUS
  <2>1. undone \in SUBSET Nat
    BY <1>1
  <2>2. PICK m \in undone : \A k \in undone : m <= k
    BY <2>1, LeastNatural
  <2>3. m \in 0..Len(digits) /\ ~\E f \in [0..m -> Nat] : Steps(m, f)
    BY <2>2
  <2>4. CASE m = 0
    <3>1. [n \in 0..m |-> 0] \in [0..m -> Nat] /\ Steps(m, [n \in 0..m |-> 0])
      BY <2>4
    <3> QED
      BY <2>3, <3>1
  <2>5. CASE m # 0
    <3>1. m - 1 \in 0..Len(digits) /\ m \in 1..Len(digits) /\ ~(m <= m - 1)
      BY <1>1, <2>3, <2>5
    <3>2. m - 1 \notin undone
      BY <2>2, <3>1
    <3>3. PICK f \in [0..(m - 1) -> Nat] : Steps(m - 1, f)
      BY <3>1, <3>2
    <3> DEFINE g == [n \in 0..m |-> IF n = m THEN 10 * f[m - 1] + ValueOf[digits[m]] ELSE f[n]]
    <3>4. g \in [0..m -> Nat]
      BY <1>1, <3>1, <3>3
    <3>5. ASSUME NEW n \in 0..m PROVE g[n] = Step(g, n)
      BY <3>1, <3>3
    <3> QED
      BY <2>3, <3>4, <3>5
  <2> QED
    BY <2>4, <2>5
<1>3. PICK f \in [0..Len(digits) -> Nat] : Steps(Len(digits), f)
  <2>1. Len(digits) \in 0..Len(digits)
    BY <1>1
  <2> QED
    BY <1>2, <2>1
<1>4. f = [n \in 0..Len(digits) |-> Step(f, n)]
  BY <1>3
<1> DEFINE v == Upto(digits)
<1>5. v = [n \in 0..Len(digits) |-> Step(v, n)]
  BY <1>4 DEF Upto
<1> HIDE DEF v
<1> DEFINE odd == {n \in 0..Len(digits) : v[n] \notin Nat}
<1>6. odd = {}
  <2> SUFFICES ASSUME odd # {} PROVE FALSE
    OBVIOUS
  <2>1. odd \in SUBSET Nat
    BY <1>1
  <2>2. PICK n \in odd : \A k \in odd : n <= k
    BY <2>1, LeastNatural
  <2>3. n \in 0..Len(digits) /\ v[n] \notin Nat /\ v[n] = Step(v, n)
    BY <1>5, <2>2
  <2>4. n # 0
    BY <2>3
  <2>5. n - 1 \in 0..Len(digits) /\ n \in 1..Len(digits) /\ ~(n <= n - 1)
    BY <1>1, <2>3, <2>4
  <2>6. v[n - 1] \in Nat
    BY <2>2, <2>5
  <2> QED
    BY <1>1, <2>3, <2>4, <2>5, <2>6
<1>7. \A n \in 0..Len(digits) : v[n] \in Nat
  BY <1>6
<1> QED
  BY <1>5, <1>7 DEF v

\* Digits stand for a natural number.
LEMMA NumberIsNat ==
    ASSUME NEW digits, digits \in Seq(Digits)
    PROVE  Number(digits) \in Nat
<1>1. Len(digits) \in 0..Len(digits)
  BY LenProperties
<1> QED
  BY <1>1, UptoDefined DEF Number

\* One digit more makes a natural number too.
LEMMA AppendedNumber ==
    ASSUME NEW digits, digits \in Seq(Digits), NEW stray \in Digits
    PROVE  Number(Append(digits, stray)) \in Nat
<1>1. Append(digits, stray) \in Seq(Digits)
  BY AppendProperties
<1> QED
  BY <1>1, NumberIsNat

-----------------------------------------------------------------------------
(* What receive_from_server finds in its buffer.                           *)

\* A match before which there is none is the one found.
LEMMA FirstIsFound ==
    ASSUME NEW data, data \in Seq(Pieces), NEW pattern, NEW i \in 0..Len(data),
           MatchAt(data, pattern, i), \A k \in 0..i - 1 : ~MatchAt(data, pattern, k)
    PROVE  buffer_find(data, pattern) = i
<1> DEFINE First(j) == MatchAt(data, pattern, j) /\ \A k \in 0..j - 1 : ~MatchAt(data, pattern, k)
<1> DEFINE found == CHOOSE j \in 0..Len(data) : First(j)
<1>1. Len(data) \in Nat
  BY LenProperties
<1>2. First(i)
  OBVIOUS
<1>3. found \in 0..Len(data) /\ First(found)
  BY <1>2
<1>4. buffer_find(data, pattern) = found
  BY DEF buffer_find
<1>5. \A j \in 0..Len(data) : First(j) => j = i
  <2> SUFFICES ASSUME NEW j \in 0..Len(data), First(j)
               PROVE  j = i
    OBVIOUS
  <2>1. ~(j \in 0..i - 1) /\ ~(i \in 0..j - 1)
    BY <1>2
  <2> QED
    BY <1>1, <2>1
<1> HIDE DEF found, First
<1> QED
  BY <1>3, <1>4, <1>5

\* What is found is a match within the data.
LEMMA FoundIsMatch ==
    ASSUME NEW data, data \in Seq(Pieces), NEW pattern, buffer_find(data, pattern) # -1
    PROVE  /\ buffer_find(data, pattern) \in 0..Len(data)
           /\ MatchAt(data, pattern, buffer_find(data, pattern))
<1> DEFINE matches == {i \in 0..Len(data) : MatchAt(data, pattern, i)}
<1>1. Len(data) \in Nat
  BY LenProperties
<1>2. matches # {} /\ matches \in SUBSET Nat
  BY <1>1 DEF buffer_find
<1>3. PICK i \in matches : \A k \in matches : i <= k
  BY <1>2, LeastNatural
<1>4. ASSUME NEW k \in 0..i - 1 PROVE ~MatchAt(data, pattern, k)
  <2>1. i \in 0..Len(data) /\ k \in 0..Len(data) /\ ~(i <= k)
    BY <1>1, <1>3
  <2> QED
    BY <1>3, <2>1
<1>5. i \in 0..Len(data) /\ MatchAt(data, pattern, i)
  BY <1>3
<1>6. buffer_find(data, pattern) = i
  BY <1>4, <1>5, FirstIsFound
<1> QED
  BY <1>5, <1>6

\* A run cannot be made longer.
LEMMA RunIsLongest ==
    ASSUME NEW data, data \in Seq(Pieces), NEW i \in 0..Len(data), NEW kind
    PROVE  /\ RunLength(data, i, kind) \in 0..Len(data) - i
           /\ \A k \in 1..RunLength(data, i, kind) : data[i + k] \in kind
           /\ i + RunLength(data, i, kind) < Len(data) =>
                data[i + RunLength(data, i, kind) + 1] \notin kind
<1> DEFINE runs == {n \in 0..Len(data) - i : \A k \in 1..n : data[i + k] \in kind}
           longest == CHOOSE n \in runs : \A m \in runs : m <= n
<1>1. Len(data) \in Nat /\ Len(data) - i \in Nat
  BY LenProperties
<1>2. 0 \in runs /\ runs \in SUBSET (0..Len(data) - i)
  BY <1>1
<1>3. \E n \in runs : \A m \in runs : m <= n
  <2>1. runs # {}
    BY <1>2
  <2> HIDE DEF runs
  <2> QED
    BY <1>1, <1>2, <2>1, GreatestNatural
<1>4. longest \in runs /\ \A m \in runs : m <= longest
  BY <1>3
<1>5. RunLength(data, i, kind) = longest
  BY DEF RunLength
<1> HIDE DEF longest
<1>6. longest \in 0..Len(data) - i /\ \A k \in 1..longest : data[i + k] \in kind
  BY <1>4
<1>7. ASSUME i + longest < Len(data), data[i + longest + 1] \in kind
      PROVE  FALSE
  <2>1. longest + 1 \in 0..Len(data) - i
    BY <1>1, <1>6, <1>7
  <2>2. ASSUME NEW k \in 1..longest + 1 PROVE data[i + k] \in kind
    <3>1. CASE k = longest + 1
      <4>1. i + k = i + longest + 1
        BY <1>6, <3>1
      <4> QED
        BY <1>7, <4>1
    <3>2. CASE k # longest + 1
      <4>1. k \in 1..longest
        BY <1>6, <3>2
      <4> QED
        BY <1>6, <4>1
    <3> QED
      BY <3>1, <3>2
  <2>3. longest + 1 \in runs
    BY <2>1, <2>2
  <2>4. longest + 1 <= longest
    BY <1>4, <2>3
  <2> QED
    BY <1>6, <2>4
<1> QED
  BY <1>5, <1>6, <1>7

\* The digits strtol takes lie within the data, behind the line ends skipped.
LEMMA DigitsAreARun ==
    ASSUME NEW data, data \in Seq(Pieces), NEW i \in 0..Len(data)
    PROVE  /\ DigitsBegin(data, i) \in i..Len(data)
           /\ DigitsEnd(data, i) \in DigitsBegin(data, i)..Len(data)
           /\ \A j \in DigitsBegin(data, i) + 1 .. DigitsEnd(data, i) : data[j] \in Digits
           /\ DigitsEnd(data, i) < Len(data) => data[DigitsEnd(data, i) + 1] \notin Digits
<1> DEFINE skipped == RunLength(data, i, {"crlf"})
           first == DigitsBegin(data, i)
           n == RunLength(data, first, Digits)
<1>1. Len(data) \in Nat
  BY LenProperties
<1>2. skipped \in 0..Len(data) - i
  BY RunIsLongest
<1>3. first = i + skipped
  BY DEF DigitsBegin
<1> HIDE DEF skipped
<1>4. first \in i..Len(data) /\ first \in 0..Len(data)
  BY <1>1, <1>2, <1>3
<1> HIDE DEF first
<1>5. /\ n \in 0..Len(data) - first
      /\ \A k \in 1..n : data[first + k] \in Digits
      /\ first + n < Len(data) => data[first + n + 1] \notin Digits
  BY <1>4, RunIsLongest
<1>6. DigitsEnd(data, i) = first + n
  BY DEF DigitsEnd, first
<1> HIDE DEF n
<1>7. \A j \in first + 1 .. first + n : data[j] \in Digits
  <2> SUFFICES ASSUME NEW j \in first + 1 .. first + n PROVE data[j] \in Digits
    OBVIOUS
  <2>1. j - first \in 1..n /\ j = first + (j - first)
    BY <1>1, <1>4, <1>5
  <2> QED
    BY <1>5, <2>1
<1>8. first + n \in first..Len(data)
  BY <1>1, <1>4, <1>5
<1>9. /\ first \in i..Len(data)
      /\ first + n \in first..Len(data)
      /\ \A j \in first + 1 .. first + n : data[j] \in Digits
      /\ first + n < Len(data) => data[first + n + 1] \notin Digits
  BY <1>4, <1>5, <1>7, <1>8
<1> QED
  BY <1>6, <1>9 DEF first

\* They are digits.
LEMMA DigitsAtIsDigits ==
    ASSUME NEW data, data \in Seq(Pieces), NEW i \in 0..Len(data)
    PROVE  DigitsAt(data, i) \in Seq(Digits)
<1> DEFINE first == DigitsBegin(data, i)
           last == DigitsEnd(data, i)
<1>1. /\ first \in i..Len(data) /\ last \in first..Len(data)
      /\ \A j \in first + 1 .. last : data[j] \in Digits
  BY DigitsAreARun
<1>2. DigitsAt(data, i) = SubSeq(data, first + 1, last)
  BY DEF DigitsAt
<1> HIDE DEF first, last
<1>3. first + 1 \in Int /\ last \in Int
  BY <1>1, LenProperties
<1> QED
  BY <1>1, <1>2, <1>3, SubSeqProperties

\* What strtol returns is a natural number, whatever it finds.
LEMMA StrtolIsNat ==
    ASSUME NEW data, data \in Seq(Pieces), NEW i \in 0..Len(data)
    PROVE  strtol(data, i) \subseteq Nat
<1>1. DigitsAt(data, i) \in Seq(Digits)
  BY DigitsAtIsDigits
<1> QED
  BY <1>1, NumberIsNat, AppendedNumber DEF strtol

\* Each end of a frame that may be computed is a natural number.
LEMMA FrameEndsAreNat ==
    ASSUME NEW data, data \in Seq(Pieces), HeaderKnown(data)
    PROVE  FrameEnds(data) \subseteq Nat
<1> DEFINE blank == buffer_find(data, BlankLine)
           field == buffer_find(data, ContentLength)
<1>1. Len(data) \in Nat /\ Len(BlankLine) = 2 /\ Len(ContentLength) = 1
  BY LenProperties DEF BlankLine, ContentLength
<1>2. blank >= 0 /\ field >= 0
  BY DEF HeaderKnown
<1>3. blank # -1 /\ field # -1
  BY <1>2
<1>4. blank \in 0..Len(data) /\ field \in 0..Len(data) /\ MatchAt(data, ContentLength, field)
  BY <1>3, FoundIsMatch
<1>5. field + Len(ContentLength) <= Len(data)
  BY <1>4 DEF MatchAt
<1>6. field + Len(ContentLength) \in 0..Len(data) /\ blank + Len(BlankLine) \in Nat
  BY <1>1, <1>4, <1>5
<1>7. strtol(data, field + Len(ContentLength)) \subseteq Nat
  BY <1>6, StrtolIsNat
<1> QED
  BY <1>6, <1>7 DEF FrameEnds

-----------------------------------------------------------------------------
(* Replies.                                                                *)

\* A reply is sent as pieces.
LEMMA WireIsPieces ==
    ASSUME NEW r \in Replies \cup {NoReply}
    PROVE  Wire(r) \in Seq(Pieces)
<1>1. CASE r = NoReply
  BY <1>1 DEF Wire
<1>2. CASE r # NoReply
  <2>1. r \in Replies /\ r.body \in Seq(Pieces)
    BY <1>2, RepliesAssumption
  <2>2. StatusLine \in Seq(Pieces) /\ <<"crlf">> \in Seq(Pieces) /\ <<"length">> \in Seq(Pieces)
    BY DEF StatusLine, Pieces
  <2>3. LengthField(r.length) \in Seq(Pieces)
    <3>1. CASE r.length = NoLength
      BY <3>1 DEF LengthField
    <3>2. CASE r.length # NoLength
      <4>1. r.length \in Seq(Digits)
        BY <2>1, <3>2, RepliesAssumption
      <4>2. r.length \in Seq(Pieces)
        <5>1. Digits \subseteq Pieces
          BY DEF Pieces
        <5> QED
          BY <4>1, <5>1, SeqMonotonic
      <4>3. <<"length">> \o r.length \in Seq(Pieces)
        BY <2>2, <4>2, ConcatProperties
      <4>4. (<<"length">> \o r.length) \o <<"crlf">> \in Seq(Pieces)
        BY <2>2, <4>3, ConcatProperties
      <4> QED
        BY <3>2, <4>4 DEF LengthField
    <3> QED
      BY <3>1, <3>2
  <2>4. StatusLine \o LengthField(r.length) \in Seq(Pieces)
    BY <2>2, <2>3, ConcatProperties
  <2>5. Header(r) \in Seq(Pieces)
    BY <2>2, <2>4, ConcatProperties DEF Header
  <2>6. Header(r) \o r.body \in Seq(Pieces)
    BY <2>1, <2>5, ConcatProperties
  <2> QED
    BY <1>2, <2>6 DEF Wire
<1> QED
  BY <1>1, <1>2

\* The whole is the first sequence and, behind it, the second.
Joined(s, t, whole) ==
    /\ whole \in Seq(Pieces)
    /\ Len(whole) = Len(s) + Len(t)
    /\ \A i \in 1..Len(s) : whole[i] = s[i]
    /\ \A i \in 1..Len(t) : whole[Len(s) + i] = t[i]

\* Concatenation has the length and the elements of its two parts.
LEMMA ConcatIsJoined ==
    ASSUME NEW s \in Seq(Pieces), NEW t \in Seq(Pieces)
    PROVE  Joined(s, t, s \o t)
<1> DEFINE whole == s \o t
<1>1. /\ whole \in Seq(Pieces)
      /\ Len(whole) = Len(s) + Len(t)
      /\ \A i \in 1..Len(s) + Len(t) : whole[i] = IF i <= Len(s) THEN s[i] ELSE t[i - Len(s)]
  BY ConcatProperties
<1>2. Len(s) \in Nat /\ Len(t) \in Nat
  BY LenProperties
<1> HIDE DEF whole
<1>3. \A i \in 1..Len(s) : whole[i] = s[i]
  BY <1>1, <1>2
<1>4. ASSUME NEW i \in 1..Len(t) PROVE whole[Len(s) + i] = t[i]
  <2>1. Len(s) + i \in 1..Len(s) + Len(t) /\ ~(Len(s) + i <= Len(s)) /\ (Len(s) + i) - Len(s) = i
    BY <1>2
  <2> QED
    BY <1>1, <2>1
<1>5. Joined(s, t, whole)
  BY <1>1, <1>3, <1>4 DEF Joined
<1> QED
  BY <1>5 DEF whole

\* Where the pieces of a reply with this length stand.
Layout(wire, digits) ==
    /\ Len(wire) >= 5 + Len(digits)
    /\ wire[1] = "text" /\ wire[2] = "crlf" /\ wire[3] = "length"
    /\ \A k \in 1..Len(digits) : wire[3 + k] = digits[k]
    /\ wire[4 + Len(digits)] = "crlf" /\ wire[5 + Len(digits)] = "crlf"

\* The parts of a reply, joined one after the other, are laid out so.
LEMMA PartsLayout ==
    ASSUME NEW d \in Seq(Pieces), NEW body \in Seq(Pieces),
           NEW one, NEW two, NEW three, NEW four, NEW five,
           Joined(<<"length">>, d, one), Joined(one, <<"crlf">>, two),
           Joined(StatusLine, two, three), Joined(three, <<"crlf">>, four),
           Joined(four, body, five)
    PROVE  Len(four) = 5 + Len(d) /\ Layout(five, d)
<1>1. Len(d) \in Nat /\ Len(body) \in Nat
  BY LenProperties
<1>2. /\ Len(StatusLine) = 2 /\ StatusLine[1] = "text" /\ StatusLine[2] = "crlf"
      /\ Len(<<"crlf">>) = 1 /\ <<"crlf">>[1] = "crlf"
      /\ Len(<<"length">>) = 1 /\ <<"length">>[1] = "length"
  BY DEF StatusLine
<1> DEFINE line == <<"crlf">>
           name == <<"length">>
<1>3. /\ Len(StatusLine) = 2 /\ StatusLine[1] = "text" /\ StatusLine[2] = "crlf"
      /\ Len(line) = 1 /\ line[1] = "crlf"
      /\ Len(name) = 1 /\ name[1] = "length"
  BY <1>2
<1>4. /\ Joined(name, d, one) /\ Joined(one, line, two)
      /\ Joined(three, line, four)
  OBVIOUS
<1> HIDE DEF line, name
<1>5. Len(one) = 1 + Len(d) /\ one[1] = "length" /\ \A k \in 1..Len(d) : one[1 + k] = d[k]
  BY <1>1, <1>3, <1>4 DEF Joined
<1>6. /\ Len(two) = 2 + Len(d)
      /\ \A i \in 1..1 + Len(d) : two[i] = one[i]
      /\ two[2 + Len(d)] = "crlf"
  <2>1. Len(two) = 2 + Len(d) /\ \A i \in 1..1 + Len(d) : two[i] = one[i]
    BY <1>1, <1>3, <1>4, <1>5 DEF Joined
  <2>2. two[1 + Len(d) + 1] = line[1]
    BY <1>1, <1>3, <1>4, <1>5 DEF Joined
  <2>3. 1 + Len(d) + 1 = 2 + Len(d)
    BY <1>1
  <2> QED
    BY <1>3, <2>1, <2>2, <2>3
<1>7. /\ Len(three) = 4 + Len(d)
      /\ three[1] = "text" /\ three[2] = "crlf"
      /\ \A i \in 1..2 + Len(d) : three[2 + i] = two[i]
  <2>1. Len(three) = 4 + Len(d) /\ \A i \in 1..2 + Len(d) : three[2 + i] = two[i]
    BY <1>1, <1>3, <1>6 DEF Joined
  <2>2. \A i \in 1..2 : three[i] = StatusLine[i]
    BY <1>3 DEF Joined
  <2> QED
    BY <1>3, <2>1, <2>2
<1>8. /\ Len(four) = 5 + Len(d)
      /\ \A i \in 1..4 + Len(d) : four[i] = three[i]
      /\ four[5 + Len(d)] = "crlf"
  <2>1. Len(four) = 5 + Len(d) /\ \A i \in 1..4 + Len(d) : four[i] = three[i]
    BY <1>1, <1>3, <1>4, <1>7 DEF Joined
  <2>2. four[4 + Len(d) + 1] = line[1]
    BY <1>1, <1>3, <1>4, <1>7 DEF Joined
  <2>3. 4 + Len(d) + 1 = 5 + Len(d)
    BY <1>1
  <2> QED
    BY <1>3, <2>1, <2>2, <2>3
<1>9. Len(five) >= 5 + Len(d) /\ \A i \in 1..5 + Len(d) : five[i] = four[i]
  BY <1>1, <1>8 DEF Joined
<1>10. five[1] = "text" /\ five[2] = "crlf"
  <2>1. 1 \in 1..5 + Len(d) /\ 2 \in 1..5 + Len(d) /\ 1 \in 1..4 + Len(d) /\ 2 \in 1..4 + Len(d)
    BY <1>1
  <2> QED
    BY <1>7, <1>8, <1>9, <2>1
<1>11. \A i \in 1..2 + Len(d) : five[2 + i] = two[i]
  <2> SUFFICES ASSUME NEW i \in 1..2 + Len(d) PROVE five[2 + i] = two[i]
    OBVIOUS
  <2>1. 2 + i \in 1..5 + Len(d) /\ 2 + i \in 1..4 + Len(d)
    BY <1>1
  <2> QED
    BY <1>7, <1>8, <1>9, <2>1
<1>12. five[3] = "length"
  <2>1. 1 \in 1..2 + Len(d) /\ 1 \in 1..1 + Len(d) /\ 2 + 1 = 3
    BY <1>1
  <2>2. five[2 + 1] = two[1] /\ two[1] = one[1]
    BY <1>6, <1>11, <2>1
  <2> QED
    BY <1>5, <2>1, <2>2
<1>13. ASSUME NEW k \in 1..Len(d) PROVE five[3 + k] = d[k]
  <2>1. 1 + k \in 1..2 + Len(d) /\ 1 + k \in 1..1 + Len(d) /\ 2 + (1 + k) = 3 + k
    BY <1>1
  <2>2. five[2 + (1 + k)] = two[1 + k] /\ two[1 + k] = one[1 + k]
    BY <1>6, <1>11, <2>1
  <2> QED
    BY <1>5, <2>1, <2>2
<1>14. five[4 + Len(d)] = "crlf"
  <2>1. 2 + Len(d) \in 1..2 + Len(d) /\ 2 + (2 + Len(d)) = 4 + Len(d)
    BY <1>1
  <2>2. five[2 + (2 + Len(d))] = two[2 + Len(d)]
    BY <1>11, <2>1
  <2> QED
    BY <1>6, <2>1, <2>2
<1>15. five[5 + Len(d)] = "crlf"
  <2>1. 5 + Len(d) \in 1..5 + Len(d)
    BY <1>1
  <2> QED
    BY <1>8, <1>9, <2>1
<1> QED
  BY <1>8, <1>9, <1>10, <1>12, <1>13, <1>14, <1>15 DEF Layout

\* A reply with a Content-Length is laid out so.
LEMMA ReplyLayout ==
    ASSUME NEW r \in Replies, r.length # NoLength
    PROVE  /\ r.length \in Seq(Digits)
           /\ Len(Header(r)) = 5 + Len(r.length)
           /\ Layout(Wire(r), r.length)
<1> DEFINE d == r.length
<1>1. d \in Seq(Digits) /\ r.body \in Seq(Pieces) /\ r # NoReply
  BY RepliesAssumption
<1>2. d \in Seq(Pieces)
  <2>1. Digits \subseteq Pieces
    BY DEF Pieces
  <2> QED
    BY <1>1, <2>1, SeqMonotonic
<1>3. StatusLine \in Seq(Pieces) /\ <<"crlf">> \in Seq(Pieces) /\ <<"length">> \in Seq(Pieces)
  BY DEF StatusLine, Pieces
<1> DEFINE one == <<"length">> \o d
           two == one \o <<"crlf">>
           three == StatusLine \o two
           four == three \o <<"crlf">>
           five == four \o r.body
<1> HIDE DEF d
<1>4. Joined(<<"length">>, d, one)
  BY <1>2, <1>3, ConcatIsJoined
<1>5. one \in Seq(Pieces)
  BY <1>4 DEF Joined
<1>6. Joined(one, <<"crlf">>, two)
  <2> HIDE DEF one
  <2> QED
    BY <1>3, <1>5, ConcatIsJoined
<1>7. two \in Seq(Pieces)
  BY <1>6 DEF Joined
<1>8. Joined(StatusLine, two, three)
  <2> HIDE DEF two
  <2> QED
    BY <1>3, <1>7, ConcatIsJoined
<1>9. three \in Seq(Pieces)
  BY <1>8 DEF Joined
<1>10. Joined(three, <<"crlf">>, four)
  <2> HIDE DEF three
  <2> QED
    BY <1>3, <1>9, ConcatIsJoined
<1>11. four \in Seq(Pieces)
  BY <1>10 DEF Joined
<1>12. Joined(four, r.body, five)
  <2> HIDE DEF four
  <2> QED
    BY <1>1, <1>11, ConcatIsJoined
<1>13. Len(four) = 5 + Len(d) /\ Layout(five, d)
  <2> HIDE DEF one, two, three, four, five
  <2> QED
    BY <1>1, <1>2, <1>4, <1>6, <1>8, <1>10, <1>12, PartsLayout
<1>14. Header(r) = four /\ Wire(r) = five
  BY <1>1 DEF Header, LengthField, Wire, d
<1> QED
  BY <1>1, <1>13, <1>14 DEF d

\* A digit is none of the other pieces.
LEMMA DigitsApart ==
    \A d \in Digits : d # "crlf" /\ d # "text" /\ d # "length"
BY DEF Digits

\* What matches a pattern of one piece, and of two.
LEMMA Matches ==
    ASSUME NEW data, NEW i
    PROVE  /\ MatchAt(data, ContentLength, i) <=> i + 1 <= Len(data) /\ data[i + 1] = "length"
           /\ MatchAt(data, BlankLine, i) <=> /\ i + 2 <= Len(data)
                                              /\ data[i + 1] = "crlf" /\ data[i + 2] = "crlf"
<1>1. Len(BlankLine) = 2 /\ BlankLine[1] = "crlf" /\ BlankLine[2] = "crlf"
  BY DEF BlankLine
<1>2. Len(ContentLength) = 1 /\ ContentLength[1] = "length"
  BY DEF ContentLength
<1>3. 1..1 = {1} /\ 1..2 = {1, 2}
  OBVIOUS
<1> QED
  BY <1>1, <1>2, <1>3 DEF MatchAt

\* Whatever part of the reply the buffer holds, once both searches succeed they
\* find the blank line that ends the header, and the length the server wrote.
LEMMA FrameIsFound ==
    ASSUME NEW digits \in Seq(Digits), digits # <<>>, NEW wire, Layout(wire, digits),
           NEW data \in Seq(Pieces), \A i \in 1..Len(data) : data[i] = wire[i],
           HeaderKnown(data)
    PROVE  /\ FrameEnds(data) = {5 + Len(digits) + Number(digits)}
           /\ 5 + Len(digits) <= Len(data)
<1> DEFINE d == Len(digits)
           size == Len(data)
           blank == buffer_find(data, BlankLine)
           field == buffer_find(data, ContentLength)
<1>1. d \in Nat /\ size \in Nat /\ \A k \in 1..d : digits[k] \in Digits
  BY LenProperties, ElementOfSeq
<1>2. blank # -1 /\ field # -1
  BY DEF HeaderKnown
<1>3. /\ wire[1] = "text" /\ wire[2] = "crlf" /\ wire[3] = "length"
      /\ \A k \in 1..d : wire[3 + k] = digits[k]
      /\ wire[4 + d] = "crlf" /\ wire[5 + d] = "crlf"
  BY DEF Layout
<1>4. ASSUME NEW k \in 0..2 + d, MatchAt(data, BlankLine, k) PROVE FALSE
  <2>1. k + 2 <= size /\ data[k + 1] = "crlf" /\ data[k + 2] = "crlf"
    BY <1>4, Matches
  <2>2. k + 1 \in 1..size /\ k + 2 \in 1..size
    BY <1>1, <2>1
  <2>3. wire[k + 1] = "crlf" /\ wire[k + 2] = "crlf"
    BY <2>1, <2>2
  <2>4. CASE k = 0
    BY <1>3, <2>3, <2>4
  <2>5. CASE k = 1
    BY <1>3, <2>3, <2>5
  <2>6. CASE k = 2
    BY <1>3, <2>3, <2>6
  <2>7. CASE k > 2
    <3>1. k - 2 \in 1..d /\ 3 + (k - 2) = k + 1
      BY <1>1, <2>7
    <3>2. wire[k + 1] \in Digits
      BY <1>1, <1>3, <3>1
    <3> QED
      BY <2>3, <3>2, DigitsApart
  <2> QED
    BY <2>4, <2>5, <2>6, <2>7
<1>5. blank \in 0..size /\ MatchAt(data, BlankLine, blank)
  BY <1>2, FoundIsMatch
<1>6. blank >= 3 + d /\ blank + 2 <= size
  <2>1. blank \notin 0..2 + d
    BY <1>4, <1>5
  <2>2. blank + 2 <= size
    BY <1>5, Matches
  <2> QED
    BY <1>1, <1>5, <2>1, <2>2
<1>7. 5 + d <= size
  BY <1>1, <1>5, <1>6
<1>8. /\ data[1] = "text" /\ data[2] = "crlf" /\ data[3] = "length"
      /\ \A k \in 1..d : data[3 + k] = digits[k]
      /\ data[4 + d] = "crlf" /\ data[5 + d] = "crlf"
  <2>1. \A i \in 1..5 + d : data[i] = wire[i]
    BY <1>1, <1>7
  <2>2. /\ 1 \in 1..5 + d /\ 2 \in 1..5 + d /\ 3 \in 1..5 + d
        /\ 4 + d \in 1..5 + d /\ 5 + d \in 1..5 + d
        /\ \A k \in 1..d : 3 + k \in 1..5 + d
    BY <1>1
  <2> HIDE DEF d
  <2> QED
    BY <1>3, <2>1, <2>2
<1>9. blank = 3 + d
  <2>1. 3 + d \in 0..size /\ (3 + d) + 1 = 4 + d /\ (3 + d) + 2 = 5 + d
    BY <1>1, <1>7
  <2>2. MatchAt(data, BlankLine, 3 + d)
    BY <1>7, <1>8, <2>1, Matches
  <2>3. \A k \in 0..(3 + d) - 1 : ~MatchAt(data, BlankLine, k)
    BY <1>1, <1>4
  <2> QED
    BY <2>1, <2>2, <2>3, FirstIsFound
<1>10. field = 2
  <2>1. 2 \in 0..size
    BY <1>1, <1>7
  <2>2. MatchAt(data, ContentLength, 2)
    BY <1>1, <1>7, <1>8, Matches
  <2>3. ~MatchAt(data, ContentLength, 0) /\ ~MatchAt(data, ContentLength, 1)
    BY <1>8, Matches
  <2>4. \A k \in 0..2 - 1 : ~MatchAt(data, ContentLength, k)
    BY <2>3
  <2> QED
    BY <2>1, <2>2, <2>4, FirstIsFound
<1>11. d # 0
  BY EmptySeq
<1>12. DigitsBegin(data, 3) = 3
  <2> DEFINE n == RunLength(data, 3, {"crlf"})
  <2>1. 3 \in 0..size
    BY <1>1, <1>7
  <2>2. \A i \in 0..size : /\ RunLength(data, i, {"crlf"}) \in 0..size - i
                           /\ \A k \in 1..RunLength(data, i, {"crlf"}) : data[i + k] \in {"crlf"}
    BY RunIsLongest
  <2>3. n \in 0..size - 3 /\ \A k \in 1..n : data[3 + k] \in {"crlf"}
    <3> HIDE DEF size
    <3> QED
      BY <2>1, <2>2
  <2>4. DigitsBegin(data, 3) = 3 + n
    BY DEF DigitsBegin
  <2> HIDE DEF n
  <2>5. ~(n > 0)
    <3> SUFFICES ASSUME n > 0 PROVE FALSE
      OBVIOUS
    <3>1. 1 \in 1..n /\ 1 \in 1..d
      BY <1>1, <1>11, <2>3
    <3>2. data[3 + 1] = "crlf" /\ data[3 + 1] \in Digits
      BY <1>1, <1>8, <2>3, <3>1
    <3> QED
      BY <3>2, DigitsApart
  <2>6. n = 0
    BY <1>1, <1>7, <2>3, <2>5
  <2> QED
    BY <2>4, <2>6
<1>13. DigitsEnd(data, 3) = 3 + d
  <2> DEFINE last == DigitsEnd(data, 3)
  <2>1. 3 \in 0..size
    BY <1>1, <1>7
  <2>2. \A i \in 0..size :
           /\ DigitsEnd(data, i) \in DigitsBegin(data, i)..size
           /\ \A j \in DigitsBegin(data, i) + 1 .. DigitsEnd(data, i) : data[j] \in Digits
           /\ DigitsEnd(data, i) < size => data[DigitsEnd(data, i) + 1] \notin Digits
    BY DigitsAreARun
  <2>3. /\ last \in 3..size
        /\ \A j \in 3 + 1 .. last : data[j] \in Digits
        /\ last < size => data[last + 1] \notin Digits
    <3> HIDE DEF size
    <3>1. /\ DigitsEnd(data, 3) \in DigitsBegin(data, 3)..size
          /\ \A j \in DigitsBegin(data, 3) + 1 .. DigitsEnd(data, 3) : data[j] \in Digits
          /\ DigitsEnd(data, 3) < size => data[DigitsEnd(data, 3) + 1] \notin Digits
      BY <2>1, <2>2
    <3> QED
      BY <1>12, <3>1
  <2> HIDE DEF last
  <2>4. ~(last < 3 + d)
    <3> SUFFICES ASSUME last < 3 + d PROVE FALSE
      OBVIOUS
    <3>1. last - 2 \in 1..d /\ 3 + (last - 2) = last + 1 /\ last < size
      BY <1>1, <1>7, <2>3
    <3> QED
      BY <1>1, <1>8, <2>3, <3>1
  <2>5. ~(last > 3 + d)
    <3> SUFFICES ASSUME last > 3 + d PROVE FALSE
      OBVIOUS
    <3>1. 4 + d \in 3 + 1 .. last
      BY <1>1, <1>7, <2>3
    <3>2. data[4 + d] \in Digits
      BY <2>3, <3>1
    <3> QED
      BY <1>8, <3>2, DigitsApart
  <2>6. last = 3 + d
    BY <1>1, <1>7, <2>3, <2>4, <2>5
  <2> QED
    BY <2>6 DEF last
<1>14. DigitsAt(data, 3) = digits
  <2>6. \A j \in 4 .. 3 + d : data[j] \in Digits /\ data[j] = digits[j - 3]
    <3> SUFFICES ASSUME NEW j \in 4 .. 3 + d PROVE data[j] \in Digits /\ data[j] = digits[j - 3]
      OBVIOUS
    <3>1. j - 3 \in 1..d /\ 3 + (j - 3) = j
      BY <1>1
    <3> QED
      BY <1>1, <1>8, <3>1
  <2>7. SubSeq(data, 4, 3 + d) \in Seq(Digits) /\ Len(SubSeq(data, 4, 3 + d)) = d
        /\ \A i \in 1..d : SubSeq(data, 4, 3 + d)[i] = data[4 + i - 1]
    <3>1. 4 \in Int /\ 3 + d \in Int /\ (3 + d) - 4 + 1 = d /\ (4 <= 3 + d <=> d > 0)
      BY <1>1
    <3>2. /\ SubSeq(data, 4, 3 + d) \in Seq(Digits)
          /\ Len(SubSeq(data, 4, 3 + d)) = IF 4 <= 3 + d THEN (3 + d) - 4 + 1 ELSE 0
          /\ \A i \in 1..(3 + d) - 4 + 1 : SubSeq(data, 4, 3 + d)[i] = data[4 + i - 1]
      BY <2>6, <3>1, SubSeqProperties
    <3> HIDE DEF d
    <3> QED
      BY <1>1, <3>1, <3>2
  <2>8. \A i \in 1..d : SubSeq(data, 4, 3 + d)[i] = digits[i]
    <3> SUFFICES ASSUME NEW i \in 1..d PROVE SubSeq(data, 4, 3 + d)[i] = digits[i]
      OBVIOUS
    <3>1. 4 + i - 1 = 3 + i
      BY <1>1
    <3> QED
      BY <1>8, <2>7, <3>1
  <2>9. SubSeq(data, 4, 3 + d) = digits
    BY <2>7, <2>8, SeqEqual
  <2>10. DigitsAt(data, 3) = SubSeq(data, 3 + 1, 3 + d)
    BY <1>12, <1>13 DEF DigitsAt
  <2>11. 3 + 1 = 4
    OBVIOUS
  <2> QED
    BY <2>9, <2>10, <2>11
<1>15. strtol(data, 3) = {Number(digits)}
  <2>1. 3 + d < size
    BY <1>1, <1>7
  <2> QED
    BY <1>13, <1>14, <2>1 DEF strtol
<1>16. Len(BlankLine) = 2 /\ Len(ContentLength) = 1
  BY DEF BlankLine, ContentLength
<1>17. FrameEnds(data) = {blank + 2 + n : n \in strtol(data, 2 + 1)}
  BY <1>10, <1>16 DEF FrameEnds
<1> QED
  BY <1>1, <1>7, <1>9, <1>15, <1>17

-----------------------------------------------------------------------------
(* The steps.                                                              *)

\* At the start nothing is sent, nothing has arrived, and no reply is chosen.
LEMMA InitIInv == Init => IInv
<1> SUFFICES ASSUME Init PROVE IInv
  OBVIOUS
<1>1. Wire(reply) = <<>> /\ Len(Wire(reply)) = 0 /\ SubSeq(Wire(reply), 1, arrived) = <<>>
  BY SubSeqEmpty DEF Init, Wire
<1>2. TypeOK
  BY <1>1, TotalAssumption DEF Init, TypeOK
<1> QED
  BY <1>1, <1>2, TotalAssumption
     DEF Init, IInv, Counted, RequestIntact, Taken, CompleteReply

\* What holds of the reply and the buffer is kept by a step that changes neither
\* and begins no frame.
LEMMA ReplyKept ==
    ASSUME Taken, CompleteReply, pc' \in {"body", "returned"} => pc' = pc,
           UNCHANGED <<buffer, total, reply, arrived>>
    PROVE  Taken' /\ CompleteReply'
BY DEF Taken, CompleteReply

\* A new connection has carried nothing.
LEMMA OpenIInv == ASSUME IInv, open_connection PROVE IInv'
<1>1. TypeOK'
  BY DEF IInv, TypeOK, open_connection
<1>2. Counted'
  <2>1. upstream = <<>> /\ sent = Len(upstream) /\ Len(upstream) = 0
    BY DEF IInv, Counted, open_connection
  <2> QED
    BY <2>1, TotalAssumption DEF open_connection, Counted
<1>3. RequestIntact'
  BY DEF IInv, RequestIntact, open_connection
<1>4. Taken' /\ CompleteReply'
  BY ReplyKept DEF IInv, open_connection
<1> QED
  BY <1>1, <1>2, <1>3, <1>4 DEF IInv

\* A write adds to what the server is sent the bytes that follow.
LEMMA SendIInv == ASSUME IInv, send_to_server PROVE IInv'
<1> USE TotalAssumption
<1>1. PICK bytes \in 1..Total - sent :
        /\ sent' = sent + bytes
        /\ upstream' = upstream \o [i \in 1..bytes |-> sent + i]
  BY DEF send_to_server
<1>2. /\ upstream \in Seq(1..Total) /\ Len(upstream) \in Nat
      /\ sent = Len(upstream) /\ sent < Total
      /\ \A i \in 1..Len(upstream) : upstream[i] = i
  <2>1. upstream \in Seq(1..Total) /\ link \in {"up", "closed"} /\ pc = "send"
    BY DEF IInv, TypeOK, send_to_server
  <2>2. Len(upstream) \in Nat /\ DOMAIN upstream = 1..Len(upstream)
    BY <2>1, LenProperties
  <2> QED
    BY <2>1, <2>2 DEF IInv, Counted, RequestIntact
<1> DEFINE written == [i \in 1..bytes |-> sent + i]
<1>3. bytes \in Nat /\ sent + bytes \in 1..Total
  BY <1>2
<1>4. written \in Seq(1..Total) /\ Len(written) = bytes
  <2>1. \A i \in 1..bytes : sent + i \in 1..Total
    BY <1>2, <1>3
  <2> QED
    BY <1>3, <2>1
<1>5. /\ upstream' \in Seq(1..Total)
      /\ Len(upstream') = sent + bytes
      /\ \A i \in 1..sent + bytes :
           upstream'[i] = IF i <= sent THEN upstream[i] ELSE written[i - sent]
  <2> HIDE DEF written
  <2>1. /\ upstream \o written \in Seq(1..Total)
        /\ Len(upstream \o written) = Len(upstream) + Len(written)
        /\ \A i \in 1..Len(upstream) + Len(written) :
             (upstream \o written)[i] = IF i <= Len(upstream) THEN upstream[i]
                                        ELSE written[i - Len(upstream)]
    BY <1>2, <1>4, ConcatProperties
  <2>2. upstream' = upstream \o written
    BY <1>1 DEF written
  <2> QED
    BY <1>2, <1>4, <2>1, <2>2
<1>6. ASSUME NEW i \in 1..sent + bytes PROVE upstream'[i] = i
  <2>1. CASE i <= sent
    <3>1. i \in 1..Len(upstream)
      BY <1>2, <2>1
    <3> QED
      BY <1>2, <1>5, <2>1, <3>1
  <2>2. CASE ~(i <= sent)
    <3>1. i - sent \in 1..bytes /\ sent + (i - sent) = i
      BY <1>2, <1>3, <2>2
    <3> QED
      BY <1>5, <2>2, <3>1
  <2> QED
    BY <2>1, <2>2
<1>7. DOMAIN upstream' = 1..sent + bytes
  BY <1>5, LenProperties
<1>8. /\ pc' = IF sent + bytes < Total THEN "send" ELSE "header"
      /\ UNCHANGED <<buffer, total, link, reply, produced, arrived>>
      /\ link \in {"up", "closed"}
  BY <1>1 DEF send_to_server
<1>9. TypeOK'
  BY <1>1, <1>3, <1>5, <1>8 DEF IInv, TypeOK
<1>10. Counted'
  BY <1>1, <1>3, <1>5, <1>8 DEF Counted
<1>11. RequestIntact'
  BY <1>3, <1>5, <1>6, <1>7, <1>8 DEF RequestIntact
<1>12. Taken' /\ CompleteReply'
  BY <1>8, ReplyKept DEF IInv
<1> QED
  BY <1>9, <1>10, <1>11, <1>12 DEF IInv

\* A write that fails takes one off the count, on a connection that carries nothing
\* more.
LEMMA WriteFailsIInv == ASSUME IInv, WriteFails PROVE IInv'
<1>1. sent = Len(upstream) /\ Len(upstream) \in Nat /\ sent < Total /\ Total \in Nat
  BY TotalAssumption DEF IInv, TypeOK, Counted, WriteFails
<1>2. TypeOK'
  BY <1>1 DEF IInv, TypeOK, WriteFails
<1>3. Counted' /\ RequestIntact'
  BY <1>1 DEF IInv, Counted, RequestIntact, WriteFails
<1>4. Taken' /\ CompleteReply'
  BY ReplyKept DEF IInv, WriteFails
<1> QED
  BY <1>2, <1>3, <1>4 DEF IInv

\* A process that dies while writing or reading has returned nothing.
LEMMA DiesIInv == ASSUME IInv, BrokenPipe \/ ReadFails PROVE IInv'
<1>1. TypeOK'
  BY DEF IInv, TypeOK, BrokenPipe, ReadFails
<1>2. Counted' /\ RequestIntact'
  BY DEF IInv, Counted, RequestIntact, BrokenPipe, ReadFails
<1>3. Taken' /\ CompleteReply'
  BY ReplyKept DEF IInv, BrokenPipe, ReadFails
<1> QED
  BY <1>1, <1>2, <1>3 DEF IInv

\* What agrees with the first n pieces is their sequence.
LEMMA BeginningIsSubSeq ==
    ASSUME NEW whole \in Seq(Pieces), NEW n \in 0..Len(whole),
           NEW s \in Seq(Pieces), Len(s) = n, \A i \in 1..n : s[i] = whole[i]
    PROVE  s = SubSeq(whole, 1, n)
<1> DEFINE t == SubSeq(whole, 1, n)
<1>1. n \in Nat /\ Len(whole) \in Nat
  BY LenProperties
<1>2. \A i \in 1..n : whole[i] \in Pieces
  BY <1>1, ElementOfSeq
<1>3. /\ t \in Seq(Pieces) /\ Len(t) = IF 1 <= n THEN n - 1 + 1 ELSE 0
      /\ \A i \in 1..n - 1 + 1 : t[i] = whole[1 + i - 1]
  BY <1>1, <1>2, SubSeqProperties
<1>4. n - 1 + 1 = n /\ (~(1 <= n) => n = 0) /\ \A i \in 1..n : 1 + i - 1 = i
  BY <1>1
<1> HIDE DEF t
<1>5. Len(t) = n /\ \A i \in 1..n : t[i] = s[i]
  BY <1>3, <1>4
<1>6. s = t
  BY <1>3, <1>5, SeqEqual
<1> QED
  BY <1>6 DEF t

\* A read adds to the buffer the pieces of the reply that follow.
LEMMA ReadTakes ==
    ASSUME TypeOK, Taken, Read
    PROVE  /\ buffer' \in Seq(Pieces)
           /\ buffer' = SubSeq(Wire(reply), 1, arrived')
           /\ arrived' \in 0..produced
           /\ Len(buffer') = arrived'
           /\ \A i \in 1..Len(buffer') : buffer'[i] = Wire(reply)[i]
           /\ reply # NoReply
<1> DEFINE w == Wire(reply)
           bytes == IF Len(Unread) < MaxRead THEN Len(Unread) ELSE MaxRead
<1>1. w \in Seq(Pieces) /\ Len(w) \in Nat /\ \A i \in 1..Len(w) : w[i] \in Pieces
  BY WireIsPieces, LenProperties, ElementOfSeq DEF TypeOK
<1>2. produced \in 0..Len(w) /\ arrived \in 0..produced /\ buffer = SubSeq(w, 1, arrived)
  BY DEF TypeOK, Taken
<1> HIDE DEF w
<1>3. buffer \in Seq(Pieces) /\ Len(buffer) = arrived /\ \A i \in 1..arrived : buffer[i] = w[i]
  BY <1>1, <1>2, SubSeqProperties
<1>4. /\ Unread \in Seq(Pieces) /\ Len(Unread) = produced - arrived
      /\ \A i \in 1..produced - arrived : Unread[i] = w[arrived + i]
  <2>1. Unread = SubSeq(w, arrived + 1, produced)
    BY DEF Unread, w
  <2>2. \A i \in arrived + 1 .. produced : w[i] \in Pieces
    BY <1>1, <1>2
  <2>3. arrived + 1 \in Int /\ produced \in Int
    BY <1>1, <1>2
  <2>4. /\ SubSeq(w, arrived + 1, produced) \in Seq(Pieces)
        /\ Len(SubSeq(w, arrived + 1, produced)) =
             IF arrived + 1 <= produced THEN produced - (arrived + 1) + 1 ELSE 0
        /\ \A i \in 1..produced - (arrived + 1) + 1 :
             SubSeq(w, arrived + 1, produced)[i] = w[(arrived + 1) + i - 1]
    BY <2>2, <2>3, SubSeqProperties
  <2>5. produced - (arrived + 1) + 1 = produced - arrived /\ arrived <= produced
    BY <1>1, <1>2
  <2>6. \A i \in 1..produced - arrived : (arrived + 1) + i - 1 = arrived + i
    BY <1>1, <1>2
  <2> QED
    BY <1>1, <1>2, <2>1, <2>4, <2>5, <2>6
<1>5. produced - arrived > 0
  <2>1. Unread # <<>>
    BY DEF Read
  <2> QED
    BY <1>2, <1>4, <2>1, EmptySeq
<1>6. bytes \in 1..produced - arrived
  BY <1>1, <1>2, <1>4, <1>5, MaxReadAssumption
<1> DEFINE taken == SubSeq(Unread, 1, bytes)
<1>7. buffer' = buffer \o taken /\ arrived' = arrived + bytes
  BY DEF Read
<1> HIDE DEF bytes
<1>8. taken \in Seq(Pieces) /\ Len(taken) = bytes /\ \A i \in 1..bytes : taken[i] = w[arrived + i]
  <2>1. \A i \in 1..bytes : Unread[i] \in Pieces
    BY <1>1, <1>2, <1>4, <1>6
  <2>2. /\ taken \in Seq(Pieces)
        /\ Len(taken) = IF 1 <= bytes THEN bytes - 1 + 1 ELSE 0
        /\ \A i \in 1..bytes - 1 + 1 : taken[i] = Unread[1 + i - 1]
    BY <1>6, <2>1, SubSeqProperties
  <2>3. bytes - 1 + 1 = bytes /\ 1 <= bytes /\ \A i \in 1..bytes : 1 + i - 1 = i
    BY <1>1, <1>2, <1>6
  <2>4. \A i \in 1..bytes : i \in 1..produced - arrived
    BY <1>1, <1>2, <1>6
  <2> HIDE DEF taken
  <2> QED
    BY <1>4, <2>2, <2>3, <2>4
<1> HIDE DEF taken
<1>9. Joined(buffer, taken, buffer')
  BY <1>3, <1>7, <1>8, ConcatIsJoined
<1>10. Len(buffer') = arrived' /\ buffer' \in Seq(Pieces) /\ arrived' \in 0..produced /\ arrived' \in Nat
  BY <1>1, <1>2, <1>3, <1>6, <1>7, <1>8, <1>9 DEF Joined
<1>11. ASSUME NEW i \in 1..arrived' PROVE buffer'[i] = w[i]
  <2>1. CASE i <= arrived
    <3>1. i \in 1..Len(buffer)
      BY <1>2, <1>3, <1>10, <2>1
    <3> QED
      BY <1>3, <1>9, <3>1 DEF Joined
  <2>2. CASE ~(i <= arrived)
    <3>1. i - arrived \in 1..bytes /\ arrived + (i - arrived) = i
      BY <1>1, <1>2, <1>6, <1>7, <1>10, <2>2
    <3>2. buffer'[Len(buffer) + (i - arrived)] = taken[i - arrived]
      BY <1>8, <1>9, <3>1 DEF Joined
    <3> QED
      BY <1>3, <1>8, <3>1, <3>2
  <2> QED
    BY <2>1, <2>2
<1>12. buffer' = SubSeq(w, 1, arrived')
  BY <1>1, <1>2, <1>10, <1>11, BeginningIsSubSeq
<1>13. reply # NoReply
  <2> SUFFICES ASSUME reply = NoReply PROVE FALSE
    OBVIOUS
  <2>1. Len(w) = 0
    BY DEF w, Wire
  <2> QED
    BY <1>2, <1>5, <2>1
<1> QED
  BY <1>10, <1>11, <1>12, <1>13 DEF w

\* The first loop ends with the frame of a reply that has a Content-Length.
LEMMA ReadHeaderIInv == ASSUME IInv, ReadHeader PROVE IInv'
<1>1. TypeOK /\ Taken /\ Read /\ pc = "header"
  BY DEF IInv, ReadHeader
<1>2. /\ buffer' \in Seq(Pieces)
      /\ buffer' = SubSeq(Wire(reply), 1, arrived')
      /\ arrived' \in 0..produced
      /\ Len(buffer') = arrived'
      /\ \A i \in 1..Len(buffer') : buffer'[i] = Wire(reply)[i]
      /\ reply # NoReply
  BY <1>1, ReadTakes
<1>3. UNCHANGED <<sent, link, upstream, reply, produced>>
  BY <1>1 DEF Read
<1>4. \/ /\ HeaderKnown(buffer')
         /\ total' \in FrameEnds(buffer')
         /\ pc' = IF Len(buffer') < total' THEN "body" ELSE "returned"
      \/ UNCHANGED <<pc, total>>
  BY DEF ReadHeader
<1>5. TypeOK'
  <2>1. total' \in Nat
    BY <1>1, <1>2, <1>4, FrameEndsAreNat DEF TypeOK
  <2>2. pc' \in {"header", "body", "returned"}
    BY <1>1, <1>4
  <2> QED
    BY <1>1, <1>2, <1>3, <2>1, <2>2 DEF TypeOK
<1>6. Counted' /\ RequestIntact'
  BY <1>1, <1>3, <1>4 DEF IInv, Counted, RequestIntact
<1>7. Taken'
  BY <1>2, <1>3 DEF Taken
<1>8. CompleteReply'
  <2> SUFFICES ASSUME pc' \in {"body", "returned"}, HasLength(reply)
               PROVE  /\ total' = Len(Header(reply)) + Number(reply.length)
                      /\ pc' = "returned" => total' <= arrived'
    BY <1>2, <1>3 DEF CompleteReply
  <2>1. /\ HeaderKnown(buffer') /\ total' \in FrameEnds(buffer')
        /\ pc' = IF Len(buffer') < total' THEN "body" ELSE "returned"
    BY <1>1, <1>4
  <2>2. reply \in Replies /\ reply.length # NoLength /\ reply.length # <<>>
    BY <1>1, <1>2 DEF TypeOK, HasLength
  <2>3. /\ reply.length \in Seq(Digits)
        /\ Len(Header(reply)) = 5 + Len(reply.length)
        /\ Layout(Wire(reply), reply.length)
    BY <2>2, ReplyLayout
  <2>4. FrameEnds(buffer') = {5 + Len(reply.length) + Number(reply.length)}
    <3> DEFINE wire == Wire(reply)
               digits == reply.length
               data == buffer'
    <3>1. /\ digits \in Seq(Digits) /\ digits # <<>> /\ Layout(wire, digits) /\ data \in Seq(Pieces)
          /\ \A i \in 1..Len(data) : data[i] = wire[i]
          /\ HeaderKnown(data)
      BY <1>2, <2>1, <2>2, <2>3
    <3> HIDE DEF wire, digits, data
    <3>2. FrameEnds(data) = {5 + Len(digits) + Number(digits)}
      BY <3>1, FrameIsFound
    <3> QED
      BY <3>2 DEF digits, data
  <2>5. total' = Len(Header(reply)) + Number(reply.length)
    BY <2>1, <2>3, <2>4
  <2>6. total' \in Nat /\ arrived' \in Nat
    BY <1>2, <1>5 DEF TypeOK
  <2>7. pc' = "returned" => total' <= arrived'
    <3>1. ~(Len(buffer') < total') => total' <= arrived'
      BY <1>2, <2>6
    <3> QED
      BY <2>1, <3>1
  <2> QED
    BY <2>5, <2>7
<1> QED
  BY <1>5, <1>6, <1>7, <1>8 DEF IInv

\* The second loop ends when the frame is there.
LEMMA ReadBodyIInv == ASSUME IInv, ReadBody PROVE IInv'
<1>1. TypeOK /\ Taken /\ CompleteReply /\ Read /\ pc = "body"
  BY DEF IInv, ReadBody
<1>2. /\ buffer' \in Seq(Pieces)
      /\ buffer' = SubSeq(Wire(reply), 1, arrived')
      /\ arrived' \in 0..produced
      /\ Len(buffer') = arrived'
      /\ \A i \in 1..Len(buffer') : buffer'[i] = Wire(reply)[i]
      /\ reply # NoReply
  BY <1>1, ReadTakes
<1>3. UNCHANGED <<sent, link, upstream, reply, produced, total>>
  BY <1>1 DEF Read, ReadBody
<1>4. pc' = IF Len(buffer') < total THEN "body" ELSE "returned"
  BY <1>3 DEF ReadBody
<1>5. TypeOK'
  BY <1>1, <1>2, <1>3, <1>4 DEF TypeOK
<1>6. Counted' /\ RequestIntact'
  BY <1>1, <1>3, <1>4 DEF IInv, Counted, RequestIntact
<1>7. Taken'
  BY <1>2, <1>3 DEF Taken
<1>8. CompleteReply'
  <2>1. arrived' \in Nat /\ total \in Nat
    BY <1>1, <1>2 DEF TypeOK
  <2>2. pc' = "returned" => total <= arrived'
    <3>1. Len(buffer') = arrived'
      BY <1>2
    <3>2. ~(Len(buffer') < total) => total <= arrived'
      BY <2>1, <3>1
    <3> QED
      BY <1>4, <3>2
  <2> QED
    BY <1>1, <1>2, <1>3, <2>2 DEF CompleteReply
<1> QED
  BY <1>5, <1>6, <1>7, <1>8 DEF IInv

\* A step of the server or of the network touches neither buffer nor frame.
LEMMA ServerIInv ==
    ASSUME IInv, ServerReplies \/ ServerSends \/ ServerCloses \/ ConnectionResets
    PROVE  IInv'
<1>1. CASE ServerReplies
  <2>1. /\ reply = NoReply /\ pc \notin {"body", "returned"} /\ reply' \in Replies
        /\ Len(Wire(reply)) = 0 /\ produced = 0 /\ arrived = 0
        /\ UNCHANGED <<pc, sent, buffer, total, link, upstream, produced, arrived>>
    <3>1. Len(Wire(NoReply)) = 0
      BY DEF Wire
    <3> QED
      BY <1>1, <3>1 DEF ServerReplies, IInv, TypeOK, Taken
  <2>2. Len(Wire(reply')) \in Nat
    BY <2>1, WireIsPieces, LenProperties
  <2>3. TypeOK'
    BY <2>1, <2>2 DEF IInv, TypeOK
  <2>4. Counted' /\ RequestIntact'
    BY <2>1 DEF IInv, Counted, RequestIntact
  <2>5. SubSeq(Wire(reply), 1, 0) = <<>> /\ SubSeq(Wire(reply'), 1, 0) = <<>>
    BY SubSeqEmpty
  <2>6. Taken' /\ CompleteReply'
    BY <2>1, <2>5 DEF IInv, Taken, CompleteReply
  <2> QED
    BY <2>3, <2>4, <2>6 DEF IInv
<1>2. CASE ServerSends
  <2>1. /\ produced' \in produced + 1..Len(Wire(reply))
        /\ UNCHANGED <<pc, sent, buffer, total, link, upstream, reply, arrived>>
    BY <1>2 DEF ServerSends
  <2>2. Len(Wire(reply)) \in Nat
    BY WireIsPieces, LenProperties DEF IInv, TypeOK
  <2>3. TypeOK'
    BY <2>1, <2>2 DEF IInv, TypeOK
  <2>4. Counted' /\ RequestIntact'
    BY <2>1 DEF IInv, Counted, RequestIntact
  <2>5. Taken' /\ CompleteReply'
    BY <2>1, ReplyKept DEF IInv
  <2> QED
    BY <2>3, <2>4, <2>5 DEF IInv
<1>3. CASE ServerCloses
  <2>1. TypeOK'
    BY <1>3 DEF IInv, TypeOK, ServerCloses
  <2>2. Counted' /\ RequestIntact'
    BY <1>3 DEF IInv, Counted, RequestIntact, ServerCloses
  <2>3. Taken' /\ CompleteReply'
    BY <1>3, ReplyKept DEF IInv, ServerCloses
  <2> QED
    BY <2>1, <2>2, <2>3 DEF IInv
<1>4. CASE ConnectionResets
  <2>1. Len(Wire(reply)) \in Nat
    BY WireIsPieces, LenProperties DEF IInv, TypeOK
  <2>2. TypeOK'
    BY <1>4, <2>1 DEF IInv, TypeOK, ConnectionResets
  <2>3. Counted' /\ RequestIntact'
    BY <1>4 DEF IInv, Counted, RequestIntact, ConnectionResets
  <2>4. Taken' /\ CompleteReply'
    BY <1>4, ReplyKept DEF IInv, ConnectionResets
  <2> QED
    BY <2>2, <2>3, <2>4 DEF IInv
<1> QED
  BY <1>1, <1>2, <1>3, <1>4

\* Every step keeps the inductive invariant.
LEMMA NextIInv == IInv /\ [Next]_vars => IInv'
<1> SUFFICES ASSUME IInv, [Next]_vars PROVE IInv'
  OBVIOUS
<1>1. CASE UNCHANGED vars
  BY <1>1 DEF vars, IInv, TypeOK, Counted, RequestIntact, Taken, CompleteReply
<1>2. CASE ReadAtEnd
  BY <1>1, <1>2 DEF ReadAtEnd
<1> QED
  BY <1>1, <1>2, OpenIInv, SendIInv, WriteFailsIInv, DiesIInv, ReadHeaderIInv,
     ReadBodyIInv, ServerIInv DEF Next, Client, Server

-----------------------------------------------------------------------------
(* The theorems.                                                           *)

\* What holds in every state of an exchange, however the network cuts it.
THEOREM Invariance == Spec => []IInv
BY InitIInv, NextIInv, PTL DEF Spec

\* Every variable of Connection keeps its kind: send_to_server's count stays
\* between -1 and the length of the request.
THEOREM TypesKept == Spec => []TypeOK
<1>1. IInv => TypeOK
  BY DEF IInv
<1> QED
  BY <1>1, Invariance, PTL

\* send_to_server sends the request's bytes in order, none twice, none left out,
\* and all of them before the client turns to reading.
THEOREM RequestArrivesIntact == Spec => []RequestIntact
<1>1. IInv => RequestIntact
  BY DEF IInv
<1> QED
  BY <1>1, Invariance, PTL

\* receive_from_server returns a reply whose header has a length whole, whatever
\* that length, the body and the cuts of the reads.
THEOREM RepliesAreWhole == Spec => []CompleteReply
<1>1. IInv => CompleteReply
  BY DEF IInv
<1> QED
  BY <1>1, Invariance, PTL
=============================================================================
