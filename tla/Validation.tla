------------------------------ MODULE Validation ------------------------------
(***************************************************************************)
(* What the handlers that send an object check of the answers to their     *)
(* prompts, and what they put into it.  json_object_set_string and _number *)
(* refuse some of what passed the checks; no handler looks at their        *)
(* result, and the member is missing from what is sent.                    *)
(*                                                                         *)
(* A text is a sequence of pieces: a number as it is typed is one piece,   *)
(* "latin1" stands for bytes that are not UTF-8.  Numbers are counted in   *)
(* tenths, and written in the characters that JsonText reads.              *)
(***************************************************************************)
EXTENDS Integers, Sequences, SequencesExt, FiniteSetsExt, TLC

CONSTANTS
    NumberOf,            \* the pieces that are numbers, with their values
    Unsigned,            \* those of digits only
    NaN,                 \* the value of "nan"
    IntBits, LongBits,   \* widths of int and long (32 and 64)
    NumberText(_)        \* a number, in tenths, as parson writes it

ASSUME WidthAssumption ==
    /\ IntBits \in Nat \ {0} /\ LongBits \in Nat \ {0} /\ IntBits <= LongBits
    /\ 2^(IntBits - 1) \in Nat \ {0} /\ 2^IntBits = 2 * 2^(IntBits - 1)
    /\ 2^(LongBits - 1) \in Nat /\ 2^(IntBits - 1) <= 2^(LongBits - 1)

Blank == " "

\* Digits only make a whole number, a blank makes none.
ASSUME NumberAssumption ==
    /\ NaN \notin Int /\ Blank \notin DOMAIN NumberOf
    /\ \A piece \in DOMAIN NumberOf : NumberOf[piece] \in Int \cup {NaN}
    /\ \A piece \in Unsigned :
          piece \in DOMAIN NumberOf /\ NumberOf[piece] \in Nat /\ NumberOf[piece] % 10 = 0

-----------------------------------------------------------------------------
(* The C library.                                                          *)

AllDigits(string) == ToSet(string) \subseteq Unsigned

\* strtol and strtod skip the blanks at the beginning.
Unblanked(string) ==
    LET others == {i \in DOMAIN string : string[i] # Blank}
    IN  IF others = {} THEN <<>> ELSE SubSeq(string, Min(others), Len(string))

\* The number that a text begins with, or 0.
Leading(string) ==
    LET rest == Unblanked(string)
    IN  IF rest # <<>> /\ Head(rest) \in DOMAIN NumberOf THEN NumberOf[Head(rest)] ELSE 0

\* The tenths are cut off, towards zero.
Whole(number) == IF number < 0 THEN -((-number) \div 10) ELSE number \div 10

\* What strtol reads of it: digits, within the bounds of a long.
atol(string) ==
    LET number == Leading(string)
        largest == 2^(LongBits - 1) - 1
    IN  IF number = NaN THEN 0 ELSE Max({-largest - 1, Min({Whole(number), largest})})

Truncated(n, bits) == ((n + 2^(bits - 1)) % 2^bits) - 2^(bits - 1)

\* The long is cut to an int.
atoi(string) == Truncated(atol(string), IntBits)

\* strtod: the value, and whether all of the text was read.
strtod(string) ==
    LET rest == Unblanked(string)
    IN  [value |-> Leading(string),
         all |-> Len(rest) = 1 /\ Head(rest) \in DOMAIN NumberOf]

-----------------------------------------------------------------------------
(* The checks.                                                             *)

valid_info(s) == s # <<>> /\ Blank \notin ToSet(s)

\* A slip: one comparison is missing.
RatingAccepted_NoUpper(rating) ==
    LET read == strtod(rating) IN
    read.all /\ (read.value # NaN => ~(read.value < 0))

\* No comparison with NaN is true, and only a true one refuses.
RatingAccepted(rating) ==
    LET read == strtod(rating) IN
    read.all /\ (read.value # NaN => ~(read.value < 0 \/ read.value > 100))

Accepted(command, typed) ==
    CASE command = "add_user" ->
            valid_info(typed.username) /\ valid_info(typed.password)
      [] command \in {"add_movie", "update_movie"} ->
            /\ AllDigits(typed.year)
            /\ typed.description # <<>>
            /\ RatingAccepted(typed.rating)
      [] command = "add_collection" -> typed.title # <<>>
      [] command = "add_movie_to_collection" ->
            typed.collection_id # <<>> /\ typed.movie_id # <<>>
      [] OTHER -> TRUE

-----------------------------------------------------------------------------
(* The object: each of these adds a member or nothing.                     *)

\* json_object_set_string takes UTF-8 only.
SetString(name, string) ==
    IF "latin1" \in ToSet(string) THEN <<>>
    ELSE <<[name |-> <<name>>, value |-> [type |-> "string", of |-> string]]>>

\* json_object_set_number refuses NaN.
SetNumber(name, number) ==
    IF number = NaN THEN <<>>
    ELSE <<[name |-> <<name>>,
            value |-> [type |-> "number", of |-> NumberText(number)]]>>

Members(command, typed) ==
    CASE command = "login_user" ->
            SetString("admin_username", typed.admin_username)
               \o SetString("username", typed.username)
               \o SetString("password", typed.password)
      [] command = "add_user" ->
            SetString("username", typed.username)
               \o SetString("password", typed.password)
      [] command \in {"add_movie", "update_movie"} ->
            SetString("title", typed.title)
               \o SetNumber("year", 10 * atoi(typed.year))
               \o SetString("description", typed.description)
               \o SetNumber("rating", strtod(typed.rating).value)
      [] command = "add_collection" -> SetString("title", typed.title)
      [] command = "add_movie_to_collection" ->
            SetNumber("id", 10 * atol(typed.movie_id))

=============================================================================
