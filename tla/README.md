# Verification of the web library command-line client

This directory models the movie-library client of this repository in TLA+,
checks the models with TLC and proves the central results with TLAPS. The C
program is a loop that reads a command, and a handler per command that opens a
connection to a REST server, sends one HTTP request (`add_collection` sends
several), reads the reply and prints a verdict. What makes it hard to get right
is not the size of any handler but what lies between them: five global pointers
that are checked before a blocking call and written after it, a server that
changes on its own meanwhile, and a byte stream that is cut anywhere.

## The system

| Part | Source | State | Operations |
|---|---|---|---|
| Session state and handlers | `client.c` 14-879 | `admin_cookie`, `user_cookie`, `jwt_token`, `admin_username`, `user_username` | 19 commands |
| Main loop, `read_input` | `client.c` 25-31, 881-913 | the command array, standard input | read a line, cut its last character, dispatch |
| Connection | `helpers.c` 18-70, `buffer.c` | socket, count sent, receive buffer | open, send, receive, close |
| Request composition | `requests.c` | the message array | GET, POST, PUT, DELETE |
| Reply parsing | `helpers.c` 73-105 | none | `extract_cookie`, `json_body`, `server_error` |
| Input validation | `helpers.c` 108-120 and in the handlers | none | names, year, rating, ids |
| JSON library | `parson.c` (vendored) | objects (hash tables), arrays | build, serialise, parse, look up |
| Test harness | `checker.py`, `sample-tests.yaml` | expected values, score | drives the client through a terminal |
| Build | `Makefile` | none | |
| REST server | not in the repository | sessions, tokens, users, movies, collections | external, modelled from its use |

Interactions: the main loop calls one handler at a time. A handler reads its
fields from standard input, checks a global, composes a request with the
credentials in the globals, hands it to the connection and blocks. The server
answers, refuses, closes early or never answers, and expires sessions when it
likes. The reply sets the globals. There are no threads, no callbacks and
nothing on disk; the only concurrency is with the server, with other clients of
it and with the harness on the other side of the terminal.

What makes each part correct:

- *Session*: never two roles at once; the names kept are those of the cookie's
  holder; a cookie is not lost while its session lives; what a request carried is
  still what the client holds when the reply comes; the verdict printed is the
  server's.
- *Main loop*: the function called is the one that was typed.
- *Connection*: the server gets the request's bytes once and in order; a reply is
  returned whole and independently of how it was cut; an exchange ends.
- *add_collection*: a success means that the collection and all its movies are
  there; a failure leaves a prefix of the list.
- *Validation*: what passes the checks arrives as it was typed and within the bounds
  checked.
- *JSON objects*: after any sequence of insertions, removals and rehashes, a name
  is found exactly if it was put there last.
- *Texts*: what the server reads out of a request is what the user typed, and what
  the client reads out of a reply is what the server wrote, or nothing.
- *Harness*: a verdict is about the command it is given for.

The hazards, each with its line and the properties that guard it, are in
`PROJECT.json`.

## The modules

```
Gatekeeper              what the client promises: role, access, one request
   ^ refined by
Client                    all handlers, the process, the server
CommandLoop               standard input, main and read_input
CollectionPromise       what a run of add_collection promises
   ^ refined by
AddCollection             its requests among other clients and kills
JsonMap                 a map from names to values
   ^ refined by
JsonObject                parson's hash table
Exchange                one command from the answers typed to the reply parsed
   = Validation + JsonText + Http
Connection              one exchange over TCP
Harness                 checker.py's dialogue with the client
```

Eight of them have their proofs beside them: `ClientProofs`, `CommandLoopProofs`,
`ConnectionProofs`, `AddCollectionProofs`, `JsonObjectProofs`, `HarnessProofs`,
`TextProofs` (about `Http` and `JsonText`) and `ExchangeProofs`.

`MCCommandLoop`, `MCConnection`, `MCJsonObject`, `MCExchange` and `MCHarness` give
the constants of these modules their values for TLC; `Client` and `AddCollection`
are instantiated by their configurations alone.

### Gatekeeper and Client

`Client` has the five globals under their own names. A handler that talks to the
server is split where it blocks in `receive_from_server`: while `pc` is
`"prompt"` a disjunct of the handler checks its guard and sends (`Transmit`,
`Issue`); once the server has answered, another disjunct handles the reply
(`Finish`, `Conclude`). Between the two the server takes its steps, a session may
expire, and the process may die. `request` is what the running handler has sent,
`reply` what it has received, `report` the verdicts it has printed, `todo` the
movies `add_collection` has still to post.

What the model keeps of the handlers is every guard, the order of the checks,
the set of status lines each handler looks for (there are four such sets:
`Positive`, `Listed`, `Removed`, `Stored`), and every assignment to a global. A
cookie and a token are opaque values the server issues. Prompts, titles, paths
and printed lists are left out, and a local validation is a choice between
accepted and refused input. `End` covers `exit` and every death of the process
inside a handler (a broken pipe, a failed read, a reply without the expected
field), since the code keeps nothing and logs nobody out: `abandoned` is the
history variable that records the cookies so dropped.

The server (external) knows what each cookie and each token stands for. It may
grant a login with a fresh cookie, end a session at a logout, issue tokens,
refuse anything, and end a session on its own. The status line of a granted
request depends on the method; how a `204` is spelled is the constant
`NoContent`, because the handlers disagree about it.

`Gatekeeper` is the same client seen from outside: a role, whether access was
granted, and the kind of the one outstanding request. `GateSpec` is its
specification under the mapping at the end of `Client`; the requests that
`add_collection` repeats are one outstanding request there.

### CommandLoop

`CommandLoop` is `main` and `read_input`. Standard input is a sequence of lines;
`fgets(size, array)` is what the array holds afterwards and `Unread` what is left
of the input. A line longer than the array is cut, and at the end of input the
array keeps what it held. `Fetch` is the top of the loop with the removal of the
last character; `Call`, `RefuseAtOnce` and `NoSuchCommand` are the dispatch;
`read_input` fills the next array of the running handler. `Arrays` has the sizes of
all nineteen handlers, and `MovieArrays` those of the loop in `add_collection`, whose
number comes from an answer. Texts are real strings here, since it is their
lengths and prefixes that matter.

Most handlers look at the session before they ask for anything (`Permitted`, checked
in `Call` and `RefuseAtOnce`), the two logins after (`AskFirst`, checked in `Submit` and
`RefuseAnswers`); only one of the two orders lets an answer be read as a command.
Of the session there is no more here than whether each pointer is `NULL`: a reply may
set or clear what its command can set or clear (`Conclude`), so that the guards depend
on what earlier commands obtained. `Client` has the rest.

`atoi` is a constant operator, since what the library makes of blanks, signs and several
digits matters to one answer only; the proofs need that it is an integer
(`AtoiAssumption`), and the runs give it the values of the answers they use.

`Texts` are the parts of what may be typed or left in an array. The provers know
nothing of the characters of a string, so `StringsAssumption` states the few facts
about texts that the proofs use (parts of texts are texts, only the empty one has
no characters, and a line without its last one is what was typed), and TLC
evaluates it on each run; `WordsAssumption` says that what is typed on one line has no newline in it.

The user types ahead without looking, a command and then the answers that
`Expected` (from `checker.py`) says it takes, and may begin afresh at an idle
prompt. `astray` is history: since the client last was idle, a line was cut, the
input ended or a handler returned before its prompts, so that user and client
may disagree about which line answers what. `answered` is history too: each array that
the running handler has filled holds what was typed for its own prompt, whole.

### Connection

`Connection` is one exchange. `send_to_server` writes any part of what is left
until its count reaches the length, adding whatever `write` returns, -1
included. `receive_from_server` has its two loops as `ReadHeader` and `ReadBody`:
each read returns what has arrived, at most `MaxRead` pieces, and the whole
buffer is searched again for the blank line and for the length field, which
`buffer_find` finds anywhere, in the body too. At the end of the stream a read
returns 0 and changes nothing (`ReadAtEnd`). A reply is a sequence of pieces in
which the line end, the field name and each digit are pieces, so that a read can
cut between the two line ends and between the digits.

`strtol` skips line ends before it takes digits, and takes no digit for 0. Behind a
length field that is empty it therefore goes on over the blank line and reads what the
body begins with. What it reads at the very end of the buffer may go on in the memory
behind it, as the buffer is terminated only when the exchange is over: `strtol` is then
a set of values, one for each stray digit that may lie there. Those cases are in the
run (`EmptyLengths`), and the properties claim nothing of them: `CompleteReply` and
`ExchangeEnds` are about replies whose header has a length with digits (`HasLength`).

### Exchange, with Validation, JsonText and Http

`Exchange` follows one command through every text it passes: the answers typed,
the check on them, the object, its JSON text, the request, the server's reading
of both, the reply, and what the client takes out of it. Ten commands stand for
the nineteen, with every method and every kind of body. The three modules it is
made of are pure operators:

- `Validation`: the checks of the handlers that make any; `atoi`, `atol` and
  `strtod` with the blanks they skip, the widths `IntBits` and `LongBits`, the bounds of
  a long at which `atol` stops and the cut of a long to an int; and what
  `json_object_set_string` and `_number` refuse: bytes that are not UTF-8, and
  NaN. The handlers do not look at their results, so the member is missing.
- `JsonText`: parson's serialiser (`Serialized`) and its parser
  (`json_parse_string`) over a text of pieces, with the escapes, surrogate pairs,
  the nesting limit, repeated names, the comma that parson tolerates before a
  closing bracket, and the mark of the byte order that it skips. The serialiser's
  `newline` and `ascii` also give it the layouts of other programs, for what the server
  writes.
- `Http`: the four functions of `requests.c`, `extract_cookie` and `json_body`; and,
  external, how a server reads a request and writes a reply.

What the C code does by recursion and in loops is written in `JsonText` as
recursive functions: the serialiser is one on values (`Layout` is its body for one
value), the readers are functions on texts, and `parse_value[nesting]` is defined by
`Nested` from `parse_value[nesting + 1]`. parson's pointer into the text is the text
that is left from there on. `Value` are the values that nest at most `Deepest` deep,
repeated names and `'\0'` in names included; `WellFormed` are those that the parser
must not refuse: within `MaxNesting`, no name twice, none with a `'\0'`.

A number is written and read figure by figure. `IsNumeral`, a constant operator, says
which texts `strtod` takes for a number as a whole, and `Taken` is its rule: it takes the
longest such text there is. `parse_number_value` then refuses what is not decimal
(`is_decimal`: a leading zero, hexadecimal) and what overflows (`Huge`). It follows, as
in the code, that a number alone is not protected by its end: what comes behind may make
another number of it, and a part of it is one.

What `Exchange` assumes of its constants is evaluated by TLC too: what is typed is a
text and what the handlers send and the server says are values, ids that go into
a path do not have ` HTTP/1.1` in them (`PathsAssumption`; no handler looks for it),
and a cookie has no `;`, no line end and no field's name in it.

The texts are sequences of pieces: a field's tag, a line end, a literal, the four
digits of an escape or a character is one piece, and a length counts pieces. What is
typed at a prompt is the exception: a number is one piece there (`NumberOf`), counted in
tenths, and `NumberText` gives the figures that parson writes for it. The server may
answer `get_movies` with any of a set of nested values, in four layouts, and something
may become of the body on its way (`Damaged`): a mark of the byte order before it, an end
too early, a figure or something else behind it, a piece lost. Other replies are small.
`Positive` has the status lines that each handler looks for; a reply without content
(204) has a body here that nobody reads (`Reading`). The
handler's guard is `Held`; what it does to the session is `Client`'s, and how the
bytes travel is `Connection`'s.

### AddCollection

One request makes the collection and one more per movie fills it. Between any two
of them the server refuses, other clients of the same user delete the collection
or a movie or make their own, or the process is killed and `add_collection` is run
anew while its last request is still under way (`requests` is a set: the server
may handle them in either order). The reply to a creation may have no id, which
the code reads as 0. `CollectionPromise` says what one run promises: a beginning of
its list, in order, in its own collection, nothing after the verdict, and success
only for all of it. The code's own exception is part of it: success is also told
when the collection was never made (run `client_collection`).

### JsonObject

The object's table as `parson.c` has it: cells that hold item numbers, items
without gaps that remember their cells, growth at seven tenths by copying into a
table of twice the size (`Grow`, `Rehash`, `EndGrow`), and removal that puts the last
item in the gap and moves later cells back (`Remove`, `Shift`, `EndShift`). Both loops
are taken step by step, so that the invariants speak of the states inside them.
`json_object_set_value` and `json_object_add` differ in when they look a name up and
in what they do with one that is there. Memory may run out for the larger table
and for the copy of a name. `JsonMap` is the map it implements. No handler removes a
member: that half of the table is part of the library's promise, and is kept because
each of the two loops has to live with what the other leaves behind.

### Harness

`checker.py` types a command, waits for its prompts, answers them, collects the
output and gives a verdict. It knows the end of a command by half a second of
silence only. The client prints a verdict, both (a refused collection) or none (a
second login), and it may die of a command (`Dies`): the harness then reads to the end of
the file and ends the script (`EndOfFile`). A script is one list of tasks, run with
`--ignore`. `late` says whether the client may take longer than the harness
waits; `VerdictsTrue` is about runs where it does not, `ScriptEnds` about all.

## The runs

| Run | Instance | What it shows |
|---|---|---|
| `client` | 2 cookies, 2 tokens, 2 users, lists of up to 2 movies | type, the five safety invariants (a request carries the credentials of its own role, and those still held), two action properties, the refinement of Gatekeeper, and that commands end and either logout logs out; 109,623 states |
| `client_token` | as above | finding: `logout_user` keeps the token (README.md:40 says otherwise) |
| `client_nocontent` | the other spelling of 204 | finding: a granted deletion is reported as an error |
| `client_collection` | lists of up to 1 | finding: a refused creation prints an error and a success |
| `command_loop` | all 20 commands and the empty line, five answers, two lines typed ahead | user and client stay in step, and a request is made of the answers typed for it, each at its own prompt, unless a line is cut, a command refused or the input ends; nothing is written before the array while input lasts; a typed `exit` ends the process; after the end of input no requests are sent for ever; 565,881 states |
| `command_loop_end` | 6 commands, two answers | finding: at the end of input functions are called that nobody typed |
| `connection` | request of 3 bytes, reads of at most 3 pieces, replies of 4 to 16 pieces | request intact under every cut, close and reset; a reply with a length in its header is returned complete and its end computed right, and its exchange ends if the server does not close early; empty lengths and lengths in the body are among the replies |
| `connection_nolength` | a 204 without a Content-Length | finding: a complete reply is never returned |
| `json_object` | 4 names, 2 values, tables of 4 and 8 cells | every item is found, none is lost inside the loops, a cell is always free, and the table is a map; 29,311 states |
| `exchange` | 10 commands; int of 8 bits, long of 16; nesting up to 2, values nested to 3 | what the server reads is what the handler meant and the user typed; ratings, years and names arrive as typed and within what is checked; cookie, token and body are taken whole; replies in any layout are read, cut ones refused but for numbers; 1,024,667 states |
| `add_collection` | 2 movies, 2 runs, 2 collections | whatever others do and wherever a run is killed, a collection has a beginning of its own list; success means all of it; a run ends; 545,748 states |
| `harness` | a script of 4 commands with and without prompts, 2 tries | an error is attributed to the command that printed it if answers are in time; the script ends however late they are and if the client dies; 5,566 states |

Bounds. Two cookies allow a session and the one after it, so that a stale token,
its session and the next user's cookie meet; cookies are never reissued, so they
bound the number of logins in a behaviour, across relaunches. Two tokens allow
one to be kept from an earlier session while another is issued. Two user names
distinguish an earlier user's name from the present one's. Lists of two movies
have a first, a last and a step between. In `command_loop`, a typed line can be at
most one behind another that is not read yet (`MaxAhead` = 2), which is enough for
a line to be taken for another; the answers are empty, a number, 48 characters
(the longest that fits into 50 with its newline), 49, and one whose rest after the
cut is a command. The number typed for `num_movies` is at most 2. In `connection`,
three bytes allow a write to be cut twice, and `MaxRead` = 3 is less than any
header, so that a header takes several reads and a read may hold the end of the
header with a part of the body. The replies include an empty body, one that looks
like a header, one longer and one shorter than announced, a two-digit length, one
with a leading zero, empty ones before a body that begins with a digit and before none,
and replies without a length whose body has one.

In `json_object`, a table of 4 cells takes two items and one of 8 five, so that
four names make it grow once; two of them are at home in the last cell of either
table and the others in the cells before and after, so that probes and removals
wrap round its end. `MaxCells` = 8 is where memory runs out for good. In
`exchange`, the numbers typed lie on both sides of each bound that is checked, of
the largest int and of the largest long, and come behind blanks and before letters;
the server's numbers have a sign, a point and an exponent, and those cut, continued or
damaged include one with a leading zero and one that no double of the instance holds
(`TooLarge`); the texts hold every character that is
escaped, one that takes a pair of surrogates, one that is not UTF-8 and a blank;
values are nested one deeper than is allowed; names repeat, and one has a `'\0'`
in it. In `add_collection`, two runs let a request of a killed one arrive in the
next, and two collections let one of them, or another client's, be the wrong one.
In `harness`, the script has a command of either kind before and after one of
either kind.

`CHECK_DEADLOCK FALSE` is set where the system really stops: an exchange ends
(`Connection`, `Exchange`), the runs of `add_collection` are used up, and a script
comes to its end.

Fairness. In `Client`, a handler whose reply has come runs on (it is sequential
code), and the server answers in the end: liveness under a server that never
answers would be false, since the code has no timeout. Nothing makes the user
type a command, the server expire a session, or the process end or start. In
`CommandLoop`, the process runs on and its requests end; nothing makes the user
type or close the input. In `Connection`, the client runs and the server sends all
of its reply unless it closes; nothing is assumed about closing and resetting. In
`AddCollection`, the client goes on and the server handles requests; nothing makes
others delete or the process die. In `Harness`, both processes run, and a wait
times out if nothing comes.

Each property of a passing run has a mutant in `PROJECT.json`, a definition (marked
"A slip" in the modules) that changes one operator the way a plausible bug would
and that makes TLC report that property violated.

Read off the models, without a run of their own:

- The year is checked to be digits only. `atoi` cuts it to an int, so a large one is
  sent as another number, possibly a negative one, although `src/README.md:17`
  speaks of "validating numeric ranges for years and ratings". `YearKept`, a part of
  `InputKept`, is therefore about years that fit an int.
- The rating `nan` passes both comparisons (`client.c:373`) and is then refused by
  `json_object_set_number`: the movie is sent without a rating. `RatingKept` has it
  as its exception, and `StringsArrive` the strings that are not UTF-8.
- `extract_cookie` computes with a null pointer when no `;` follows the cookie. The
  cookies in `exchange` all have attributes (`CookieEnds`).
- A reply that is a number and nothing else is read as another number when its end is
  missing or a digit follows it; `parson` cannot tell. The replies that the handlers parse are arrays and objects.
- A length field with no digits makes `strtol` read on behind the blank line.
- `get_movie` reads as a string the rating that `add_movie` sends as a number.

## The proofs

Every theorem below holds for every value of its module's constants that the
module's named assumptions allow; TLC evaluates those on every run of the module.

### ClientProofs

`Invariance` (`Spec => []IInv`) gives `TypeCorrect`, `RolesExclude`, `IdentityKept`,
`SessionsAccounted`, `TokenAccounted` and `CredentialsCurrent`, the invariants of run
`client`; `CookiesKept` and `VerdictsAgree` are its two action properties, and
`ImplementsGatekeeper` is `Spec => GateSpec`.

The properties are not inductive one by one. That a login's reply may write
`user_cookie` without creating a second role depends on what was checked before
the request was sent, so `IInv` says what holds while a request is in flight: a
login is in flight only with no cookie held (`LoginAlone`); other requests carry
the cookie or token still held (`CookieOfRole`); a positive reply means what its
request asked for (`LoginReply`, `LogoutReply`, `AccessReply`); only lines a
session command looks for come back to it (`StatusKnown`); and a session that is
live or has a token was opened, so a fresh cookie has neither (`SessionsOpened`).
The proof has a lemma for each building block (`Return`, `Transmit`, `Finish`),
one for each handler that changes the session, one for the others together, and
one for each step of the process and the server. The refinement proof has the
same shape.

`VerdictsAgree` needs an invariant of its own, `ReplyFits`: the reply a handler looks
at is one that the server grants this very request with, or an error. Each
handler then looks for all of the lines its request can be granted with
(`LinesLookedFor`). For the deletions this is so only if `NoContent` is spelled the
way they spell it; the theorem has that as its hypothesis, and run
`client_nocontent` shows what happens otherwise.

Assumptions: `NULL` is no cookie, token or name; `MaxMovies` is a natural number;
`NoContent` is one of its two spellings.

### CommandLoopProofs

`TypesKept`, `CommandsAreCommands` (`InStep`), `NoUnderflowBefore` and `AnswersKept`
(`AnswersAsTyped`), for every set of words and answers, whatever the arrays hold,
whatever `atoi` makes of an answer and however far the user types ahead.

`InStep` speaks of the line just read; what makes it true is about the lines not
read yet. `Agreed` says that, while nothing has gone astray, there is a list of
prompts before and after each of those lines (`Traces`) that begins with what the
client has still to ask (`Need`) and ends with what the user has still to answer
(`due`), each line being what the prompts before it call for. Typing adds one at
the end, reading takes one from the front. `AnswersAsTyped` follows from the same lists:
while nothing has gone astray a handler that has asked for everything has left none of
its answers to be read. `UnderflowOnlyAtEnd` needs that lines are never empty (`Typed`).

### ConnectionProofs

`TypesKept`, `RequestArrivesIntact` and `RepliesAreWhole`, for every length of request,
every set of replies and every size of read. `RepliesAreWhole` claims nothing of a reply whose
header has no length, or one without digits (`HasLength`).

`RequestIntact` needs `Counted`: until a write has failed, the count is the number
of bytes taken. `CompleteReply` needs `Taken`, that the buffer is what has arrived,
and a fact about searches: the first place of a pattern in the beginning of a
reply is its first place in the whole, so that searching the buffer after every
read finds what searching the reply would (the least place exists because `<` is
well-founded on the naturals). The value that `strtol` reads off a buffer that is
cut between two digits is the part of the argument that depends on the code: by
the time the blank line has been found, the digits before it are complete.

### AddCollectionProofs

`OwnMoviesOnly`, `SuccessIsComplete` and `KeepsPromise` (`PromiseSpec`), for every list and
any number of movies, runs and collections.

What is in a collection depends on a request that may arrive long after the run
that sent it was killed. So `IInv` says of every request still under way that its
run has no other and has told no outcome (`OfARun`), that a creation has made
nothing yet (`NotYetMade`), and that a movie is the next of its own list and goes
to its own run's collection (`NextOfList`); of the run in progress, what it has
under way (`UnderWay`), that it knows its collection unless the reply named none
(`KnownId`), and that its counter is the number of movies in it (`Counted`).

### JsonObjectProofs

`TypesKept`, `ItemsFound`, `NoItemLost`, `FreeCellLeft` and `TableIsMap` (`MapSpec`), for
every set of names, every hash function and every capacity.

Findability is brought back to cells: an item is found if no cell on the way from
its name's home to its own cell is empty (`WaysKept`, a part of `Sound`). Insertion
only fills cells. In the loop of removal the cell to be overwritten is a hole, and
`Shifting` says that all cells looked at so far are occupied, that some cell is not,
and that no item looked at is reached by way of the hole: the test by which the
code decides to move a cell back is what keeps this. While the table grows, the new
one is sound and holds a beginning of the old one's items (`Growing`). The
refinement maps the table to the function from its names to their values.

### HarnessProofs

`VerdictsAreTrue`, for every script and every number of tries, in runs where the client
dies as well. `IInv` claims nothing of
runs in which an answer may be late; of the others it says, for each stage of
the harness, where the client can be and what can be on the screen (`Phase`): both
are at the same command, and at most one line, `add_collection`'s second verdict,
is left over from the command before.

### TextProofs

About `Http`:

- `RequestUnderstood`: whatever a handler passes to the four functions of
  `requests.c`, the server reads the same method, path, cookie, token and body out
  of the message.
- `CookieExtracted`: `extract_cookie` takes the cookie out of a reply, whichever field
  comes first, whatever stands behind the cookie and in the body.
- `BodyExtracted`: `json_body` takes the body out of a reply, whatever is in it.

They hold for texts of any length. The pieces by which a reader finds its way
must not occur in a path, a cookie, a token or a status line (a body may have
anything in it), a length must not look like one of them, and what the server
writes behind a cookie begins with `;` (`CookieEndsAssumption`). The argument is that
a message is joined of lines that are neither empty nor have a line end inside
(`Block`), so that the first blank line ends the head, and that a field which one
part carries is read wherever that part stands (`Carries`, `Reads`), while one that
no part has is not found (`Free`).

About `JsonText`:

- `WrittenIsRead`: the text that is written of a value, with anything behind it, is
  read as that value, and what is behind is left over; if the value is not well
  formed, the text is refused. For every value, style and limit on nesting. If the value
  is itself a number, what is behind must not begin with a figure.
- `CutIsRefused`: what is left of such a text when its end is missing is refused, unless
  the value is itself a number (numbers inside it are covered: without its bracket no
  array or object is read).
- `ReadWithMore`: a text that is read is read as the same if more follows; if a number was
  read, what follows it must not begin with a figure.
- `ReadIsWellFormed`: whatever text is accepted, what is made of it keeps to the
  limit and names no member twice.

They hold for texts of any length and values of any size and depth, by induction.
Two things have to be shown first. That a recursive definition is the function its
equation describes: a `CHOOSE` says nothing until such a function is known to exist,
which `RecursionOnRank` shows of every definition that refers to itself at a lower
rank only (`UsesLesser`): the length of the text, the levels left of `MaxNesting`, the
depth of the value. And that induction may be used at all: the library's
induction theorems take an operator, so `RankInduction` states it about a set
instead (a set that contains every element all of whose lesser ones it contains,
contains all), from the well-founded order of the library.

- What is accepted: every reader gives a failure or a value and a text no longer than
  its own (`Outcome`, `Advances`), `Elements` by induction on the length of the text,
  `parse_value` on the levels left. `Left(nesting)` are the values that may still
  stand at a level.
- More text: `Extends` says of a reader that it reads the same of a longer text. Each
  reader extends if those it calls do; `parse_value` again by the levels left.
- What is written: `Returns` says that a value's text is read back as the value. A
  string's does because no escape contains an unescaped quote and each is read as one
  character, so that `skip_quotes` stops at the closing quote; a number's because the
  longest numeral that stands there is the one that was written, as the comma, bracket
  or blank behind it is no figure; a container's because
  each of its parts does (`ReadsParts`), with the blanks, commas and brackets between
  them; all of them by induction on the depth of the value (`ValueRead`).
- What is cut: were the rest read, `ReadWithMore` would give of the whole text that
  same value with something left over, where `WrittenIsRead` leaves nothing.

The readers' own lemmas are stated about any reader of the inner values (`value` in
`Elements`, `Container` and `parse_field`), so that the recursion over nesting levels
enters at one place only.

### ExchangeProofs

`ReadAsMeantAlways`, `CredentialsTakenAlways`, `BodyTakenAlways`, `StringsArriveAlways`,
`InputKeptAlways`, `ReplyReadAlways`, `CutRefusedAlways` and `WithinLimitsAlways`: the
eight invariants of run `exchange`, for whole commands and for every set of texts
that may be typed, held and replied, every width of int and long, every limit on
nesting and every layout.

`IInv` follows the message from phase to phase: the request on the connection is
the one that accepted answers compose (`Underway`); what the server decodes is the
text of the object (`ObjectSound`); the reply is made of fields with the cookie, or
of a body with the token (`CookieSent`, `CookieNotSent`); and a body that is parsed
is never that of a granted login (`ParsingSound`), which is why no granted cookie is
missed. The steps that read a text are `TextProofs`'s theorems. `InputKept` needs what
the conversions do: digits have no blank to be skipped before them, and those that
make a number below 2^(IntBits - 1) come through `atol`, its bounds and the cut to an int
unchanged (`YearConverted`); a rating that is accepted has nothing behind its number, so
that the text's last piece is what is sent, blanks before it or not.

A second invariant, `BodyInv`, is about the bodies: the body of a reply is what its
value is written as, but for the damage done to it (`OriginSound`), and the result is
what parson reads of that body (`ResultSound`). The last step needs from `IInv` that
the text which is parsed is the body. `BodyInv` and the JSON theorems of `TextProofs`
give `ReplyRead`, `CutRefused` and `WithinLimits`. That the server decodes the object a
handler sends needs that the object is well formed: no handler sets a member twice
(`MembersOnce`), and no member's name has a `'\0'` (`ObjectRead`).

`ReplyRead` and `CutRefused` exempt what the code cannot tell: a body that is a number and
nothing else, with a figure behind it or its end missing.

One hypothesis is stated with the theorems, since TLC could not evaluate it.
`LengthsWritten`: a length is written as one piece, none of those that a reader looks for.

### What is model-checked only

- Liveness: `LogoutReleases` and `CommandEnds` of `Client`, `ExitObeyed` and `SilentAtEnd` of
  `CommandLoop`, `ExchangeEnds`, `RunEnds` and `ScriptEnds`. Fairness is out of the
  prover's reach.

Every invariant and every other action property of the passing runs is stated by a
theorem.

## The plan

What is worth doing next: a theorem that the session from which `Exchange` reads its
cookie and token is `Client`'s, so that the two modules' invariants hold of one
state; and lengths in bytes, so that the sizes of the message arrays become a
property.

## Not modelled

- The text of prompts and of printed lists, and the colour, scores, options and
  object comparison of `checker.py`: no property is about them.
- Of `parson.c`, what no handler calls: dotted names, validation against a schema,
  comparison, copying, comments, files. Of what is called, the bytes of UTF-8 and
  the letters of a literal, which are one piece here, and what `strtod` makes of a
  numeral: a number in a JSON text is told by its figures.
- Ids in a path that a server would take for the end of it: `PathsAssumption` leaves out
  ids with ` HTTP/1.1` in them, and the server modelled here ends a path there only.
- Of `checker.py`, subtasks inside a script and runs without `--ignore`.
- The sizes of the message arrays in `requests.c`: what happens beyond them is
  undefined, and the texts of `Exchange` have no length in bytes.
- A positive reply whose body lacks the field the handler reads: the handler
  passes on a null pointer; in `Client` that is one of the ways the process dies.
- The `Makefile`.
