---------------------------- MODULE HarnessProofs ----------------------------
(***************************************************************************)
(* Proofs about Harness, for every script and every number of tries.       *)
(***************************************************************************)
EXTENDS Harness, SequenceTheorems, TLAPS

\* What a failed command may leave on the screen: add_collection's second line.
Left == {<<>>, <<"SUCCESS">>}

\* What may be on the screen, and not yet read, once the command has ended so.
Unread(how) ==
    CASE how = "SUCCESS" -> {<<>>, <<"SUCCESS">>, <<"SUCCESS", "SUCCESS">>}
      [] how = "ERROR"   -> {<<"ERROR">>, <<"SUCCESS", "ERROR">>}
      [] how = "both"    -> {<<"ERROR", "SUCCESS">>}
      [] how = "silent"  -> {<<>>}

Results == {"SUCCESS", "ERROR", "both", "silent"}

Idle == running = 0 /\ typed = <<>>

\* The command is typed and the client has not read it yet.
Typed == /\ running = 0 /\ typed = <<task>>
         /\ screen \in Left /\ outcome[task] = NULL

\* It has prompted, and the harness has not seen the prompt yet.
Asked == /\ running = task /\ typed = <<>>
         /\ screen \in {<<"prompt">>, <<"SUCCESS", "prompt">>}
         /\ outcome[task] = NULL

\* It has been given its answers.
Answered == /\ running = task /\ typed = <<Parameters>>
            /\ screen = <<>> /\ outcome[task] = NULL

\* It has no prompts, and runs.
Unasked == /\ running = task /\ typed = <<>>
           /\ screen \in Left /\ outcome[task] = NULL

Ended == Idle /\ outcome[task] \in Results /\ screen \in Unread(outcome[task])

\* Harness and client are at the same command.
Phase ==
    CASE stage = "type"   -> task \in Tasks /\ Idle /\ screen \in Left /\ outcome[task] = NULL
      [] stage = "over"   -> Idle \/ ~alive
      [] stage = "params" -> /\ task \in Tasks /\ Asks[task]
                             /\ Typed \/ Asked \/ (Ended /\ outcome[task] = "ERROR")
      [] stage = "flush"  -> /\ task \in Tasks
                             /\ \/ Ended
                                \/ Asks[task] /\ Answered
                                \/ ~Asks[task] /\ (Typed \/ Unasked)

TypeOK ==
    /\ task \in 1..Len(Asks) + 1
    /\ stage \in {"type", "params", "flush", "over"}
    /\ verdict \in [Tasks -> {"passed", "failed", NULL}]
    /\ outcome \in [Tasks -> Results \cup {NULL}]

\* Nothing is known of the commands that have not been typed.
Ahead == \A t \in Tasks : /\ t > task => outcome[t] = NULL
                          /\ t >= task => verdict[t] = NULL

Steady == TypeOK /\ Phase /\ Ahead /\ VerdictsTrue

\* Of runs in which the client may be late nothing is claimed.
IInv == late \in BOOLEAN /\ (~late => Steady)

-----------------------------------------------------------------------------
(* Lines on the screen.                                                    *)

\* A line after another.
LEMMA TwoLines == ASSUME NEW x, NEW y PROVE <<x>> \o <<y>> = <<x, y>>
<1> DEFINE S == {x, y}
           s == <<x>>
           t == <<y>>
           both == <<x, y>>
<1>1. s \in Seq(S) /\ t \in Seq(S) /\ Len(s) = 1 /\ Len(t) = 1 /\ s[1] = x /\ t[1] = y
  OBVIOUS
<1>2. both \in Seq(S) /\ Len(both) = 2 /\ both[1] = x /\ both[2] = y
  OBVIOUS
<1> HIDE DEF s, t, both, S
<1>3. /\ s \o t \in Seq(S) /\ Len(s \o t) = Len(s) + Len(t)
      /\ \A i \in 1..Len(s) + Len(t) : (s \o t)[i] = IF i <= Len(s) THEN s[i] ELSE t[i - Len(s)]
  BY <1>1, ConcatProperties
<1>4. Len(s \o t) = 2 /\ (s \o t)[1] = x /\ (s \o t)[2] = y
  BY <1>1, <1>3
<1>5. \A i \in 1..Len(s \o t) : (s \o t)[i] = both[i]
  BY <1>2, <1>4
<1>6. s \o t = both
  BY <1>2, <1>3, <1>4, <1>5, SeqEqual
<1> QED
  BY <1>6 DEF s, t, both

\* A line printed after what was left.
LEMMA Printed ==
    ASSUME NEW s \in Left, NEW x
    PROVE  /\ s \o <<>> = s
           /\ s \o <<x>> = IF s = <<>> THEN <<x>> ELSE <<"SUCCESS", x>>
<1>1. CASE s = <<>>
  BY <1>1
<1>2. CASE s = <<"SUCCESS">>
  <2>1. <<"SUCCESS">> \o <<x>> = <<"SUCCESS", x>>
    BY TwoLines
  <2>2. <<"SUCCESS">> \in Seq({"SUCCESS"})
    OBVIOUS
  <2>3. <<"SUCCESS">> \o <<>> = <<"SUCCESS">>
    BY <2>2, ConcatEmptySeq
  <2>4. <<"SUCCESS">> # <<>>
    OBVIOUS
  <2> QED
    BY <1>2, <2>1, <2>3, <2>4
<1> QED
  BY <1>1, <1>2 DEF Left

\* Taking a line from the screen.
LEMMA FirstLine ==
    \A x, y : /\ Head(<<x>>) = x /\ Tail(<<x>>) = <<>> /\ <<x>> # <<>>
              /\ Head(<<x, y>>) = x /\ Tail(<<x, y>>) = <<y>> /\ <<x, y>> # <<>>
OBVIOUS

\* The positions in a line or two.
LEMMA Positions ==
    \A x, y : /\ DOMAIN <<x>> = {1} /\ DOMAIN <<x, y>> = {1, 2}
              /\ Len(<<x>>) = 1 /\ Len(<<x, y>>) = 2
OBVIOUS

\* Nothing stands behind the line that matters.
LastOf(s, x) ==
    \A n \in DOMAIN s :
        s[n] \in {"ERROR", "prompt"} => s[n] = x /\ SubSeq(s, n + 1, Len(s)) = <<>>

\* It is the only one, or stands behind what was left.
LEMMA LastLine ==
    ASSUME NEW x, x # "SUCCESS"
    PROVE  LastOf(<<x>>, x) /\ LastOf(<<"SUCCESS", x>>, x)
<1>1. SubSeq(<<x>>, 2, 1) = <<>> /\ SubSeq(<<"SUCCESS", x>>, 3, 2) = <<>>
  BY SubSeqEmpty
<1>2. LastOf(<<x>>, x)
  BY <1>1, Positions DEF LastOf
<1>3. LastOf(<<"SUCCESS", x>>, x)
  <2> DEFINE s == <<"SUCCESS", x>>
  <2>1. DOMAIN s = {1, 2} /\ Len(s) = 2 /\ s[1] = "SUCCESS" /\ s[2] = x /\ SubSeq(s, 3, 2) = <<>>
    BY <1>1, Positions
  <2> HIDE DEF s
  <2>2. LastOf(s, x)
    BY <2>1 DEF LastOf
  <2> QED
    BY <2>2 DEF s
<1> QED
  BY <1>2, <1>3

-----------------------------------------------------------------------------
(* Where the client is.                                                    *)

\* The script has a first command or none.
LEMMA Script ==
    /\ Len(Asks) \in Nat /\ Tasks = 1..Len(Asks)
    /\ \A t \in Tasks : Asks[t] \in BOOLEAN /\ t \in Nat /\ t # 0
    /\ Asks # <<>> => 1 \in Tasks
<1>1. Asks \in Seq(BOOLEAN)
  BY ScriptAssumption
<1>2. Len(Asks) \in Nat /\ Tasks = 1..Len(Asks)
  BY <1>1, LenProperties DEF Tasks
<1>3. \A t \in Tasks : Asks[t] \in BOOLEAN
  BY <1>1, <1>2, ElementOfSeq
<1>4. Asks # <<>> => 1 \in Tasks
  BY <1>1, <1>2, EmptySeq
<1> QED
  BY <1>2, <1>3, <1>4

\* What it reads next is the command the harness is at.
LEMMA WhenTyped ==
    ASSUME Steady, alive, running = 0, typed # <<>>
    PROVE  /\ task \in Tasks /\ task # Parameters /\ outcome[task] = NULL /\ screen \in Left
           /\ Head(typed) = task /\ Tail(typed) = <<>>
           /\ (stage = "params" /\ Asks[task]) \/ (stage = "flush" /\ ~Asks[task])
<1>1. stage \in {"params", "flush"} /\ task \in Tasks /\ Typed
  BY Script DEF Steady, TypeOK, Phase, Typed, Asked, Answered, Unasked, Ended, Idle
<1>2. stage = "params" => Asks[task]
  BY DEF Steady, Phase
<1>3. stage = "flush" => ~Asks[task]
  BY <1>1, Script DEF Steady, Phase, Typed, Answered, Ended, Idle
<1>4. Head(<<task>>) = task /\ Tail(<<task>>) = <<>>
  BY FirstLine
<1> QED
  BY <1>1, <1>2, <1>3, <1>4, Script DEF Typed, Parameters

\* What it runs is the command the harness is at.
LEMMA WhenRunning ==
    ASSUME Steady, alive, running # 0
    PROVE  /\ task \in Tasks /\ running = task /\ outcome[task] = NULL
           /\ \/ stage = "params" /\ Asks[task] /\ Asked
              \/ stage = "flush" /\ Asks[task] /\ Answered
              \/ stage = "flush" /\ ~Asks[task] /\ Unasked
<1>1. stage \in {"params", "flush"}
  BY DEF Steady, TypeOK, Phase, Idle
<1>2. CASE stage = "params"
  BY <1>2 DEF Steady, Phase, Typed, Asked, Ended, Idle
<1>3. CASE stage = "flush"
  BY <1>3 DEF Steady, Phase, Typed, Answered, Unasked, Ended, Idle
<1> QED
  BY <1>1, <1>2, <1>3

\* When a command ends the verdicts on those before it stay true.
LEMMA ClientKeeps ==
    ASSUME Steady, ~late, UNCHANGED <<late, harness>>, task \in Tasks, outcome[task] = NULL,
           \/ outcome' = outcome
           \/ \E how \in Results : outcome' = [outcome EXCEPT ![task] = how]
    PROVE  TypeOK' /\ Ahead' /\ VerdictsTrue'
<1>1. TypeOK'
  BY DEF Steady, TypeOK, harness
<1>2. Ahead'
  BY Script DEF Steady, Ahead, TypeOK, harness
<1>3. verdict[task] = NULL
  BY Script DEF Steady, Ahead
<1>4. VerdictsTrue'
  BY <1>3, NullAssumption DEF Steady, TypeOK, VerdictsTrue, harness
<1> QED
  BY <1>1, <1>2, <1>4

-----------------------------------------------------------------------------
(* The client's steps.                                                     *)

LEMMA StartSteady == ASSUME Steady, alive, ~late, Start, UNCHANGED late PROVE Steady'
<1>1. /\ running = 0 /\ typed # <<>> /\ running' = Head(typed) /\ typed' = Tail(typed)
      /\ screen' = screen \o IF Asks[running'] THEN <<"prompt">> ELSE <<>>
      /\ UNCHANGED <<task, stage, tries, buf, verdict, outcome>>
  BY DEF Start, Show, harness
<1>2. /\ task \in Tasks /\ outcome[task] = NULL /\ screen \in Left
      /\ Head(typed) = task /\ Tail(typed) = <<>>
      /\ (stage = "params" /\ Asks[task]) \/ (stage = "flush" /\ ~Asks[task])
  BY <1>1, WhenTyped
<1>3. TypeOK' /\ Ahead' /\ VerdictsTrue'
  BY <1>1, <1>2, ClientKeeps DEF harness
<1>4. CASE stage = "params" /\ Asks[task]
  <2>1. Asked'
    BY <1>1, <1>2, <1>4, Printed DEF Asked
  <2> QED
    BY <1>1, <1>2, <1>3, <1>4, <2>1 DEF Steady, Phase
<1>5. CASE stage = "flush" /\ ~Asks[task]
  <2>1. Unasked'
    BY <1>1, <1>2, <1>5, Printed DEF Unasked
  <2> QED
    BY <1>1, <1>2, <1>3, <1>5, <2>1 DEF Steady, Phase
<1> QED
  BY <1>2, <1>4, <1>5

\* A handler that refuses at once answers the command the harness waits for.
LEMMA GuardSteady == ASSUME Steady, alive, ~late, Guard, UNCHANGED late PROVE Steady'
<1>1. /\ running = 0 /\ typed # <<>> /\ End(Head(typed), "ERROR") /\ typed' = Tail(typed)
      /\ UNCHANGED <<task, stage, tries, buf, verdict, running>>
  BY DEF Guard, harness
<1>2. /\ task \in Tasks /\ outcome[task] = NULL /\ screen \in Left
      /\ Head(typed) = task /\ Tail(typed) = <<>>
      /\ (stage = "params" /\ Asks[task]) \/ (stage = "flush" /\ ~Asks[task])
  BY <1>1, WhenTyped
<1>3. outcome' = [outcome EXCEPT ![task] = "ERROR"] /\ screen' = screen \o <<"ERROR">>
  BY <1>1, <1>2 DEF End, Show
<1>4. TypeOK' /\ Ahead' /\ VerdictsTrue'
  BY <1>1, <1>2, <1>3, ClientKeeps DEF harness, Results
<1>5. Ended' /\ outcome'[task] = "ERROR"
  <2>1. outcome'[task] = "ERROR"
    BY <1>2, <1>3 DEF Steady, TypeOK
  <2>2. screen' \in Unread("ERROR")
    BY <1>2, <1>3, Printed DEF Unread
  <2> QED
    BY <1>1, <1>2, <2>1, <2>2 DEF Ended, Idle, Results
<1> QED
  BY <1>1, <1>2, <1>4, <1>5 DEF Steady, Phase

\* No line is left for the client to ignore when it is idle and in time.
LEMMA IgnoreSteady == ASSUME Steady, alive, ~late, Ignore PROVE FALSE
BY WhenTyped DEF Ignore

\* A verdict is printed for the command the harness waits for.
LEMMA FinishSteady == ASSUME Steady, alive, ~late, Finish, UNCHANGED late PROVE Steady'
<1>1. PICK how \in Results : End(running, how)
  BY DEF Finish, Results
<1>2. /\ running # 0 /\ (Asks[running] => typed # <<>>) /\ running' = 0
      /\ typed' = IF Asks[running] THEN Tail(typed) ELSE typed
      /\ UNCHANGED <<task, stage, tries, buf, verdict>>
  BY DEF Finish, harness
<1>3. task \in Tasks /\ running = task /\ outcome[task] = NULL
  BY <1>2, WhenRunning
<1>4. \/ stage = "flush" /\ Asks[task] /\ Answered
      \/ stage = "flush" /\ ~Asks[task] /\ Unasked
  BY <1>2, WhenRunning DEF Asked
<1>5. /\ outcome' = [outcome EXCEPT ![task] = how]
      /\ how \in {"both", "silent"} => Asks[task]
      /\ screen' = screen \o CASE how = "silent" -> <<>>
                                [] how = "both" -> <<"ERROR", "SUCCESS">>
                                [] OTHER -> <<how>>
  BY <1>1, <1>3 DEF End, Show
<1>6. TypeOK' /\ Ahead' /\ VerdictsTrue'
  BY <1>2, <1>3, <1>5, ClientKeeps DEF harness
<1>7. Idle'
  <2>1. Tail(<<Parameters>>) = <<>>
    BY FirstLine
  <2> QED
    BY <1>2, <1>3, <1>4, <2>1 DEF Answered, Unasked, Idle
<1>8. screen' \in Unread(how)
  <2>1. CASE how = "silent"
    <3>1. screen = <<>> /\ screen' = screen \o <<>>
      BY <1>4, <1>5, <2>1 DEF Answered
    <3> QED
      BY <2>1, <3>1, Printed DEF Unread, Left
  <2>2. CASE how = "both"
    <3>1. screen = <<>> /\ screen' = screen \o <<"ERROR", "SUCCESS">>
      BY <1>4, <1>5, <2>2 DEF Answered
    <3>2. <<"ERROR", "SUCCESS">> \in Seq({"ERROR", "SUCCESS"})
      OBVIOUS
    <3>3. <<>> \o <<"ERROR", "SUCCESS">> = <<"ERROR", "SUCCESS">>
      BY <3>2, ConcatEmptySeq
    <3> QED
      BY <2>2, <3>1, <3>3 DEF Unread
  <2>3. CASE how \in {"SUCCESS", "ERROR"}
    <3>1. screen \in Left
      BY <1>4 DEF Answered, Unasked, Left
    <3>2. screen' = screen \o <<how>>
      BY <1>5, <2>3
    <3> QED
      BY <2>3, <3>1, <3>2, Printed DEF Unread
  <2> QED
    BY <2>1, <2>2, <2>3 DEF Results
<1>9. Ended'
  <2>1. outcome'[task] = how
    BY <1>3, <1>5 DEF Steady, TypeOK
  <2> QED
    BY <1>2, <1>7, <1>8, <2>1 DEF Ended
<1> QED
  BY <1>2, <1>3, <1>4, <1>6, <1>9 DEF Steady, Phase

-----------------------------------------------------------------------------
(* The harness's steps.                                                    *)

\* The harness turns to the next command once its verdict is true and the client
\* has nothing left to do.
LEMMA NextSteady ==
    ASSUME Steady, ~late, NEW v \in {"passed", "failed"}, task \in Tasks, Next_task(v),
           Idle, screen' \in Left, UNCHANGED <<late, typed, running, outcome>>,
           outcome[task] \in IF v = "failed" THEN {"ERROR", "both"} ELSE {"SUCCESS", "silent"}
    PROVE  Steady'
<1>1. /\ verdict' = [verdict EXCEPT ![task] = v] /\ task' = task + 1
      /\ stage' = IF task < Len(Asks) THEN "type" ELSE "over"
  BY DEF Next_task
<1>2. /\ task \in 1..Len(Asks) /\ Len(Asks) \in Nat
      /\ \A t \in Tasks : t \in 1..Len(Asks)
  BY Script
<1>3. TypeOK'
  <2>1. task + 1 \in 1..Len(Asks) + 1
    BY <1>2
  <2>2. verdict' \in [Tasks -> {"passed", "failed", NULL}]
    BY <1>1 DEF Steady, TypeOK
  <2> QED
    BY <1>1, <2>1, <2>2 DEF Steady, TypeOK
<1>4. Ahead'
  <2> SUFFICES ASSUME NEW t \in Tasks
               PROVE  /\ t > task + 1 => outcome[t] = NULL
                      /\ t >= task + 1 => verdict'[t] = NULL
    BY <1>1 DEF Ahead
  <2>1. t \in 1..Len(Asks)
    BY <1>2
  <2>2. t > task + 1 => t > task
    BY <1>2, <2>1
  <2>3. t >= task + 1 => t # task /\ t >= task
    BY <1>2, <2>1
  <2>4. t # task => verdict'[t] = verdict[t]
    BY <1>1 DEF Steady, TypeOK
  <2> QED
    BY <2>2, <2>3, <2>4 DEF Steady, Ahead
<1>5. VerdictsTrue'
  <2> SUFFICES ASSUME NEW t \in Tasks
               PROVE  /\ verdict'[t] = "failed" => outcome[t] \in {"ERROR", "both"}
                      /\ verdict'[t] = "passed" => outcome[t] \in {"SUCCESS", "silent"}
    BY DEF VerdictsTrue
  <2>1. CASE t = task
    <3>1. verdict'[t] = v
      BY <1>1, <2>1 DEF Steady, TypeOK
    <3> QED
      BY <2>1, <3>1
  <2>2. CASE t # task
    <3>1. verdict'[t] = verdict[t]
      BY <1>1, <2>2 DEF Steady, TypeOK
    <3> QED
      BY <3>1 DEF Steady, VerdictsTrue
  <2> QED
    BY <2>1, <2>2
<1>6. Phase'
  <2>1. Idle'
    BY DEF Idle
  <2>2. CASE task < Len(Asks)
    <3>1. task + 1 \in Tasks /\ task + 1 > task
      BY <1>2, <2>2, Script
    <3>2. outcome[task + 1] = NULL
      BY <3>1 DEF Steady, Ahead
    <3> QED
      BY <1>1, <2>1, <2>2, <3>1, <3>2 DEF Phase
  <2>3. CASE ~(task < Len(Asks))
    BY <1>1, <2>1, <2>3 DEF Phase
  <2> QED
    BY <2>2, <2>3
<1> QED
  BY <1>3, <1>4, <1>5, <1>6 DEF Steady

\* A command is typed when the client is idle and has read all lines but the one it
\* may ignore.
LEMMA TypeSteady == ASSUME Steady, ~late, Type, UNCHANGED late PROVE Steady'
<1>1. /\ stage = "type" /\ typed' = Append(typed, task)
      /\ stage' = IF Asks[task] THEN "params" ELSE "flush"
      /\ UNCHANGED <<task, tries, buf, verdict, running, outcome, screen>>
  BY DEF Type, program
<1>2. task \in Tasks /\ Idle /\ screen \in Left /\ outcome[task] = NULL
  BY <1>1 DEF Steady, Phase
<1>3. Append(<<>>, task) = <<task>>
  OBVIOUS
<1>4. Typed'
  BY <1>1, <1>2, <1>3 DEF Typed, Idle
<1>5. Asks[task] \in BOOLEAN
  BY <1>2, Script
<1>6. TypeOK' /\ Ahead' /\ VerdictsTrue'
  BY <1>1, <1>5 DEF Steady, TypeOK, Ahead, VerdictsTrue
<1>7. Phase'
  <2>1. CASE Asks[task]
    BY <1>1, <1>2, <1>4, <2>1 DEF Phase
  <2>2. CASE ~Asks[task]
    BY <1>1, <1>2, <1>4, <2>2 DEF Phase
  <2> QED
    BY <2>1, <2>2
<1> QED
  BY <1>6, <1>7 DEF Steady

\* The prompt that the harness answers and the error that it raises are those of
\* the command it has typed, and the last line on the screen.
LEMMA ParamsSteady == ASSUME Steady, ~late, Params, UNCHANGED late PROVE Steady'
<1>1. PICK n \in DOMAIN screen :
        /\ screen[n] \in {"ERROR", "prompt"}
        /\ screen' = SubSeq(screen, n + 1, Len(screen))
        /\ IF screen[n] = "ERROR"
           THEN Next_task("failed") /\ UNCHANGED typed
           ELSE /\ typed' = Append(typed, Parameters)
                /\ stage' = "flush"
                /\ tries' = 0
                /\ UNCHANGED <<task, buf, verdict>>
  BY DEF Params
<1>2. stage = "params" /\ UNCHANGED <<running, outcome>>
  BY DEF Params, program
<1>3. /\ task \in Tasks /\ Asks[task]
      /\ Typed \/ Asked \/ (Ended /\ outcome[task] = "ERROR")
  BY <1>2 DEF Steady, Phase
<1>4. ~Typed
  <2>1. screen \in Left => screen[n] = "SUCCESS"
    BY Positions DEF Left
  <2> QED
    BY <1>1, <2>1 DEF Typed
<1>5. CASE Asked
  <2>1. screen[n] = "prompt" /\ screen' = <<>>
    <3>1. LastOf(screen, "prompt")
      <4>1. LastOf(<<"prompt">>, "prompt") /\ LastOf(<<"SUCCESS", "prompt">>, "prompt")
        BY LastLine
      <4>2. screen \in {<<"prompt">>, <<"SUCCESS", "prompt">>}
        BY <1>5 DEF Asked
      <4> QED
        BY <4>1, <4>2
    <3> QED
      BY <1>1, <3>1 DEF LastOf
  <2>2. Append(<<>>, Parameters) = <<Parameters>>
    OBVIOUS
  <2>3. /\ typed' = Append(typed, Parameters) /\ stage' = "flush"
        /\ UNCHANGED <<task, verdict>>
    BY <1>1, <2>1
  <2>4. Answered'
    BY <1>2, <1>5, <2>1, <2>2, <2>3 DEF Asked, Answered
  <2>5. TypeOK' /\ Ahead' /\ VerdictsTrue'
    BY <1>2, <2>3 DEF Steady, TypeOK, Ahead, VerdictsTrue
  <2> QED
    BY <1>3, <2>3, <2>4, <2>5 DEF Steady, Phase
<1>6. CASE Ended /\ outcome[task] = "ERROR"
  <2>1. screen[n] = "ERROR" /\ screen' = <<>>
    <3>1. LastOf(screen, "ERROR")
      BY <1>6, LastLine DEF Ended, Unread
    <3> QED
      BY <1>1, <3>1 DEF LastOf
  <2>2. Next_task("failed") /\ UNCHANGED typed
    BY <1>1, <2>1
  <2> QED
    BY <1>2, <1>3, <1>6, <2>1, <2>2, NextSteady DEF Ended, Left
<1> QED
  BY <1>3, <1>4, <1>5, <1>6

\* What is collected is what was left or what the command printed, and an error
\* is the command's.
LEMMA FlushSteady == ASSUME Steady, ~late, Flush, UNCHANGED late PROVE Steady'
<1>1. /\ stage = "flush" /\ screen # <<>> /\ screen' = Tail(screen)
      /\ UNCHANGED <<typed, running, outcome>>
  BY DEF Flush, program
<1>2. IF Head(screen) = "ERROR" THEN Next_task("failed")
      ELSE UNCHANGED <<task, stage, tries, verdict>>
  BY DEF Flush
<1>3. /\ task \in Tasks
      /\ \/ Ended
         \/ Asks[task] /\ Answered
         \/ ~Asks[task] /\ (Typed \/ Unasked)
  BY <1>1 DEF Steady, Phase
<1>4. ~Answered
  BY <1>1 DEF Answered
<1>5. CASE ~Asks[task] /\ (Typed \/ Unasked)
  <2>1. Head(screen) = "SUCCESS" /\ screen' = <<>>
    BY <1>1, <1>5, FirstLine DEF Typed, Unasked, Left
  <2>2. UNCHANGED <<task, stage, verdict>>
    BY <1>2, <2>1
  <2>3. Typed' \/ Unasked'
    BY <1>1, <1>5, <2>1, <2>2 DEF Typed, Unasked, Left
  <2>4. TypeOK' /\ Ahead' /\ VerdictsTrue'
    BY <1>1, <2>2 DEF Steady, TypeOK, Ahead, VerdictsTrue
  <2> QED
    BY <1>1, <1>3, <1>5, <2>2, <2>3, <2>4 DEF Steady, Phase
<1>6. CASE Ended /\ Head(screen) = "ERROR"
  <2>1. outcome[task] \in {"ERROR", "both"} /\ screen' \in Left
    <3>1. outcome[task] \in Results /\ screen \in Unread(outcome[task])
      BY <1>6 DEF Ended
    <3>2. outcome[task] \notin {"SUCCESS", "silent"}
      BY <1>1, <1>6, <3>1, FirstLine DEF Unread
    <3>3. CASE outcome[task] = "ERROR"
      <4>1. screen = <<"ERROR">>
        BY <1>6, <3>1, <3>3, FirstLine DEF Unread
      <4> QED
        BY <1>1, <3>3, <4>1, FirstLine DEF Left
    <3>4. CASE outcome[task] = "both"
      <4>1. screen = <<"ERROR", "SUCCESS">>
        BY <3>1, <3>4 DEF Unread
      <4> QED
        BY <1>1, <3>4, <4>1, FirstLine DEF Left
    <3> QED
      BY <3>1, <3>2, <3>3, <3>4 DEF Results
  <2>2. Next_task("failed")
    BY <1>2, <1>6
  <2> QED
    BY <1>1, <1>3, <1>6, <2>1, <2>2, NextSteady DEF Ended
<1>7. CASE Ended /\ Head(screen) # "ERROR"
  <2>1. UNCHANGED <<task, stage, verdict>>
    BY <1>2, <1>7
  <2>2. screen' \in Unread(outcome[task])
    <3>1. outcome[task] \in Results /\ screen \in Unread(outcome[task])
      BY <1>7 DEF Ended
    <3>2. CASE outcome[task] = "SUCCESS"
      BY <1>1, <3>1, <3>2, FirstLine DEF Unread
    <3>3. CASE outcome[task] = "ERROR"
      <4>1. screen = <<"SUCCESS", "ERROR">>
        BY <1>7, <3>1, <3>3, FirstLine DEF Unread
      <4> QED
        BY <1>1, <3>3, <4>1, FirstLine DEF Unread
    <3>4. outcome[task] \notin {"both", "silent"}
      BY <1>1, <1>7, <3>1, FirstLine DEF Unread
    <3> QED
      BY <3>1, <3>2, <3>3, <3>4 DEF Results
  <2>3. Ended'
    BY <1>1, <1>7, <2>1, <2>2 DEF Ended, Idle
  <2>4. TypeOK' /\ Ahead' /\ VerdictsTrue'
    BY <1>1, <2>1 DEF Steady, TypeOK, Ahead, VerdictsTrue
  <2> QED
    BY <1>1, <1>3, <2>1, <2>3, <2>4 DEF Steady, Phase
<1> QED
  BY <1>3, <1>4, <1>5, <1>6, <1>7

\* Silence is taken for the end of the output only when the command has ended,
\* and never for a prompt that was not printed.
LEMMA TimeoutSteady == ASSUME Steady, ~late, Timeout, UNCHANGED late PROVE Steady'
<1>1. /\ stage \in {"params", "flush"} /\ Nothing /\ Quiet
      /\ IF GivesUp THEN Next_task(IF stage = "params" THEN "failed" ELSE "passed")
         ELSE UNCHANGED <<task, stage, verdict>>
      /\ UNCHANGED <<running, outcome, typed, screen>>
  BY DEF Timeout, program
<1>2. ~Typed
  <2>1. Quiet => ~Typed
    BY FirstLine DEF Typed, Quiet
  <2> QED
    BY <1>1, <2>1
<1>3. CASE stage = "params"
  <2>1. \A n \in DOMAIN screen : screen[n] = "SUCCESS"
    BY <1>1, <1>3 DEF Nothing
  <2>2. \A s : s \in {<<"prompt">>, <<"SUCCESS", "prompt">>, <<"ERROR">>, <<"SUCCESS", "ERROR">>} =>
          \E n \in DOMAIN s : s[n] # "SUCCESS"
    BY Positions
  <2>3. Asked \/ (Ended /\ outcome[task] = "ERROR")
    BY <1>2, <1>3 DEF Steady, Phase
  <2>4. screen \in {<<"prompt">>, <<"SUCCESS", "prompt">>, <<"ERROR">>, <<"SUCCESS", "ERROR">>}
    BY <2>3 DEF Asked, Ended, Unread
  <2> QED
    BY <2>1, <2>2, <2>4
<1>4. CASE stage = "flush"
  <2>1. screen = <<>>
    BY <1>1, <1>4 DEF Nothing
  <2>2. task \in Tasks /\ task # 0
    BY <1>4, Script DEF Steady, Phase
  <2>3. ~(Asks[task] /\ Answered)
    <3>1. Quiet => ~Answered
      BY <2>2, FirstLine DEF Answered, Quiet
    <3> QED
      BY <1>1, <3>1
  <2>4. ~(~Asks[task] /\ Unasked)
    <3>1. Quiet /\ ~Asks[task] => ~Unasked
      BY <2>2 DEF Unasked, Quiet
    <3> QED
      BY <1>1, <3>1
  <2>5. Ended
    BY <1>2, <1>4, <2>3, <2>4 DEF Steady, Phase
  <2>6. outcome[task] \in {"SUCCESS", "silent"}
    <3>1. outcome[task] \in Results /\ screen \in Unread(outcome[task])
      BY <2>5 DEF Ended
    <3> QED
      BY <2>1, <3>1, FirstLine DEF Unread, Results
  <2>7. CASE GivesUp
    <3>1. Next_task("passed")
      BY <1>1, <1>4, <2>7
    <3>2. screen' \in Left
      BY <1>1, <2>1 DEF Left
    <3> QED
      BY <1>1, <2>2, <2>5, <2>6, <3>1, <3>2, NextSteady DEF Ended
  <2>8. CASE ~GivesUp
    <3>1. UNCHANGED <<task, stage, verdict>>
      BY <1>1, <2>8
    <3> QED
      BY <1>1, <1>4, <2>2, <2>5, <3>1
         DEF Steady, TypeOK, Phase, Ahead, VerdictsTrue, Ended, Idle
  <2> QED
    BY <2>7, <2>8
<1> QED
  BY <1>1, <1>3, <1>4

\* A dead client leaves everything as it is, and so does the end of its terminal.
LEMMA DeathSteady ==
    ASSUME Steady, Dies \/ EndOfFile, UNCHANGED late
    PROVE  Steady'
<1>1. /\ UNCHANGED <<task, verdict, running, outcome, typed, screen, late>>
      /\ stage' = stage \/ (stage' = "over" /\ ~alive')
      /\ alive' = alive \/ ~alive'
  BY DEF Dies, EndOfFile, harness, program
<1>2. TypeOK' /\ Ahead' /\ VerdictsTrue'
  BY <1>1 DEF Steady, TypeOK, Ahead, VerdictsTrue
<1>3. CASE stage' = stage
  <2>1. ASSUME stage = "over"
        PROVE  Phase'
    BY <1>1, <1>3, <2>1 DEF Steady, Phase, Idle
  <2>2. ASSUME stage # "over"
        PROVE  Phase'
    <3>1. stage \in {"type", "params", "flush"}
      BY <2>2 DEF Steady, TypeOK
    <3> QED
      BY <1>1, <1>3, <3>1
         DEF Steady, Phase, Idle, Typed, Asked, Answered, Unasked, Ended
  <2>3. Phase'
    BY <2>1, <2>2
  <2> QED
    BY <1>2, <2>3 DEF Steady
<1>4. CASE stage' = "over" /\ ~alive'
  BY <1>2, <1>4 DEF Steady, Phase
<1> QED
  BY <1>1, <1>2, <1>3, <1>4

-----------------------------------------------------------------------------
(* The theorems.                                                           *)

\* Before the first command is typed nothing has happened.
LEMMA InitIInv == Init => IInv
<1> SUFFICES ASSUME Init PROVE IInv
  OBVIOUS
<1>1. TypeOK
  BY Script DEF Init, TypeOK
<1>2. Phase
  BY Script DEF Init, Phase, Idle, Left
<1>3. Ahead /\ VerdictsTrue
  BY NullAssumption DEF Init, Ahead, VerdictsTrue
<1> QED
  BY <1>1, <1>2, <1>3 DEF Init, IInv, Steady

\* Every step keeps the inductive invariant.
LEMMA NextIInv == IInv /\ [Next]_vars => IInv'
<1> SUFFICES ASSUME IInv, [Next]_vars PROVE IInv'
  OBVIOUS
<1>1. UNCHANGED late
  BY DEF Next, vars
<1>2. CASE late
  BY <1>1, <1>2 DEF IInv
<1>3. CASE ~late
  <2> SUFFICES Steady'
    BY <1>1 DEF IInv
  <2>1. Steady
    BY <1>3 DEF IInv
  <2>2. CASE UNCHANGED vars
    <3>1. /\ UNCHANGED <<task, stage, verdict, running, alive, outcome, typed, screen, late>>
      BY <2>2 DEF vars, harness, program
    <3>2. TypeOK' /\ Ahead' /\ VerdictsTrue'
      BY <2>1, <3>1 DEF Steady, TypeOK, Ahead, VerdictsTrue
    <3>3. Phase'
      BY <2>1, <3>1 DEF Steady, Phase, Idle, Typed, Asked, Answered, Unasked, Ended
    <3> QED
      BY <3>2, <3>3 DEF Steady
  <2>3. CASE Client
    BY <1>1, <1>3, <2>1, <2>3, StartSteady, GuardSteady, IgnoreSteady, FinishSteady DEF Client
  <2>4. CASE Checker
    BY <1>1, <1>3, <2>1, <2>4, TypeSteady, ParamsSteady, FlushSteady, TimeoutSteady,
       DeathSteady DEF Checker
  <2>5. CASE Dies
    BY <1>1, <2>1, <2>5, DeathSteady
  <2> QED
    BY <2>2, <2>3, <2>4, <2>5 DEF Next
<1> QED
  BY <1>2, <1>3

\* What holds in every state of a run of the checker.
THEOREM Invariance == Spec => []IInv
BY InitIInv, NextIInv, PTL DEF Spec

\* checker.py attributes every error to the command that printed it, and passes
\* only commands that printed none, for every script, however many commands of
\* either kind it has and whichever of them fail, if answers are in time.
THEOREM VerdictsAreTrue == Spec => []VerdictsTrue
<1>1. IInv => VerdictsTrue
  BY DEF IInv, Steady, VerdictsTrue
<1> QED
  BY <1>1, Invariance, PTL
=============================================================================
