-------------------------------- MODULE Harness --------------------------------
(***************************************************************************)
(* checker.py drives the client through a terminal: it types a command,    *)
(* answers the prompts, collects what is printed, and gives its verdict.   *)
(* It knows that a command has ended by silence only, and which command    *)
(* printed a line by the time it reads it.  The prompts of a command are   *)
(* taken as one.                                                           *)
(***************************************************************************)
EXTENDS Naturals, Sequences

CONSTANTS
    Asks,       \* a script: whether each of its commands has prompts
    MaxTries,   \* EXPECT_WAIT_TRIES (10)
    NULL

ASSUME ScriptAssumption == Asks \in Seq(BOOLEAN) /\ MaxTries \in Nat \ {0}

ASSUME NullAssumption ==
    NULL \notin {"passed", "failed", "SUCCESS", "ERROR", "both", "silent"}

VARIABLES
    late,      \* whether an answer may take longer than the harness waits
    task,      \* the command of the script the harness is at
    stage,     \* "type", "params", "flush" or "over"
    tries,     \* timeouts without anything collected
    buf,       \* whether expect_flush_output has collected anything
    verdict,   \* of each command: "passed", "failed" or NULL
    typed,     \* lines the client has not read yet: commands' numbers, or 0
    running,   \* the client's command, 0 between commands
    alive,     \* the client's process has not died
    screen,    \* printed, and not yet read by the harness
    outcome    \* how each command ended, NULL before

harness == <<task, stage, tries, buf, verdict>>
program == <<running, alive, outcome>>
vars == <<late, harness, program, typed, screen>>

Tasks == DOMAIN Asks
Parameters == 0

Init ==
    /\ late \in BOOLEAN
    /\ task = 1 /\ stage = IF Asks = <<>> THEN "over" ELSE "type"
    /\ tries = 0 /\ buf = FALSE
    /\ verdict = [t \in Tasks |-> NULL]
    /\ typed = <<>> /\ screen = <<>>
    /\ running = 0 /\ alive = TRUE
    /\ outcome = [t \in Tasks |-> NULL]

-----------------------------------------------------------------------------
(* The client.                                                             *)

\* What is printed is on the screen by the time the next line is read: a prompt
\* is flushed, and so is a terminal's stdout by the next read from it.
Show(lines) == screen' = screen \o lines

\* How the command t ends, and what it prints: add_collection both lines when
\* the collection is refused, a second login none.  These ask for something.
End(t, how) ==
    /\ how \in {"both", "silent"} => Asks[t]
    /\ outcome' = [outcome EXCEPT ![t] = how]
    /\ Show(CASE how = "silent" -> <<>>
               [] how = "both" -> <<"ERROR", "SUCCESS">>
               [] OTHER -> <<how>>)

\* The main loop reads a line that is a command, and its guard lets it pass.
Start ==
    /\ running = 0 /\ typed # <<>> /\ Head(typed) # Parameters
    /\ running' = Head(typed)
    /\ Show(IF Asks[running'] THEN <<"prompt">> ELSE <<>>)
    /\ typed' = Tail(typed)
    /\ UNCHANGED <<harness, outcome>>

\* Its guard refuses, before the first prompt.
Guard ==
    /\ running = 0 /\ typed # <<>> /\ Head(typed) # Parameters
    /\ End(Head(typed), "ERROR")
    /\ typed' = Tail(typed)
    /\ UNCHANGED <<harness, running>>

\* A line that is no command does nothing.
Ignore ==
    /\ running = 0 /\ typed # <<>> /\ Head(typed) = Parameters
    /\ typed' = Tail(typed)
    /\ UNCHANGED <<harness, program, screen>>

\* The answers are read, whatever was typed, and the server's reply decides.
Finish ==
    /\ running # 0
    /\ Asks[running] => typed # <<>>
    /\ typed' = IF Asks[running] THEN Tail(typed) ELSE typed
    /\ \E how \in {"SUCCESS", "ERROR", "both", "silent"} : End(running, how)
    /\ running' = 0
    /\ UNCHANGED harness

Client == alive /\ (Start \/ Guard \/ Ignore \/ Finish) /\ UNCHANGED alive

\* The process dies of a command that runs: of a broken pipe, or of a reply without
\* what it is searched for.
Dies ==
    /\ alive
    /\ running # 0
    /\ Asks[running] => typed # <<>>
    /\ alive' = FALSE
    /\ UNCHANGED <<harness, running, outcome, typed, screen>>

-----------------------------------------------------------------------------
(* The harness.                                                            *)

\* The next command; its verdict is the exception that a step of it raised.  (With
\* --ignore; without it the script ends at the first failure.)
Next_task(v) ==
    /\ verdict' = [verdict EXCEPT ![task] = v]
    /\ task' = task + 1
    /\ stage' = IF task < Len(Asks) THEN "type" ELSE "over"
    /\ tries' = 0
    /\ buf' = FALSE

Type ==
    /\ stage = "type"
    /\ typed' = Append(typed, task)
    /\ stage' = IF Asks[task] THEN "params" ELSE "flush"
    /\ UNCHANGED <<task, tries, buf, verdict, program, screen>>

\* expect_send_params: the first error or prompt on the screen, whatever stands
\* before it.
Params ==
    /\ stage = "params"
    /\ \E n \in DOMAIN screen :
          /\ screen[n] \in {"ERROR", "prompt"}
          /\ \A m \in 1..(n - 1) : screen[m] = "SUCCESS"
          /\ screen' = SubSeq(screen, n + 1, Len(screen))
          /\ IF screen[n] = "ERROR"
             THEN Next_task("failed") /\ UNCHANGED typed
             ELSE /\ typed' = Append(typed, Parameters)
                  /\ stage' = "flush"
                  /\ tries' = 0
                  /\ UNCHANGED <<task, buf, verdict>>
    /\ UNCHANGED program

\* A slip: an error is collected like any other line.
Flush_Lenient ==
    /\ stage = "flush" /\ screen # <<>>
    /\ screen' = Tail(screen)
    /\ buf' = TRUE
    /\ UNCHANGED <<task, stage, tries, verdict, typed, program>>

\* expect_flush_output: a line more; an error is raised.
Flush ==
    /\ stage = "flush" /\ screen # <<>>
    /\ screen' = Tail(screen)
    /\ IF Head(screen) = "ERROR" THEN Next_task("failed")
       ELSE buf' = TRUE /\ UNCHANGED <<task, stage, tries, verdict>>
    /\ UNCHANGED <<typed, program>>

Nothing ==
    IF stage = "params" THEN \A n \in DOMAIN screen : screen[n] = "SUCCESS"
    ELSE screen = <<>>

\* If it is not late, half a second is enough for whatever the client still has to do.
Quiet ==
    /\ running = 0 => typed = <<>>
    /\ running # 0 => Asks[running] /\ typed = <<>>

\* Silence after something was collected, or for as many tries as there are.
GivesUp == tries + 1 >= MaxTries \/ (stage = "flush" /\ buf)

\* A slip: the timeouts are not counted.
Timeout_Uncounted ==
    /\ stage \in {"params", "flush"} /\ Nothing /\ alive
    /\ late \/ Quiet
    /\ GivesUp
    /\ Next_task(IF stage = "params" THEN "failed" ELSE "passed")
    /\ UNCHANGED <<program, typed, screen>>

\* Half a second of silence.  At the end of it the parameters were not asked for,
\* which is a failure, or the output is over, which is none.
Timeout ==
    /\ stage \in {"params", "flush"} /\ Nothing /\ alive
    /\ late \/ Quiet
    /\ IF GivesUp
       THEN Next_task(IF stage = "params" THEN "failed" ELSE "passed")
       ELSE tries' = tries + 1 /\ UNCHANGED <<task, stage, buf, verdict>>
    /\ UNCHANGED <<program, typed, screen>>

\* The terminal of a dead client is at its end: the exception that pexpect raises is
\* none of the checker's own, and ends the script.
EndOfFile ==
    /\ stage \in {"params", "flush"} /\ Nothing /\ ~alive
    /\ stage' = "over"
    /\ UNCHANGED <<task, tries, buf, verdict, program, typed, screen>>

Checker == Type \/ Params \/ Flush \/ Timeout \/ EndOfFile

Next == (Client \/ Dies \/ Checker) /\ UNCHANGED late

Spec == Init /\ [][Next]_vars

\* Both processes run, and none has to die.
FairSpec == Spec /\ WF_vars(Client /\ UNCHANGED late)
                 /\ WF_vars(Checker /\ UNCHANGED late)

-----------------------------------------------------------------------------

\* The verdict on a command is about what that command did: it has failed if and
\* only if it printed an error itself, and has a verdict only if it ended, in all
\* runs where the client answers in time.
VerdictsTrue ==
    ~late => \A t \in Tasks :
        /\ verdict[t] = "failed" => outcome[t] \in {"ERROR", "both"}
        /\ verdict[t] = "passed" => outcome[t] \in {"SUCCESS", "silent"}

\* However late the client's answers are, and even if it dies of a command, the
\* script comes to its end.
ScriptEnds == <>(stage = "over")
=============================================================================
