----------------------------- MODULE CommandRun -----------------------------
(* One call of CommandRunner (src/bdencode/process.py) inside a stage of the *)
(* worker: run, run_pipeline or capture.  The commands of a pipeline are     *)
(* started one after the other and joined by pipes; the runner watches the   *)
(* last one only, and polls for a request of the operator or a stop of the   *)
(* service.  systemd stops the service by signalling the whole control       *)
(* group, the worker first, so the commands may die of the same stop that    *)
(* the runner has yet to hear of.                                            *)
EXTENDS Integers

CONSTANT MaxCommands  \* the longest pipeline
ASSUME CommandAssumption == MaxCommands \in Nat \ {0}

VARIABLES
    mode,     \* which method was called
    last,     \* the number of commands, and the last one
    child,    \* command -> what became of it
    runner,   \* where the call stands: at, command i, where a kill returns to
    wish,     \* a request to stop: none, operator or service
    heard,    \* the runner has heard of the request (interrupted)
    late,     \* the deadline has passed
    timedOut,
    verdict,  \* how the call ended
    outcome   \* what process_job made of it

commandVars == <<mode, last, child, runner, wish, heard, late, timedOut, verdict, outcome>>

Commands == 1..last

Running == {"running", "told"}             \* told: SIGTERM was sent
Ended   == {"ok", "failed", "struck", "killed"}
\* failed: by itself; struck: by the stop of the service; killed: by the runner

RunnerTo(place) == runner' = [runner EXCEPT !.at = place]
RunnerAt(place)   == runner.at = place

CommandInit ==
    /\ mode \in {"run", "pipeline", "capture"}
    /\ last \in 1..MaxCommands /\ (mode # "pipeline" => last = 1)
    /\ child = [i \in Commands |-> "due"]
    /\ runner = [at |-> "start", i |-> 1, back |-> "watch"]
    /\ wish = "none" /\ heard = FALSE /\ late = FALSE /\ timedOut = FALSE
    /\ verdict = "none" /\ outcome = "none"

-----------------------------------------------------------------------------
(* The call                                                                  *)

StartCommand ==
    /\ RunnerAt("start")
    /\ child' = [child EXCEPT ![runner.i] = "running"]
    /\ runner' = [runner EXCEPT !.i = @ + 1, !.at = IF runner.i = last THEN "watch" ELSE "start"]
    /\ UNCHANGED <<mode, last, wish, heard, late, timedOut, verdict, outcome>>

\* Popen raises: what was started is terminated, and the exception goes on.
StartFails ==
    /\ RunnerAt("start")
    /\ verdict' = "error"
    /\ runner' = [at |-> "terminate", i |-> 1, back |-> "drain"]
    /\ UNCHANGED <<mode, last, child, wish, heard, late, timedOut, outcome>>

\* capture ends with its command, without a second look.
Ends ==
    /\ RunnerAt("watch") /\ child[last] \in Ended
    /\ RunnerTo(IF mode = "capture" THEN "drain" ELSE "look")
    /\ UNCHANGED <<mode, last, child, wish, heard, late, timedOut, verdict, outcome>>

Hears ==
    /\ RunnerAt("watch") /\ wish # "none" /\ child[last] \notin Ended
    /\ heard' = TRUE
    /\ runner' = [at |-> "terminate", i |-> 1, back |-> "wait"]
    /\ UNCHANGED <<mode, last, child, wish, late, timedOut, verdict, outcome>>

\* The request is looked for before the clock.
TimesOut ==
    /\ RunnerAt("watch") /\ wish # "service" /\ late /\ child[last] \notin Ended
    /\ timedOut' = TRUE
    /\ IF mode = "capture" THEN runner' = [at |-> "terminate", i |-> 1, back |-> "wait"]
       ELSE RunnerTo("look")
    /\ UNCHANGED <<mode, last, child, wish, heard, late, verdict, outcome>>

\* What a look at the requests may find.  The control of the job is read from
\* the database, and a read that fails counts as no request.
Found == {wish # "none", wish = "service"}

\* The second look, after the loop.
LooksAgain ==
    /\ RunnerAt("look")
    /\ heard' \in Found
    /\ runner' = IF heard' \/ timedOut THEN [at |-> "terminate", i |-> 1, back |-> "wait"]
                 ELSE [at |-> "wait", i |-> last, back |-> "wait"]
    /\ UNCHANGED <<mode, last, child, wish, late, timedOut, verdict, outcome>>

-----------------------------------------------------------------------------
(* Termination: SIGTERM to the group of each command in turn, and SIGKILL to *)
(* what is still there after the grace.                                      *)

NextInLine ==
    runner' = IF runner.i >= last
              THEN [runner EXCEPT !.at = runner.back, !.i = last]
              ELSE [runner EXCEPT !.i = @ + 1]

Terminates ==
    /\ RunnerAt("terminate")
    /\ IF child[runner.i] = "running"
         THEN child' = [child EXCEPT ![runner.i] = "told"] /\ RunnerTo("grace")
         ELSE NextInLine /\ UNCHANGED child
    /\ UNCHANGED <<mode, last, wish, heard, late, timedOut, verdict, outcome>>

\* Variant: a command that does not obey is left to itself.
GraceOnly ==
    /\ RunnerAt("grace")
    /\ child[runner.i] \in Ended
    /\ RunnerTo(IF runner.back = "overdue" THEN "wait" ELSE "terminate")
    /\ UNCHANGED <<mode, last, child, wish, heard, late, timedOut, verdict, outcome>>

GraceEnds ==
    /\ RunnerAt("grace")
    /\ child' = [child EXCEPT ![runner.i] = IF @ = "told" THEN "killed" ELSE @]
    /\ RunnerTo(IF runner.back = "overdue" THEN "wait" ELSE "terminate")
    /\ UNCHANGED <<mode, last, wish, heard, late, timedOut, verdict, outcome>>

\* The other commands of a pipeline, last first, each for thirty seconds.
Waits ==
    /\ RunnerAt("wait")
    /\ \/ /\ runner.i = 0
          /\ RunnerTo("drain")
          /\ UNCHANGED child
       \/ /\ runner.i > 0 /\ child[runner.i] \in Ended
          /\ runner' = [runner EXCEPT !.i = @ - 1]
          /\ UNCHANGED child
       \/ /\ runner.i > 0 /\ child[runner.i] = "running"
          /\ child' = [child EXCEPT ![runner.i] = "told"]
          /\ runner' = [runner EXCEPT !.at = "grace", !.back = "overdue"]
    /\ UNCHANGED <<mode, last, wish, heard, late, timedOut, verdict, outcome>>

-----------------------------------------------------------------------------
(* The verdict and what the stage makes of it                                *)

\* The request goes before the deadline, and both before what the commands
\* returned.
Judgement(failed) == IF verdict = "error" THEN verdict
                     ELSE IF heard THEN "interrupted"
                     ELSE IF timedOut THEN "timeout"
                     ELSE IF failed THEN "failed" ELSE "accepted"

\* Variant: a pipeline ends as its last command ends.
LastDecides ==
    /\ RunnerAt("drain")
    /\ verdict' = Judgement(child[last] # "ok")
    /\ RunnerTo("handle")
    /\ UNCHANGED <<mode, last, child, wish, heard, late, timedOut, outcome>>

\* One command that failed fails them all.
Decides ==
    /\ RunnerAt("drain")
    /\ verdict' = Judgement(\E i \in Commands : child[i] # "ok")
    /\ RunnerTo("handle")
    /\ UNCHANGED <<mode, last, child, wish, heard, late, timedOut, outcome>>

\* process_job looks for a request once more before it fails a job.
Handles ==
    /\ RunnerAt("handle")
    /\ outcome' = CASE verdict = "accepted" -> "accepted"
                    [] verdict = "interrupted" -> "kept"
                    [] OTHER -> IF wish # "none" THEN "kept" ELSE "failed"
    /\ RunnerTo("done")
    /\ UNCHANGED <<mode, last, child, wish, heard, late, timedOut, verdict>>

-----------------------------------------------------------------------------
(* Around the call                                                           *)

\* A command ends by itself, or at the signal it was sent.
CommandEnds(i) ==
    /\ child[i] \in Running
    /\ \E end \in (IF child[i] = "told" THEN {"ok", "failed", "killed"} ELSE {"ok", "failed"}) :
         child' = [child EXCEPT ![i] = end]
    /\ UNCHANGED <<mode, last, runner, wish, heard, late, timedOut, verdict, outcome>>

\* The signal of the stop reaches a command, after it has reached the worker.
CommandStruck(i) ==
    /\ wish = "service" /\ child[i] \in Running
    /\ child' = [child EXCEPT ![i] = "struck"]
    /\ UNCHANGED <<mode, last, runner, wish, heard, late, timedOut, verdict, outcome>>

AskToStop ==
    /\ wish = "none" /\ ~RunnerAt("done")
    /\ wish' \in {"operator", "service"}
    /\ UNCHANGED <<mode, last, child, runner, heard, late, timedOut, verdict, outcome>>

DeadlinePasses ==
    /\ ~late /\ ~RunnerAt("done")
    /\ late' = TRUE
    /\ UNCHANGED <<mode, last, child, runner, wish, heard, timedOut, verdict, outcome>>

RunnerStep == StartCommand \/ Ends \/ Hears \/ TimesOut \/ LooksAgain
              \/ Terminates \/ GraceEnds \/ Waits \/ Decides \/ Handles

CommandNext ==
    \/ RunnerStep \/ StartFails \/ AskToStop \/ DeadlinePasses
    \/ \E i \in Commands : CommandEnds(i) \/ CommandStruck(i)

CommandSpec == CommandInit /\ [][CommandNext]_commandVars

\* The runner goes on: Popen returns, the clock runs, and SIGKILL kills.  No
\* command has to end by itself.
FairCommandSpec == CommandSpec /\ WF_commandVars(RunnerStep)

-----------------------------------------------------------------------------
(* When a call has ended nothing of it is left running.  Its output is       *)
(* accepted only when every command of the pipeline did its work: an encoder *)
(* that ends well on a stream its source cut short does not count.  And a    *)
(* job fails only for a reason of its own, never because the service was     *)
(* stopped under it, whichever commands that stop has killed and whenever.   *)
OutcomeIsTrue ==
    RunnerAt("done") =>
        /\ \A i \in Commands : child[i] \notin Running
        /\ outcome = "accepted" => \A i \in Commands : child[i] = "ok"
        /\ outcome = "failed" => \A i \in Commands : child[i] # "struck"
        /\ outcome = "kept" => wish # "none"

(* A request is answered, and a deadline kept, whatever the commands do,     *)
(* even if none of them ends or heeds a signal.                              *)
RunnerAnswers == (wish # "none" \/ late) ~> RunnerAt("done")
=============================================================================
