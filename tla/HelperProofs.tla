---------------------------- MODULE HelperProofs ----------------------------
(* Components the stages and the host call: the process runner, the search   *)
(* for a CRF, the upload kit, the backups of the database and the unattended *)
(* update.  Each has its own state and its own invariant.                    *)
EXTENDS CommandRun, CrfSearch, UploadKit, Backup, ReleaseUpdate, FiniteSetTheorems,
        WellFoundedInduction, TLAPS

-----------------------------------------------------------------------------
(* The outcome of a call of CommandRunner is true for pipelines of any       *)
(* length.  The invariant says how far the runner has got with its commands: *)
(* which it has not started, which it knows to be over.                      *)

CommandStatus == {"due"} \cup Running \cup Ended
RunnerPlace  == {"start", "watch", "look", "terminate", "grace", "wait", "drain", "handle", "done"}

Over(i) == child[i] \notin Running

CommandTyped ==
    /\ last \in Nat \ {0} /\ (mode # "pipeline" => last = 1)
    /\ child \in [Commands -> CommandStatus]
    /\ runner \in [at : RunnerPlace, i : Int, back : {"watch", "wait", "drain", "overdue"}]

(* What the runner knows of the commands at each place.                      *)
Known ==
    /\ RunnerAt("start") => runner.i \in Commands
    /\ RunnerAt("terminate") => /\ runner.i \in Commands /\ runner.back \in {"wait", "drain"}
                          /\ \A k \in Commands : k < runner.i => Over(k)
    /\ RunnerAt("grace") => /\ runner.i \in Commands /\ runner.back \in {"wait", "drain", "overdue"}
                      /\ \A k \in Commands :
                           (IF runner.back = "overdue" THEN k > runner.i ELSE k < runner.i) => Over(k)
    /\ RunnerAt("wait") => /\ runner.i \in 0..last
                     /\ \A k \in Commands : k > runner.i => Over(k)
    /\ runner.at \in {"drain", "handle", "done"} => \A k \in Commands : Over(k)

\* A command that was sent SIGTERM is watched until it is over.
ToldIsWatched == \A k \in Commands : child[k] = "told" => RunnerAt("grace") /\ k = runner.i

(* What has been concluded.                                                  *)
Judged ==
    /\ heard => wish # "none"
    /\ \A k \in Commands : child[k] = "struck" => wish = "service"
    /\ runner.at \notin {"handle", "done"} => verdict \in {"none", "error"}
    /\ ~RunnerAt("done") => outcome = "none"
    /\ verdict = "interrupted" => heard
    /\ verdict = "accepted" => \A k \in Commands : child[k] = "ok"
    /\ outcome = "accepted" => verdict = "accepted"
    /\ outcome = "failed" => \A k \in Commands : child[k] # "struck"
    /\ outcome = "kept" => wish # "none"

CommandInv == CommandTyped /\ Known /\ Judged /\ ToldIsWatched

Runner == [at : RunnerPlace, i : Int, back : {"watch", "wait", "drain", "overdue"}]

\* The three fields of the runner after a step that changes some of them.
LEMMA RunnerFields ==
    ASSUME NEW r \in Runner, NEW i \in Int, NEW p \in RunnerPlace, NEW b \in {"watch", "wait", "drain", "overdue"}
    PROVE  /\ [r EXCEPT !.at = p] \in Runner /\ [r EXCEPT !.i = i] \in Runner
           /\ [r EXCEPT !.i = i, !.at = p] \in Runner /\ [r EXCEPT !.at = p, !.i = i] \in Runner
           /\ [r EXCEPT !.at = p, !.back = b] \in Runner
           /\ [at |-> p, i |-> i, back |-> b] \in Runner
  BY DEF Runner

LEMMA InitIsTrue == CommandInit => CommandInv
  BY CommandAssumption, SMT DEF CommandInit, CommandInv, CommandTyped, Known, Judged, ToldIsWatched,
     Commands, CommandStatus, Running, Ended, RunnerPlace, Over, RunnerAt

\* The invariant says what it should of a call that has ended.
LEMMA InvIsTrue == CommandInv => OutcomeIsTrue
  BY DEF CommandInv, Known, Judged, OutcomeIsTrue, Over, RunnerAt

-----------------------------------------------------------------------------
(* The steps of the runner                                                   *)

LEMMA StartKeeps ==
    ASSUME CommandInv, StartCommand \/ StartFails PROVE CommandInv'
<1>1. CASE StartCommand
  <2>1. runner.i \in 1..last /\ runner \in Runner
    BY <1>1 DEF StartCommand, CommandInv, CommandTyped, Known, Commands, RunnerAt, Runner
  <2> DEFINE p == IF runner.i = last THEN "watch" ELSE "start"
  <2>2. p \in RunnerPlace /\ runner.i + 1 \in Int
    BY <2>1, SMT DEF RunnerPlace
  <2>3. runner' = [runner EXCEPT !.i = @ + 1, !.at = p]
    BY <1>1 DEF StartCommand
  <2>4. runner' \in Runner /\ runner'.at = p /\ runner'.i = runner.i + 1
    BY <2>1, <2>2, <2>3 DEF Runner
  <2>5. child' = [child EXCEPT ![runner.i] = "running"]
        /\ UNCHANGED <<mode, last, wish, heard, late, timedOut, verdict, outcome>>
    BY <1>1 DEF StartCommand
  <2>6. CommandTyped'
    BY <2>1, <2>4, <2>5 DEF CommandInv, CommandTyped, Commands, CommandStatus, Running, Runner
  <2>7. Known'
    BY <2>1, <2>4, <2>5, SMT DEF CommandInv, CommandTyped, Known, Commands, RunnerAt
  <2>8. Judged'
    <3>1. runner.at = "start" /\ runner'.at \notin {"handle", "done"}
      BY <1>1, <2>4 DEF StartCommand, RunnerAt
    <3>2. verdict \in {"none", "error"} /\ outcome = "none"
      BY <3>1 DEF CommandInv, Judged, RunnerAt
    <3>3. \A k \in Commands : child'[k] = "struck" => child[k] = "struck"
      BY <2>1, <2>5 DEF CommandInv, CommandTyped, Commands
    <3> QED BY <2>5, <3>1, <3>2, <3>3 DEF CommandInv, Judged, Commands, RunnerAt
  <2>9. ToldIsWatched'
    <3>1. \A k \in Commands : child'[k] # "told"
      BY <1>1, <2>1, <2>5 DEF StartCommand, CommandInv, CommandTyped, ToldIsWatched, Commands, RunnerAt
    <3> QED BY <2>5, <3>1 DEF ToldIsWatched, Commands
  <2> QED BY <2>6, <2>7, <2>8, <2>9 DEF CommandInv
<1>2. CASE StartFails
  BY <1>2, SMT DEF StartFails, CommandInv, CommandTyped, Known, Judged, ToldIsWatched,
     Commands, CommandStatus, Running, Ended, RunnerPlace, Over, RunnerAt
<1> QED BY <1>1, <1>2

LEMMA WatchKeeps ==
    ASSUME CommandInv, Ends \/ Hears \/ TimesOut \/ LooksAgain PROVE CommandInv'
<1>1. CASE Ends
  BY <1>1, SMT DEF Ends, RunnerTo, CommandInv, CommandTyped, Known, Judged, ToldIsWatched,
     Commands, CommandStatus, Running, Ended, RunnerPlace, Over, RunnerAt
<1>2. CASE Hears
  BY <1>2, SMT DEF Hears, CommandInv, CommandTyped, Known, Judged, ToldIsWatched,
     Commands, CommandStatus, Running, Ended, RunnerPlace, Over, RunnerAt
<1>3. CASE TimesOut
  BY <1>3, SMT DEF TimesOut, RunnerTo, CommandInv, CommandTyped, Known, Judged, ToldIsWatched,
     Commands, CommandStatus, Running, Ended, RunnerPlace, Over, RunnerAt
<1>4. CASE LooksAgain
  <2>1. PICK p \in {"terminate", "wait"}, i \in {1, last} :
          /\ runner' = [at |-> p, i |-> i, back |-> "wait"]
          /\ p = "terminate" => i = 1
          /\ p = "wait" => i = last
    BY <1>4 DEF LooksAgain, Found
  <2>2. last \in Nat \ {0} /\ heard' => wish # "none"
    BY <1>4 DEF LooksAgain, Found, CommandInv, CommandTyped
  <2>3. RunnerAt("look") /\ UNCHANGED <<mode, last, child, wish, late, timedOut, verdict, outcome>>
    BY <1>4 DEF LooksAgain, Found
  <2>4. heard' \in BOOLEAN /\ (heard' => wish # "none")
    BY <1>4 DEF LooksAgain, Found
  <2>5. runner'.at = p /\ runner'.i = i /\ runner'.back = "wait"
    BY <2>1
  <2>6. CommandTyped'
    BY <2>1, <2>3, SMT DEF CommandInv, CommandTyped, Commands, RunnerPlace
  <2>7. Known'
    BY <2>1, <2>3, <2>5, SMT DEF CommandInv, CommandTyped, Known, Commands, Over, RunnerAt
  <2>8. Judged'
    BY <2>1, <2>3, <2>4, <2>5 DEF CommandInv, Judged, Commands, RunnerAt
  <2>9. ToldIsWatched'
    BY <2>3 DEF CommandInv, ToldIsWatched, Commands, RunnerAt
  <2> QED BY <2>6, <2>7, <2>8, <2>9 DEF CommandInv
<1> QED BY <1>1, <1>2, <1>3, <1>4

LEMMA TerminateKeeps ==
    ASSUME CommandInv, Terminates \/ GraceEnds \/ Waits PROVE CommandInv'
<1>1. CASE Terminates
  <2>1. /\ RunnerAt("terminate") /\ runner \in Runner /\ last \in Nat \ {0}
        /\ runner.i \in 1..last /\ runner.back \in {"wait", "drain"}
        /\ \A k \in Commands : k < runner.i => Over(k)
    BY <1>1 DEF Terminates, CommandInv, CommandTyped, Known, Commands, Runner
  <2>2. UNCHANGED <<mode, last, wish, heard, late, timedOut, verdict, outcome>>
    BY <1>1 DEF Terminates
  <2>3. CASE child[runner.i] = "running"
    <3>1. child' = [child EXCEPT ![runner.i] = "told"] /\ runner' = [runner EXCEPT !.at = "grace"]
      BY <1>1, <2>3 DEF Terminates, RunnerTo
    <3>2. runner' \in Runner /\ runner'.at = "grace" /\ runner'.i = runner.i /\ runner'.back = runner.back
      BY <2>1, <3>1 DEF Runner, RunnerPlace
    <3>3. CommandTyped'
      BY <2>1, <2>2, <3>1, <3>2 DEF CommandInv, CommandTyped, Commands, CommandStatus, Running, Runner
    <3>4. Known'
      BY <2>1, <2>2, <3>1, <3>2, SMT DEF CommandInv, CommandTyped, Known, Commands, Over, RunnerAt
    <3>5. Judged'
      <4>1. verdict \in {"none", "error"} /\ outcome = "none"
        BY <2>1 DEF CommandInv, Judged, RunnerAt
      <4>2. \A k \in Commands : child'[k] = "struck" => child[k] = "struck"
        BY <2>1, <3>1 DEF CommandInv, CommandTyped, Commands
      <4> QED BY <2>2, <3>2, <4>1, <4>2 DEF CommandInv, Judged, Commands, RunnerAt
    <3>6. ToldIsWatched'
      BY <2>1, <2>2, <3>1, <3>2 DEF CommandInv, CommandTyped, ToldIsWatched, Commands, RunnerAt
    <3> QED BY <3>3, <3>4, <3>5, <3>6 DEF CommandInv
  <2>4. CASE child[runner.i] # "running" /\ runner.i >= last
    <3>1. UNCHANGED child /\ runner' = [runner EXCEPT !.at = runner.back, !.i = last]
      BY <1>1, <2>4 DEF Terminates, NextInLine
    <3>2. runner' \in Runner /\ runner'.at = runner.back /\ runner'.i = last
      <4>1. runner.back \in RunnerPlace /\ last \in Int
        BY <2>1 DEF RunnerPlace
      <4>2. runner' \in Runner
        BY <2>1, <3>1, <4>1, RunnerFields
      <4> QED BY <2>1, <3>1, <4>2 DEF Runner
    <3>3. CommandTyped'
      BY <2>1, <2>2, <3>1, <3>2 DEF CommandInv, CommandTyped, Commands, Runner
    <3>4. runner.i = last
      BY <2>1, <2>4, SMT
    <3>5. \A k \in Commands : Over(k)
      <4>1. child[last] # "told"
        BY <2>1, <3>4 DEF CommandInv, Known, RunnerAt, ToldIsWatched
      <4>2. Over(last)
        BY <2>4, <3>4, <4>1 DEF Over, Running
      <4> QED BY <2>1, <3>4, <4>2, SMT DEF Commands
    <3>6. Known'
      BY <2>1, <2>2, <3>1, <3>2, <3>5, SMT DEF Known, Commands, Over, RunnerAt
    <3>7. Judged'
      BY <2>1, <2>2, <3>1, <3>2 DEF CommandInv, Judged, Commands, RunnerAt
    <3>8. ToldIsWatched'
      BY <2>1, <2>2, <3>1 DEF CommandInv, ToldIsWatched, Commands, RunnerAt
    <3> QED BY <3>3, <3>6, <3>7, <3>8 DEF CommandInv
  <2>5. CASE child[runner.i] # "running" /\ ~(runner.i >= last)
    <3>1. UNCHANGED child /\ runner' = [runner EXCEPT !.i = @ + 1]
      BY <1>1, <2>5 DEF Terminates, NextInLine
    <3>2. runner' \in Runner /\ runner'.at = "terminate" /\ runner'.i = runner.i + 1 /\ runner'.back = runner.back
      BY <2>1, <3>1, SMT DEF Runner, RunnerAt
    <3>3. CommandTyped'
      BY <2>1, <2>2, <3>1, <3>2 DEF CommandInv, CommandTyped, Commands, Runner
    <3>4. Over(runner.i)
      BY <2>1, <2>5 DEF CommandInv, Known, RunnerAt, Over, Running, ToldIsWatched, Commands
    <3>5. Known'
      BY <2>1, <2>2, <2>5, <3>1, <3>2, <3>4, SMT DEF Known, Commands, Over, RunnerAt
    <3>6. Judged'
      BY <2>1, <2>2, <3>1, <3>2 DEF CommandInv, Judged, Commands, RunnerAt
    <3>7. ToldIsWatched'
      BY <2>1, <2>2, <3>1 DEF CommandInv, ToldIsWatched, Commands, RunnerAt
    <3> QED BY <3>3, <3>5, <3>6, <3>7 DEF CommandInv
  <2> QED BY <2>3, <2>4, <2>5
<1>2. CASE GraceEnds
  BY <1>2, SMT DEF GraceEnds, RunnerTo, CommandInv, CommandTyped, Known, Judged, ToldIsWatched,
     Commands, CommandStatus, Running, Ended, RunnerPlace, Over, RunnerAt
<1>3. CASE Waits
  <2>1. /\ RunnerAt("wait") /\ runner \in Runner /\ last \in Nat \ {0} /\ runner.i \in 0..last
        /\ \A k \in Commands : k > runner.i => Over(k)
        /\ \A k \in Commands : child[k] # "told"
        /\ verdict \in {"none", "error"} /\ outcome = "none"
    BY <1>3 DEF Waits, CommandInv, CommandTyped, Known, Judged, ToldIsWatched, Commands, Runner, RunnerAt
  <2>2. UNCHANGED <<mode, last, wish, heard, late, timedOut, verdict, outcome>>
    BY <1>3 DEF Waits
  <2>3. CASE runner.i = 0 /\ RunnerTo("drain") /\ UNCHANGED child
    <3>1. runner' \in Runner /\ runner'.at = "drain"
      BY <2>1, <2>3 DEF Runner, RunnerPlace, RunnerTo
    <3>2. CommandTyped'
      BY <2>2, <2>3, <3>1 DEF CommandInv, CommandTyped, Commands, Runner
    <3>3. \A k \in Commands : Over(k)
      BY <2>1, <2>3, SMT DEF Commands
    <3>4. Known'
      BY <2>2, <2>3, <3>1, <3>3 DEF Known, Commands, Over, RunnerAt
    <3>5. Judged'
      BY <2>1, <2>2, <2>3, <3>1 DEF CommandInv, Judged, Commands, RunnerAt
    <3>6. ToldIsWatched'
      BY <2>1, <2>2, <2>3 DEF ToldIsWatched, Commands
    <3> QED BY <3>2, <3>4, <3>5, <3>6 DEF CommandInv
  <2>4. CASE /\ runner.i > 0 /\ child[runner.i] \in Ended
             /\ runner' = [runner EXCEPT !.i = @ - 1] /\ UNCHANGED child
    <3>1. runner' \in Runner /\ runner'.at = "wait" /\ runner'.i = runner.i - 1
      BY <2>1, <2>4, SMT DEF Runner, RunnerAt
    <3>2. CommandTyped'
      BY <2>2, <2>4, <3>1 DEF CommandInv, CommandTyped, Commands, Runner
    <3>3. Over(runner.i)
      BY <2>4 DEF Over, Running, Ended
    <3>4. Known'
      BY <2>1, <2>2, <2>4, <3>1, <3>3, SMT DEF Known, Commands, Over, RunnerAt
    <3>5. Judged'
      BY <2>1, <2>2, <2>4, <3>1 DEF CommandInv, Judged, Commands, RunnerAt
    <3>6. ToldIsWatched'
      BY <2>1, <2>2, <2>4 DEF ToldIsWatched, Commands
    <3> QED BY <3>2, <3>4, <3>5, <3>6 DEF CommandInv
  <2>5. CASE /\ runner.i > 0 /\ child[runner.i] = "running"
             /\ child' = [child EXCEPT ![runner.i] = "told"]
             /\ runner' = [runner EXCEPT !.at = "grace", !.back = "overdue"]
    <3>1. /\ runner' \in Runner /\ runner'.at = "grace" /\ runner'.i = runner.i
          /\ runner'.back = "overdue" /\ runner.i \in 1..last
      <4>1. "grace" \in RunnerPlace
        BY DEF RunnerPlace
      <4>2. runner' \in Runner
        BY <2>1, <2>5, <4>1, RunnerFields DEF Runner
      <4>3. runner.i \in 1..last
        BY <2>1, <2>5, SMT
      <4> QED BY <2>1, <2>5, <4>2, <4>3 DEF Runner
    <3>2. CommandTyped'
      BY <2>1, <2>2, <2>5, <3>1 DEF CommandInv, CommandTyped, Commands, CommandStatus, Running, Runner
    <3>3. Known'
      BY <2>1, <2>2, <2>5, <3>1, <3>2, SMT DEF CommandTyped, CommandInv, Known, Commands, Over, RunnerAt
    <3>4. \A k \in Commands : child'[k] = "struck" => child[k] = "struck"
      BY <2>1, <2>5 DEF CommandInv, CommandTyped, Commands
    <3>5. Judged'
      BY <2>1, <2>2, <3>1, <3>4 DEF CommandInv, Judged, Commands, RunnerAt
    <3>6. ToldIsWatched'
      BY <2>1, <2>2, <2>5, <3>1 DEF CommandInv, CommandTyped, ToldIsWatched, Commands, RunnerAt
    <3> QED BY <3>2, <3>3, <3>5, <3>6 DEF CommandInv
  <2> QED BY <1>3, <2>3, <2>4, <2>5 DEF Waits
<1> QED BY <1>1, <1>2, <1>3

LEMMA VerdictKeeps ==
    ASSUME CommandInv, Decides \/ Handles PROVE CommandInv'
<1>1. CASE Decides
  BY <1>1, SMT DEF Decides, Judgement, RunnerTo, CommandInv, CommandTyped, Known, Judged, ToldIsWatched,
     Commands, CommandStatus, Running, Ended, RunnerPlace, Over, RunnerAt
<1>2. CASE Handles
  BY <1>2, SMT DEF Handles, RunnerTo, CommandInv, CommandTyped, Known, Judged, ToldIsWatched,
     Commands, CommandStatus, Running, Ended, RunnerPlace, Over, RunnerAt
<1> QED BY <1>1, <1>2

\* Around the call: what is over stays over.
LEMMA SurroundingsKeep ==
    ASSUME CommandInv, NEW i \in Commands,
           CommandEnds(i) \/ CommandStruck(i) \/ AskToStop \/ DeadlinePasses
    PROVE  CommandInv'
<1>1. CASE CommandEnds(i)
  BY <1>1, SMT DEF CommandEnds, CommandInv, CommandTyped, Known, Judged, ToldIsWatched,
     Commands, CommandStatus, Running, Ended, RunnerPlace, Over, RunnerAt
<1>2. CASE CommandStruck(i)
  BY <1>2, SMT DEF CommandStruck, CommandInv, CommandTyped, Known, Judged, ToldIsWatched,
     Commands, CommandStatus, Running, Ended, RunnerPlace, Over, RunnerAt
<1>3. CASE AskToStop
  BY <1>3, SMT DEF AskToStop, CommandInv, CommandTyped, Known, Judged, ToldIsWatched,
     Commands, CommandStatus, Running, Ended, RunnerPlace, Over, RunnerAt
<1>4. CASE DeadlinePasses
  BY <1>4, SMT DEF DeadlinePasses, CommandInv, CommandTyped, Known, Judged, ToldIsWatched,
     Commands, CommandStatus, Running, Ended, RunnerPlace, Over, RunnerAt
<1> QED BY <1>1, <1>2, <1>3, <1>4

LEMMA CommandStepKeeps == CommandInv /\ [CommandNext]_commandVars => CommandInv'
<1> SUFFICES ASSUME CommandInv, [CommandNext]_commandVars PROVE CommandInv'
  OBVIOUS
<1>1. CASE RunnerStep \/ StartFails
  BY <1>1, StartKeeps, WatchKeeps, TerminateKeeps, VerdictKeeps DEF RunnerStep
<1>2. CASE AskToStop \/ DeadlinePasses
  <2>1. 1 \in Commands
    BY SMT DEF CommandInv, CommandTyped, Commands
  <2> QED BY <1>2, <2>1, SurroundingsKeep
<1>3. CASE \E i \in Commands : CommandEnds(i) \/ CommandStruck(i)
  BY <1>3, SurroundingsKeep
<1>4. CASE UNCHANGED commandVars
  BY <1>4 DEF commandVars, CommandInv, CommandTyped, Known, Judged, ToldIsWatched,
     Commands, CommandStatus, Running, Ended, RunnerPlace, Over, RunnerAt
<1> QED BY <1>1, <1>2, <1>3, <1>4 DEF CommandNext

(* When a call has ended nothing of it runs, its output counts only when     *)
(* every command did its work, and a stop of the service fails no job        *)
(* (CommandRunner and the handlers of process_job).                          *)
THEOREM OutcomesAreTrue == CommandSpec => []OutcomeIsTrue
<1> QED BY InitIsTrue, CommandStepKeeps, InvIsTrue, PTL DEF CommandSpec

-----------------------------------------------------------------------------
(* The search for a CRF never leaves its bracket, whatever the scores, the   *)
(* bounds and the number of probes.                                          *)

Scored(f) == \E S \in SUBSET Int : f \in [S -> Int]
HasScores(f) == \A c \in DOMAIN f : f[c].score \in Int

(* The values are numbers, a probe that is to be recorded has its score, and *)
(* the search is in its bracket.                                             *)
CrfInv ==
    /\ ask.nominal \in Int /\ ask.config.min8 \in Int /\ ask.config.max8 \in Int
    /\ Scored(probes) /\ HasScores(scored) /\ crf \in Int
    /\ searchAt \in {"mark", "score"} => crf \in DOMAIN scored
    /\ Bracketed

-----------------------------------------------------------------------------
(* Arithmetic                                                                *)

LEMMA RoundedType ==
    ASSUME NEW a \in Int, NEW b \in Int, b > 0
    PROVE  RoundedRatio(a, b) \in Int
<1>1. a \div b \in Int
  BY SMT
<1> QED BY <1>1, SMT DEF RoundedRatio

\* A number that is moved between two bounds.
LEMMA WithinBounds ==
    ASSUME NEW low \in Int, NEW high \in Int, NEW x \in Int, low <= high
    PROVE  Within(low, high, x) \in Int /\ low <= Within(low, high, x) /\ Within(low, high, x) <= high
  BY SMT DEF Within

LEMMA WithinType ==
    ASSUME NEW low \in Int, NEW high \in Int, NEW x \in Int
    PROVE  Within(low, high, x) \in Int
  BY SMT DEF Within

LEMMA BoundsAreNumbers ==
    ASSUME CrfInv
    PROVE  LowBound \in Int /\ HighBound \in Int
  BY RoundedType DEF CrfInv, LowBound, HighBound

-----------------------------------------------------------------------------
(* The tables of scores                                                      *)

LEMMA ScoredFacts ==
    ASSUME NEW f, Scored(f)
    PROVE  DOMAIN f \subseteq Int /\ \A c \in DOMAIN f : f[c] \in Int
  BY DEF Scored

LEMMA PutScored ==
    ASSUME NEW f, Scored(f), NEW c \in Int, NEW v \in Int
    PROVE  Scored(Put(f, c, v)) /\ DOMAIN Put(f, c, v) = DOMAIN f \cup {c}
<1> DEFINE S == DOMAIN f \cup {c}
<1>1. S \subseteq Int /\ \A x \in DOMAIN f : f[x] \in Int
  BY ScoredFacts
<1>2. Put(f, c, v) \in [S -> Int]
  BY <1>1 DEF Put
<1> QED BY <1>1, <1>2 DEF Scored

LEMMA PutMeasured ==
    ASSUME NEW f, HasScores(f), NEW c, NEW v, v.score \in Int
    PROVE  HasScores(Put(f, c, v)) /\ DOMAIN Put(f, c, v) = DOMAIN f \cup {c}
  BY DEF HasScores, Put

-----------------------------------------------------------------------------
(* The bracket                                                               *)

\* While the two kinds of probes do not overlap, passing and failing are all.
LEMMA Sides ==
    ASSUME CrfInv
    PROVE  /\ Probed \subseteq Int /\ \A c \in Probed : probes[c] \in Int
           /\ Passing = {c \in Probed : Met(c)}
           /\ Above = Failing
           /\ Low \subseteq Passing /\ High \subseteq Above
<1>1. Probed \subseteq Int /\ \A c \in Probed : probes[c] \in Int
  BY ScoredFacts DEF CrfInv, Probed
<1>2. Passing = {c \in Probed : Met(c)}
  BY DEF CrfInv, Bracketed, Passing, Failing
<1>3. Low \subseteq Passing /\ High \subseteq Above
  BY DEF Low, High
<1>4. ASSUME NEW f \in Failing, NEW l \in Low PROVE f > l
  <2>1. l \in Probed /\ Met(l) /\ f \in Probed /\ ~Met(f)
    BY <1>2, <1>3 DEF Failing
  <2>2. l < f
    BY <2>1 DEF CrfInv, Bracketed
  <2>3. l \in Int /\ f \in Int
    BY <1>1, <2>1
  <2> QED BY <2>2, <2>3, SMT
<1>5. Above = Failing
  BY <1>4 DEF Above
<1> QED BY <1>1, <1>2, <1>3, <1>5

\* A fall is a ratio of whole numbers that is not zero.
LEMMA FallsAreRatios ==
    ASSUME CrfInv, NEW f \in Falls
    PROVE  f.n \in Int /\ f.n > 0 /\ f.d \in Int
<1>1. CASE Neighbours = {}
  BY <1>1, SMT DEF Falls
<1>2. CASE Neighbours # {}
  <2>1. PICK p \in Nearest : f = Limited(probes[p[1]] - probes[p[2]], p[2] - p[1])
    BY <1>2 DEF Falls
  <2>2. p[1] \in Probed /\ p[2] \in Probed /\ p[1] < p[2]
    BY <2>1 DEF Nearest, Neighbours
  <2>3. p[1] \in Int /\ p[2] \in Int /\ probes[p[1]] \in Int /\ probes[p[2]] \in Int
    BY <2>2, Sides
  <2> DEFINE n == probes[p[1]] - probes[p[2]]
             d == p[2] - p[1]
  <2>4. n \in Int /\ d \in Int /\ d > 0
    BY <2>2, <2>3, SMT
  <2>5. f = Limited(n, d)
    BY <2>1
  <2> HIDE DEF n, d
  <2> QED BY <2>4, <2>5, SMT DEF Limited
<1> QED BY <1>1, <1>2

LEMMA ExtrapolatedType ==
    ASSUME CrfInv, NEW f \in Falls, NEW c \in Probed
    PROVE  Extrapolated(c, f) \in Int
<1>1. f.n \in Int /\ f.n > 0 /\ f.d \in Int
  BY FallsAreRatios
<1>2. c \in Int /\ probes[c] \in Int
  BY Sides
<1>3. c * f.n + probes[c] * f.d \in Int
  BY <1>1, <1>2, SMT
<1> QED BY <1>1, <1>3, RoundedType DEF Extrapolated

LEMMA InterpolatedType ==
    ASSUME CrfInv, NEW l \in Probed, NEW h \in Probed
    PROVE  Interpolated(l, h) \in Int
<1>1. l \in Int /\ h \in Int /\ probes[l] \in Int /\ probes[h] \in Int
  BY Sides
<1> DEFINE span == probes[l] - probes[h]
<1>2. span \in Int /\ l * span + probes[l] * (h - l) \in Int /\ l + h \in Int
  BY <1>1, SMT
<1>3. CASE span > 0
  BY <1>2, <1>3, RoundedType DEF Interpolated
<1>4. CASE ~(span > 0)
  BY <1>2, <1>4, RoundedType DEF Interpolated
<1> QED BY <1>3, <1>4

\* The next CRF to probe lies between what met the target and what failed.
LEMMA NextIsInside ==
    ASSUME CrfInv, NEW c \in NextCrf
    PROVE  c \in Int /\ \A d \in Probed : IF Met(d) THEN d < c ELSE c < d
<1>0. LowBound \in Int /\ HighBound \in Int
  BY BoundsAreNumbers
<1>1. CASE Probed = {}
  <2>1. c = Within(LowBound, HighBound, ask.nominal)
    BY <1>1 DEF NextCrf
  <2> QED BY <1>0, <1>1, <2>1, WithinType DEF CrfInv
<1>2. CASE Probed # {} /\ Passing # {} /\ Above # {}
  <2>1. PICK l \in Low, h \in High : c = Between(l, h) /\ h - l > 1
    BY <1>2 DEF NextCrf
  <2>2. l \in Probed /\ h \in Probed
    BY Sides DEF Passing, Above, Failing
  <2>3. l \in Int /\ h \in Int /\ Interpolated(l, h) \in Int
    BY <2>2, Sides, InterpolatedType
  <2>4. l + 1 \in Int /\ h - 1 \in Int /\ l + 1 <= h - 1
    BY <2>1, <2>3, SMT
  <2>5. c \in Int /\ l + 1 <= c /\ c <= h - 1
    BY <2>1, <2>3, <2>4, WithinBounds DEF Between
  <2>6. ASSUME NEW d \in Probed, Met(d) PROVE d <= l
    BY <2>6, Sides DEF Low
  <2>7. ASSUME NEW d \in Probed, ~Met(d) PROVE h <= d
    BY <2>7, Sides DEF High, Failing
  <2>8. \A d \in Probed : d \in Int
    BY Sides
  <2> QED BY <2>3, <2>5, <2>6, <2>7, <2>8, SMT
<1>3. CASE Probed # {} /\ Passing # {} /\ Above = {}
  <2>1. PICK l \in Low, f \in Falls : l < HighBound /\ c = Within(l + 1, HighBound, Extrapolated(l, f))
    BY <1>3 DEF NextCrf
  <2>2. l \in Probed
    BY Sides DEF Passing
  <2>3. l \in Int /\ Extrapolated(l, f) \in Int
    BY <2>2, Sides, ExtrapolatedType
  <2>4. l + 1 \in Int /\ l + 1 <= HighBound
    BY <1>0, <2>1, <2>3, SMT
  <2>5. c \in Int /\ l + 1 <= c
    BY <1>0, <2>1, <2>3, <2>4, WithinBounds
  <2>6. ASSUME NEW d \in Probed PROVE Met(d) /\ d <= l /\ d \in Int
    BY <1>3, Sides DEF Low, Failing
  <2> QED BY <2>3, <2>5, <2>6, SMT
<1>4. CASE Probed # {} /\ Passing = {}
  <2>1. PICK h \in High, f \in Falls : h > LowBound /\ c = Within(LowBound, h - 1, Extrapolated(h, f))
    BY <1>4 DEF NextCrf
  <2>2. h \in Probed
    BY Sides DEF Above, Failing
  <2>3. h \in Int /\ Extrapolated(h, f) \in Int
    BY <2>2, Sides, ExtrapolatedType
  <2>4. h - 1 \in Int /\ LowBound <= h - 1
    BY <1>0, <2>1, <2>3, SMT
  <2>5. c \in Int /\ c <= h - 1
    BY <1>0, <2>1, <2>3, <2>4, WithinBounds
  <2>6. ASSUME NEW d \in Probed PROVE ~Met(d) /\ h <= d /\ d \in Int
    BY <1>4, Sides DEF High, Failing
  <2> QED BY <2>3, <2>5, <2>6, SMT
<1> QED BY <1>1, <1>2, <1>3, <1>4

-----------------------------------------------------------------------------
(* The steps                                                                 *)

LEMMA InitIsBracketed == CrfInit => CrfInv
<1> SUFFICES ASSUME CrfInit PROVE CrfInv
  OBVIOUS
<1>1. ask.nominal \in Int /\ ask.config.min8 \in Int /\ ask.config.max8 \in Int
  BY CrfAssumption DEF CrfInit
<1>2. Scored(<<>>) /\ HasScores(<<>>)
  <2>1. <<>> \in [{} -> Int]
    BY SMT
  <2>2. DOMAIN <<>> = {}
    BY SMT
  <2> QED BY <2>1, <2>2 DEF Scored, HasScores
<1> QED BY <1>1, <1>2, SMT DEF CrfInit, CrfInv, Bracketed, Probed, Met

\* What a step leaves alone.
LEMMA SearchStandsStill ==
    ASSUME CrfInv, UNCHANGED <<ask, probes, crf, scored>>,
           searchAt' = searchAt \/ searchAt' \notin {"encode", "mark", "score"}
    PROVE  CrfInv'
  BY DEF CrfInv, Bracketed, Probed, Met, Scored, HasScores

LEMMA StepKeepsBracket == CrfInv /\ [CrfNext]_crfVars => CrfInv'
<1> SUFFICES ASSUME CrfInv, [CrfNext]_crfVars PROVE CrfInv'
  OBVIOUS
<1>0. Scored(<<>>)
  <2>1. <<>> \in [{} -> Int]
    BY SMT
  <2> QED BY <2>1 DEF Scored
<1>1. CASE SearchStarts
  <2>1. CASE probes' = probes
    <3>1. UNCHANGED <<ask, probes, crf, scored>> /\ searchAt' \in {"done", "next"}
      BY <1>1, <2>1 DEF SearchStarts
    <3> QED BY <3>1, SearchStandsStill
  <2>2. CASE probes' = <<>>
    <3>1. UNCHANGED <<ask, crf, scored>> /\ searchAt' \in {"done", "next"}
      BY <1>1 DEF SearchStarts
    <3>2. Scored(probes') /\ HasScores(scored')
      BY <1>0, <2>2, <3>1 DEF CrfInv
    <3>3. Bracketed'
      BY <2>2, <3>1 DEF Bracketed, Probed
    <3> QED BY <3>1, <3>2, <3>3 DEF CrfInv
  <2> QED BY <1>1, <2>1, <2>2 DEF SearchStarts
<1>2. CASE ProbeNext
  <2>1. PICK c \in NextCrf : crf' = c /\ searchAt' = IF Marked(c) THEN "score" ELSE "encode"
    BY <1>2 DEF ProbeNext
  <2>2. c \in Int /\ \A d \in Probed : IF Met(d) THEN d < c ELSE c < d
    BY NextIsInside
  <2>3. searchAt' = "score" => c \in DOMAIN scored
    BY <2>1 DEF Marked
  <2>4. UNCHANGED <<ask, probes, scored>>
    BY <1>2 DEF ProbeNext
  <2> QED BY <2>1, <2>2, <2>3, <2>4 DEF CrfInv, Bracketed, Probed, Met, Scored, HasScores
<1>3. CASE ProbeMeasured
  <2>1. PICK s \in Scores : scored' = Put(scored, crf, [score |-> s, of |-> MeasuredOn])
    BY <1>3 DEF ProbeMeasured
  <2> DEFINE m == [score |-> s, of |-> MeasuredOn]
  <2>2. m.score \in Int
    BY CrfAssumption
  <2>a. HasScores(scored) /\ crf \in Int
    BY DEF CrfInv
  <2>b. HasScores(Put(scored, crf, m)) /\ DOMAIN Put(scored, crf, m) = DOMAIN scored \cup {crf}
    BY <2>2, <2>a, PutMeasured
  <2>c. crf \in DOMAIN scored'
    BY <2>1, <2>b
  <2>3. HasScores(scored') /\ crf \in DOMAIN scored'
    BY <2>1, <2>b, <2>c
  <2>4. UNCHANGED <<ask, probes, crf>> /\ searchAt = "encode" /\ searchAt' = "mark"
    BY <1>3 DEF ProbeMeasured
  <2>5. Bracketed'
    BY <2>4 DEF CrfInv, Bracketed, Probed, Met
  <2>6. Scored(probes')
    BY <2>4 DEF CrfInv
  <2> QED BY <2>3, <2>4, <2>5, <2>6 DEF CrfInv
<1>4. CASE ProbeMarked
  BY <1>4 DEF ProbeMarked, CrfInv, Bracketed, Probed, Met, Scored, HasScores
<1>5. CASE ProbeRecorded
  <2>1. crf \notin Probed
    BY <1>5, Sides, SMT DEF ProbeRecorded, CrfInv, Bracketed
  <2>2. probes' = Put(probes, crf, scored[crf].score) /\ searchAt' = "next"
    BY <1>5, <2>1 DEF ProbeRecorded
  <2>3. scored[crf].score \in Int
    BY <1>5 DEF ProbeRecorded, CrfInv, HasScores
  <2>a. Scored(probes) /\ crf \in Int
    BY DEF CrfInv
  <2>v. PICK v \in Int : v = scored[crf].score
    BY <2>3
  <2>b. Scored(Put(probes, crf, v)) /\ DOMAIN Put(probes, crf, v) = DOMAIN probes \cup {crf}
    BY <2>a, PutScored
  <2>c. probes' = Put(probes, crf, v)
    BY <2>2, <2>v
  <2>d. Scored(probes')
    BY <2>b, <2>c
  <2>4. /\ Scored(probes') /\ Probed' = Probed \cup {crf}
        /\ \A x \in Probed' : probes'[x] = IF x = crf THEN scored[crf].score ELSE probes[x]
    BY <2>b, <2>c, <2>d, <2>v DEF Probed, Put
  <2>5. \A x \in Probed : IF Met(x) THEN x < crf ELSE crf < x
    BY <1>5 DEF ProbeRecorded, CrfInv, Bracketed
  <2>6. ASSUME NEW c \in Probed', NEW d \in Probed', Met(c)', ~Met(d)' PROVE c < d
    <3>1. c \in Probed => Met(c) /\ c < crf
      BY <2>1, <2>4, <2>5, <2>6 DEF Met
    <3>2. d \in Probed => ~Met(d) /\ crf < d
      BY <2>1, <2>4, <2>5, <2>6 DEF Met
    <3>3. ~(c = crf /\ d = crf)
      BY <2>6 DEF Met
    <3>4. c \in Probed /\ d \in Probed => c < d
      BY <3>1, <3>2 DEF CrfInv, Bracketed
    <3> QED BY <2>4, <3>1, <3>2, <3>3, <3>4
  <2>7. UNCHANGED <<ask, crf, scored>>
    BY <1>5 DEF ProbeRecorded
  <2>8. Bracketed'
    BY <2>2, <2>6 DEF Bracketed
  <2>9. HasScores(scored')
    BY <2>7 DEF CrfInv
  <2> QED BY <2>2, <2>4, <2>7, <2>8, <2>9 DEF CrfInv
<1>6. CASE ReportWritten \/ ReportMarked \/ SearchStops
  <2>1. UNCHANGED <<ask, probes, crf, scored>> /\ searchAt' \in {"review", "report", "done", "idle"}
    BY <1>6 DEF ReportWritten, ReportMarked, SearchStops
  <2> QED BY <2>1, SearchStandsStill
<1>7. CASE AskAgain
  <2>1. UNCHANGED <<probes, crf, scored>> /\ searchAt' = "idle"
    BY <1>7 DEF AskAgain
  <2>2. ask'.nominal \in Int /\ ask'.config.min8 \in Int /\ ask'.config.max8 \in Int
    <3>1. PICK n \in Nominals, c \in Configs : \E r : ask' = [nominal |-> n, config |-> c, reference |-> r]
      BY <1>7 DEF AskAgain
    <3> QED BY <3>1, CrfAssumption
  <2> QED BY <2>1, <2>2 DEF CrfInv, Bracketed, Probed, Met, Scored, HasScores
<1>8. CASE UNCHANGED crfVars
  <2>1. UNCHANGED <<ask, probes, crf, scored, searchAt>>
    BY <1>8 DEF crfVars
  <2> QED BY <2>1, SearchStandsStill
<1> QED BY <1>1, <1>2, <1>3, <1>4, <1>5, <1>6, <1>7, <1>8 DEF CrfNext, SearchStep

(* Whatever the scores are, the search asks only between the probes that met *)
(* the target and those that failed, and never for a CRF it has probed       *)
(* (CrfSearch.next_crf and record).                                          *)
THEOREM SearchStaysInBracket == CrfSpec => []Bracketed
<1>1. CrfInv => Bracketed
  BY DEF CrfInv
<1> QED BY InitIsBracketed, StepKeepsBracket, <1>1, PTL DEF CrfSpec

-----------------------------------------------------------------------------
(* The CRF the pipeline goes on with met the target of the present selection *)
(* on the present reference, whatever selections, references, files and      *)
(* markers came before.                                                      *)

\* Of the probes that met the target one is the highest.
MetHasMost ==
    (\E c \in Probed : Met(c)) =>
        \E m \in Probed : Met(m) /\ \A d \in Probed : Met(d) => d <= m

BasisIsPresent == \A c \in Probed : basis[c] = MeasuredOn
MarkTells(m)   == m.inputs = m.file.of

ReportSound(r) ==
    /\ \E c \in r.chosen :
         /\ r.probes[c] >= 0
         /\ \A d \in DOMAIN r.probes : r.probes[d] >= 0 <=> d <= c
    /\ \A d \in DOMAIN r.probes :
         r.basis[d] = [config |-> r.ask.config, reference |-> r.ask.reference]

MarkSound(m) == ReportSound(m.report) /\ m.report.ask = m.ask

(* A marker of a probe names what its file was measured on; a search holds   *)
(* scores of the present selection and reference only, and a report that may *)
(* be used, or that a marker promises, is sound for what it was asked.       *)
ChoiceInv ==
    /\ MetHasMost
    /\ DOMAIN basis = Probed
    /\ searchAt \in {"next", "encode", "mark", "score", "report"} => BasisIsPresent
    /\ searchAt \in {"mark", "score"} => scored[crf].of = MeasuredOn
    /\ \A c \in DOMAIN probeMarks : MarkTells(probeMarks[c])
    /\ searchAt \in {"report", "done"} => ReportSound(report) /\ report.ask = ask
    /\ "ask" \in DOMAIN reportMark => MarkSound(reportMark)

LEMMA InitIsSound == CrfInit => ChoiceInv
<1> SUFFICES ASSUME CrfInit PROVE ChoiceInv
  OBVIOUS
<1>1. DOMAIN probes = {} /\ DOMAIN basis = {} /\ DOMAIN probeMarks = {}
  BY SMT DEF CrfInit
<1>2. "ask" \notin DOMAIN reportMark
  BY DEF CrfInit, Nothing
<1>3. searchAt = "idle"
  BY DEF CrfInit
<1> QED BY <1>1, <1>2, <1>3 DEF ChoiceInv, MetHasMost, Probed

\* A step that keeps the search's scores, the files and the reports.
LEMMA ChoiceStandsStill ==
    ASSUME ChoiceInv, UNCHANGED <<ask, probes, basis, crf, scored, probeMarks, report, reportMark>>,
           searchAt' = searchAt \/ searchAt' = "idle"
    PROVE  ChoiceInv'
<1>1. MetHasMost'
  BY DEF ChoiceInv, MetHasMost, Probed, Met
<1>2. BasisIsPresent => BasisIsPresent'
  BY DEF BasisIsPresent, Probed, MeasuredOn
<1>3. MeasuredOn' = MeasuredOn /\ Probed' = Probed
  BY DEF MeasuredOn, Probed
<1> QED BY <1>1, <1>2, <1>3 DEF ChoiceInv

\* What a new probe adds: above all that met the target, or above none.
LEMMA MostIsKept ==
    ASSUME CrfInv, ChoiceInv, NEW v \in Int, searchAt = "score",
           crf \notin Probed, probes' = Put(probes, crf, v), crf' = crf
    PROVE  MetHasMost'
<1>1. Probed' = Probed \cup {crf} /\ \A x \in Probed' : probes'[x] = IF x = crf THEN v ELSE probes[x]
  BY DEF Probed, Put
<1>2. \A x \in Probed : (Met(x)' <=> Met(x)) /\ x \in Int /\ crf \in Int
  BY <1>1, Sides DEF Met, CrfInv
<1>3. \A x \in Probed : Met(x) => x < crf
  BY DEF CrfInv, Bracketed
<1>4. CASE v >= 0
  <2>1. crf \in Probed' /\ Met(crf)'
    BY <1>1, <1>4 DEF Met
  <2>2. \A d \in Probed' : Met(d)' => d <= crf
    BY <1>1, <1>2, <1>3, SMT DEF CrfInv
  <2> QED BY <2>1, <2>2 DEF MetHasMost
<1>5. CASE ~(v >= 0)
  <2>1. ~Met(crf)'
    BY <1>1, <1>5 DEF Met
  <2> QED BY <1>1, <1>2, <2>1 DEF ChoiceInv, MetHasMost
<1> QED BY <1>4, <1>5

\* What outcome writes when a probe met the target.
LEMMA OutcomeIsSound ==
    ASSUME CrfInv, ChoiceInv, searchAt = "next", Passing # {}, NEW r,
           r.ask = ask, r.chosen = Low, r.probes = probes, r.basis = basis
    PROVE  ReportSound(r)
<1>1. /\ Probed \subseteq Int /\ \A c \in Probed : probes[c] \in Int
      /\ Passing = {c \in Probed : Met(c)}
  BY Sides
<1>2. PICK m \in Probed : Met(m) /\ \A d \in Probed : Met(d) => d <= m
  BY <1>1 DEF ChoiceInv, MetHasMost
<1>3. m \in Low
  BY <1>1, <1>2 DEF Low
<1>4. ASSUME NEW d \in Probed PROVE probes[d] >= 0 <=> d <= m
  <2>1. Met(d) => d <= m
    BY <1>2
  <2>2. ~Met(d) => m < d
    BY <1>2 DEF CrfInv, Bracketed
  <2>3. d \in Int /\ m \in Int
    BY <1>1
  <2> QED BY <2>1, <2>2, <2>3, SMT DEF Met
<1>5. probes[m] >= 0
  BY <1>2 DEF Met
<1>6. \A d \in Probed : basis[d] = [config |-> ask.config, reference |-> ask.reference]
  BY DEF ChoiceInv, BasisIsPresent, MeasuredOn
<1> QED BY <1>3, <1>4, <1>5, <1>6 DEF ReportSound, Probed

LEMMA StepKeepsChoice == CrfInv /\ ChoiceInv /\ [CrfNext]_crfVars => ChoiceInv'
<1> SUFFICES ASSUME CrfInv, ChoiceInv, [CrfNext]_crfVars PROVE ChoiceInv'
  OBVIOUS
<1>1. CASE SearchStarts
  <2>1. UNCHANGED <<ask, crf, scored, probeMarks, report, reportMark>>
    BY <1>1 DEF SearchStarts
  <2>2. CASE reportMark = [ask |-> ask, report |-> report]
    <3>1. searchAt' = "done" /\ UNCHANGED <<probes, basis>>
      BY <1>1, <2>2 DEF SearchStarts
    <3>2. reportMark.ask = ask /\ reportMark.report = report /\ "ask" \in DOMAIN reportMark
      BY <2>2
    <3>3. ReportSound(report) /\ report.ask = ask
      BY <3>2 DEF ChoiceInv, MarkSound
    <3>4. MetHasMost' /\ DOMAIN basis' = Probed'
      BY <3>1 DEF ChoiceInv, MetHasMost, Probed, Met
    <3> QED BY <2>1, <3>1, <3>3, <3>4 DEF ChoiceInv
  <2>3. CASE reportMark # [ask |-> ask, report |-> report]
    <3>1. searchAt' = "next" /\ probes' = <<>> /\ basis' = <<>>
      BY <1>1, <2>3 DEF SearchStarts
    <3>2. Probed' = {} /\ DOMAIN basis' = {}
      BY <3>1, SMT DEF Probed
    <3>3. MetHasMost' /\ BasisIsPresent'
      BY <3>2 DEF MetHasMost, BasisIsPresent
    <3> QED BY <2>1, <3>1, <3>2, <3>3 DEF ChoiceInv
  <2> QED BY <2>2, <2>3
<1>2. CASE ProbeNext
  <2>1. PICK c \in NextCrf : crf' = c /\ searchAt' = IF Marked(c) THEN "score" ELSE "encode"
    BY <1>2 DEF ProbeNext
  <2>2. searchAt = "next" /\ UNCHANGED <<ask, probes, basis, scored, probeMarks, report, reportMark>>
    BY <1>2 DEF ProbeNext
  <2>3. MetHasMost' /\ DOMAIN basis' = Probed' /\ BasisIsPresent'
    BY <2>2 DEF ChoiceInv, MetHasMost, BasisIsPresent, Probed, Met, MeasuredOn
  <2>4. Marked(c) => scored[c].of = MeasuredOn
    <3> SUFFICES ASSUME Marked(c) PROVE scored[c].of = MeasuredOn
      OBVIOUS
    <3>1. c \in DOMAIN probeMarks /\ probeMarks[c] = [inputs |-> ProbeInputs, file |-> scored[c]]
      BY DEF Marked
    <3>2. probeMarks[c].inputs = ProbeInputs /\ probeMarks[c].file = scored[c]
      BY <3>1
    <3>3. MarkTells(probeMarks[c])
      BY <3>1 DEF ChoiceInv
    <3> QED BY <3>2, <3>3 DEF MarkTells, ProbeInputs, MeasuredOn
  <2>5. searchAt' \in {"mark", "score"} => scored'[crf'].of = MeasuredOn'
    BY <2>1, <2>2, <2>4 DEF MeasuredOn
  <2>6. searchAt' \in {"score", "encode"}
    BY <2>1
  <2> QED BY <2>2, <2>3, <2>5, <2>6 DEF ChoiceInv
<1>3. CASE ProbeMeasured
  <2>1. PICK s \in Scores : scored' = Put(scored, crf, [score |-> s, of |-> MeasuredOn])
    BY <1>3 DEF ProbeMeasured
  <2>2. /\ searchAt = "encode" /\ searchAt' = "mark"
        /\ UNCHANGED <<ask, probes, basis, crf, probeMarks, report, reportMark>>
    BY <1>3 DEF ProbeMeasured
  <2>3. MetHasMost' /\ DOMAIN basis' = Probed' /\ BasisIsPresent'
    BY <2>2 DEF ChoiceInv, MetHasMost, BasisIsPresent, Probed, Met, MeasuredOn
  <2>4. scored'[crf'] = [score |-> s, of |-> MeasuredOn]
    BY <2>1, <2>2 DEF Put
  <2>5. scored'[crf'].of = MeasuredOn'
    BY <2>2, <2>4 DEF MeasuredOn
  <2> QED BY <2>2, <2>3, <2>5 DEF ChoiceInv
<1>4. CASE ProbeMarked
  <2>1. /\ searchAt = "mark" /\ searchAt' = "score"
        /\ UNCHANGED <<ask, probes, basis, crf, scored, report, reportMark>>
    BY <1>4 DEF ProbeMarked
  <2>2. probeMarks' = Put(probeMarks, crf, [inputs |-> ProbeInputs, file |-> scored[crf]])
    BY <1>4 DEF ProbeMarked
  <2>3. MetHasMost' /\ DOMAIN basis' = Probed' /\ BasisIsPresent' /\ MeasuredOn' = MeasuredOn
    BY <2>1 DEF ChoiceInv, MetHasMost, BasisIsPresent, Probed, Met, MeasuredOn
  <2>4. ASSUME NEW c \in DOMAIN probeMarks' PROVE MarkTells(probeMarks'[c])
    <3>1. CASE c = crf
      <4>1. probeMarks'[c] = [inputs |-> ProbeInputs, file |-> scored[crf]]
        BY <2>2, <3>1 DEF Put
      <4>2. scored[crf].of = MeasuredOn
        BY <2>1 DEF ChoiceInv
      <4> QED BY <4>1, <4>2 DEF MarkTells, ProbeInputs, MeasuredOn
    <3>2. CASE c # crf
      <4>1. c \in DOMAIN probeMarks /\ probeMarks'[c] = probeMarks[c]
        BY <2>2, <2>4, <3>2 DEF Put
      <4> QED BY <4>1 DEF ChoiceInv
    <3> QED BY <3>1, <3>2
  <2> QED BY <2>1, <2>3, <2>4 DEF ChoiceInv
<1>5. CASE ProbeRecorded
  <2>1. crf \notin Probed
    BY <1>5, Sides, SMT DEF ProbeRecorded, CrfInv, Bracketed
  <2>2. /\ searchAt = "score" /\ searchAt' = "next"
        /\ UNCHANGED <<ask, crf, scored, probeMarks, report, reportMark>>
    BY <1>5, <2>1 DEF ProbeRecorded
  <2>3. probes' = Put(probes, crf, scored[crf].score) /\ basis' = Put(basis, crf, scored[crf].of)
    BY <1>5, <2>1 DEF ProbeRecorded
  <2>4. scored[crf].score \in Int
    BY <2>2 DEF CrfInv, HasScores
  <2>5. PICK v \in Int : v = scored[crf].score
    BY <2>4
  <2>6. probes' = Put(probes, crf, v)
    BY <2>3, <2>5
  <2>7. MetHasMost'
    BY <2>1, <2>2, <2>6, MostIsKept
  <2>8. scored[crf].of = MeasuredOn /\ BasisIsPresent /\ DOMAIN basis = Probed
    BY <2>2 DEF ChoiceInv
  <2>9. DOMAIN basis' = Probed'
    BY <2>3, <2>8 DEF Probed, Put
  <2>10. BasisIsPresent'
    <3>1. MeasuredOn' = MeasuredOn
      BY <2>2 DEF MeasuredOn
    <3>2. ASSUME NEW c \in DOMAIN basis' PROVE basis'[c] = MeasuredOn
      BY <2>3, <2>8, <3>2 DEF Put, BasisIsPresent
    <3> QED BY <2>9, <3>1, <3>2 DEF BasisIsPresent
  <2> QED BY <2>2, <2>7, <2>9, <2>10 DEF ChoiceInv
<1>6. CASE ReportWritten
  <2>1. /\ searchAt = "next" /\ searchAt' = IF Passing = {} THEN "review" ELSE "report"
        /\ UNCHANGED <<ask, probes, basis, crf, scored, probeMarks, reportMark>>
    BY <1>6 DEF ReportWritten
  <2>2. report' = [ask |-> ask, status |-> Status, chosen |-> Low, probes |-> probes, basis |-> basis]
    BY <1>6 DEF ReportWritten
  <2>3. /\ report'.ask = ask /\ report'.chosen = Low /\ report'.probes = probes
        /\ report'.basis = basis
    BY <2>2
  <2>4. Passing # {} => ReportSound(report')
    BY <2>1, <2>3, OutcomeIsSound
  <2>5. MetHasMost' /\ DOMAIN basis' = Probed' /\ BasisIsPresent'
    BY <2>1 DEF ChoiceInv, MetHasMost, BasisIsPresent, Probed, Met, MeasuredOn
  <2> QED BY <2>1, <2>3, <2>4, <2>5 DEF ChoiceInv
<1>7. CASE ReportMarked
  <2>1. /\ searchAt = "report" /\ searchAt' = "done"
        /\ UNCHANGED <<ask, probes, basis, crf, scored, probeMarks, report>>
    BY <1>7 DEF ReportMarked
  <2>2. reportMark'.ask = ask /\ reportMark'.report = report
    BY <1>7 DEF ReportMarked
  <2>3. ReportSound(report) /\ report.ask = ask
    BY <2>1 DEF ChoiceInv
  <2>4. MarkSound(reportMark')
    BY <2>2, <2>3 DEF MarkSound
  <2>5. MetHasMost' /\ DOMAIN basis' = Probed'
    BY <2>1 DEF ChoiceInv, MetHasMost, Probed, Met
  <2> QED BY <2>1, <2>3, <2>4, <2>5 DEF ChoiceInv
<1>8. CASE SearchStops
  <2>1. /\ UNCHANGED <<ask, probes, basis, crf, scored, probeMarks, report, reportMark>>
        /\ searchAt' = "idle"
    BY <1>8 DEF SearchStops
  <2> QED BY <2>1, ChoiceStandsStill
<1>9. CASE AskAgain
  <2>1. UNCHANGED <<probes, basis, crf, scored, probeMarks, report, reportMark>> /\ searchAt' = "idle"
    BY <1>9 DEF AskAgain
  <2>2. MetHasMost' /\ DOMAIN basis' = Probed'
    BY <2>1 DEF ChoiceInv, MetHasMost, Probed, Met
  <2> QED BY <2>1, <2>2 DEF ChoiceInv
<1>10. CASE UNCHANGED crfVars
  <2>1. UNCHANGED <<ask, probes, basis, crf, scored, probeMarks, report, reportMark, searchAt>>
    BY <1>10 DEF crfVars
  <2> QED BY <2>1, ChoiceStandsStill
<1> QED BY <1>1, <1>2, <1>3, <1>4, <1>5, <1>6, <1>7, <1>8, <1>9, <1>10 DEF CrfNext, SearchStep

(* The CRF the pipeline goes on with is the highest probed one that met the  *)
(* target of the present selection, and all it rests on was measured with    *)
(* the present settings on the present reference, for any scores, settings,  *)
(* number of probes, stops and revisions (PipelineWorker._auto_crf and its   *)
(* checkpoints).                                                             *)
THEOREM TheChoiceMeetsTheTarget == CrfSpec => []ChosenMeetsTarget
<1>1. ChoiceInv => ChosenMeetsTarget
  <2> SUFFICES ASSUME ChoiceInv, searchAt = "done"
               PROVE  /\ report.ask.reference = ask.reference /\ report.ask.config = ask.config
                      /\ \E c \in report.chosen :
                           /\ report.probes[c] >= 0
                           /\ \A d \in DOMAIN report.probes : report.probes[d] >= 0 <=> d <= c
                      /\ \A d \in DOMAIN report.probes : report.basis[d] = MeasuredOn
    BY DEF ChosenMeetsTarget
  <2>1. ReportSound(report) /\ report.ask = ask
    BY DEF ChoiceInv
  <2> QED BY <2>1 DEF ReportSound, MeasuredOn
<1> QED BY InitIsBracketed, StepKeepsBracket, InitIsSound, StepKeepsChoice, <1>1, PTL DEF CrfSpec

-----------------------------------------------------------------------------
(* Whatever happens to the payload, its screenshots and the kit, for any     *)
(* number of pieces, edits, builds and crashes: only what was approved, of   *)
(* the version the preparation was made for, leaves the machine.             *)

Contained == [Files -> Seq(Int)]
Manifest  == [payload : Int, files : Contained]
BuilderPlace     == {"idle", "begin", "hash", "check", "rehash", "stage", "publish", "final"}
Kits      == [manifest : Manifest \cup {NoManifest}, files : Contained]
PrepStates == {"NOT_PREPARED", "PREPARING", "READY", "NEEDS_REVIEW", "FAILED"}
Sets(fs)  == [fs -> Seq(Int)]

\* A manifest of the payload the preparation was made for.
Good(m, v) == /\ m \in Manifest /\ m.payload = v
              /\ m.files["torrent"] = Whole(v)

\* What is on disk and in the rows has the form it should have.
KitTyped ==
    /\ payload \in Int /\ picture \in Int /\ builds \in Int
    /\ prep \in [state : PrepStates, payload : Int, manifest : Manifest \cup {NoManifest}]
    /\ builder \in [at : BuilderPlace, guard : Int, read : Seq(Int), torrent : Seq(Int),
                    manifest : Manifest \cup {NoManifest}]
    /\ scratch \in Seq(Int)
    /\ kit = NoKit \/ kit \in Kits

\* How far the build is says what its files hold.
BuildOK ==
    /\ builder.at \in {"rehash", "stage"} => scratch = Whole(prep.payload)
    /\ builder.at = "stage" =>
         builder.read = scratch /\ stage.files = [f \in {"torrent"} |-> scratch]
    /\ builder.at = "publish" => stage \in Kits
    /\ builder.at \in {"publish", "final"} => Good(builder.manifest, prep.payload)

\* A sender has compared what it holds with an approved manifest.
SenderOK ==
    /\ sender.at = "read" =>
         /\ sender \in [at : {"read"}, manifest : Manifest, got : UNION {Sets(fs) : fs \in SUBSET Files}]
         /\ Good(sender.manifest, prep.payload)
         /\ \A f \in DOMAIN sender.got : sender.got[f] = sender.manifest.files[f]
    /\ sender.at # "read" => sender = NoSending

SentOK ==
    /\ sent.manifest = NoManifest \/ Good(sent.manifest, prep.payload)
    /\ \A f \in DOMAIN sent.files : sent.files[f] = sent.manifest.files[f]

RowOK == prep.manifest = NoManifest \/ Good(prep.manifest, prep.payload)

KitInv ==
    KitTyped /\ BuildOK /\ SenderOK /\ SentOK /\ RowOK

-----------------------------------------------------------------------------
LEMMA Typed ==
    ASSUME NEW v \in Int
    PROVE  Whole(v) \in Seq(Int) /\ Whole(v)[1] = v
  BY KitAssumption DEF Whole

LEMMA InitHolds == KitInit => KitInv
  <1> SUFFICES ASSUME KitInit PROVE KitInv
    OBVIOUS
  <1>1. <<>> \in Seq(Int)
    OBVIOUS
  <1>2. KitTyped
    <2>1. builder.manifest = NoManifest /\ NoBuild = [at |-> "idle", guard |-> 0, read |-> <<>>, torrent |-> <<>>, manifest |-> NoManifest]
      BY DEF KitInit, NoBuild, NoTorrent
    <2>2. builder \in [at : BuilderPlace, guard : Int, read : Seq(Int), torrent : Seq(Int),
                       manifest : Manifest \cup {NoManifest}]
      BY <1>1, <2>1 DEF KitInit, BuilderPlace
    <2>3. prep \in [state : PrepStates, payload : Int, manifest : Manifest \cup {NoManifest}]
      BY DEF KitInit, PrepStates
    <2>4. payload \in Int /\ picture \in Int /\ builds \in Int /\ kit = NoKit /\ scratch = <<>>
      BY DEF KitInit, NoTorrent
    <2> QED
      BY <1>1, <2>2, <2>3, <2>4 DEF KitTyped
  <1>3. BuildOK
    BY DEF KitInit, BuildOK, NoBuild
  <1>4. SenderOK
    BY DEF KitInit, SenderOK, NoSending
  <1>5. SentOK
    BY DEF KitInit, SentOK, NotSent
  <1>6. RowOK
    BY DEF KitInit, RowOK
  <1> QED
    BY <1>2, <1>3, <1>4, <1>5, <1>6 DEF KitInv

-----------------------------------------------------------------------------
(* What a step leaves alone stays as it should be                            *)

LEMMA SendsKeep ==
    ASSUME KitInv, prep'.payload = prep.payload, UNCHANGED <<sender, sent>>
    PROVE  SenderOK' /\ SentOK'
  BY DEF KitInv, SenderOK, SentOK

LEMMA BuildKeeps ==
    ASSUME KitInv, prep'.payload = prep.payload, UNCHANGED <<builder, scratch, stage>>
    PROVE  BuildOK'
  BY DEF KitInv, BuildOK

LEMMA RowKeeps ==
    ASSUME KitInv, prep'.payload = prep.payload, prep'.manifest = prep.manifest
    PROVE  RowOK'
  BY DEF KitInv, RowOK

\* Another state of the same preparation.
LEMMA RowMoves ==
    ASSUME KitTyped, NEW s \in PrepStates, prep' = [prep EXCEPT !.state = s]
    PROVE  /\ prep' \in [state : PrepStates, payload : Int, manifest : Manifest \cup {NoManifest}]
           /\ prep'.payload = prep.payload /\ prep'.manifest = prep.manifest
  BY DEF KitTyped

Builds == [at : BuilderPlace, guard : Int, read : Seq(Int), torrent : Seq(Int),
           manifest : Manifest \cup {NoManifest}]

LEMMA NoBuildTyped == NoBuild \in Builds /\ NoBuild.at = "idle" /\ <<>> \in Seq(Int)
  <1>1. <<>> \in Seq(Int)
    OBVIOUS
  <1> QED
    BY <1>1 DEF NoBuild, NoTorrent, Builds, BuilderPlace

\* The end of a build, by itself or by a crash.
LEMMA FailureKeeps ==
    ASSUME KitInv, prep' = [prep EXCEPT !.state = "FAILED"], builder' = NoBuild,
           scratch' = NoTorrent, stage' = NoKit, kit' = NoKit,
           UNCHANGED <<payload, picture, builds>>
    PROVE  KitTyped' /\ BuildOK' /\ RowOK' /\ prep'.payload = prep.payload
  <1>1. "FAILED" \in PrepStates
    BY DEF PrepStates
  <1>2. /\ prep' \in [state : PrepStates, payload : Int, manifest : Manifest \cup {NoManifest}]
        /\ prep'.payload = prep.payload /\ prep'.manifest = prep.manifest
    BY <1>1, RowMoves DEF KitInv
  <1>3. KitTyped'
    BY <1>2, NoBuildTyped DEF KitInv, KitTyped, NoTorrent, Builds
  <1>4. BuildOK'
    BY NoBuildTyped DEF BuildOK
  <1> QED
    BY <1>2, <1>3, <1>4, RowKeeps

LEMMA BuildFailsKeeps ==
    ASSUME KitInv, BuildFails
    PROVE  KitInv'
  BY FailureKeeps, SendsKeep DEF BuildFails, KitInv

-----------------------------------------------------------------------------
(* Around the release                                                        *)

LEMMA EditKeeps ==
    ASSUME KitInv, Edit
    PROVE  KitInv'
  <1>1. payload' \in Int /\ picture' \in Int
    BY DEF Edit, KitInv, KitTyped
  <1>2. KitTyped'
    BY <1>1 DEF Edit, KitInv, KitTyped
  <1> QED
    BY <1>2, SendsKeep, BuildKeeps, RowKeeps DEF Edit, KitInv

LEMMA SpoilKeeps ==
    ASSUME KitInv, Spoil
    PROVE  KitInv'
  <1>1. kit \in Kits
    BY DEF Spoil, KitInv, KitTyped
  <1>2. kit' \in Kits
    <2>1. Spoilt \in Seq(Int)
      BY DEF Spoilt
    <2>2. CASE kit' = [kit EXCEPT !.manifest = NoManifest]
      BY <1>1, <2>2 DEF Kits
    <2>3. ASSUME NEW f \in Files, kit' = [kit EXCEPT !.files[f] = Spoilt]
          PROVE  kit' \in Kits
      <3>1. [kit.files EXCEPT ![f] = Spoilt] \in Contained
        BY <1>1, <2>1 DEF Contained, Kits
      <3> QED
        BY <1>1, <2>3, <3>1 DEF Kits
    <2> QED
      BY <2>2, <2>3 DEF Spoil
  <1>3. KitTyped'
    BY <1>2 DEF Spoil, KitInv, KitTyped
  <1> QED
    BY <1>3, SendsKeep, BuildKeeps, RowKeeps DEF Spoil, KitInv

LEMMA NeedsReviewKeeps ==
    ASSUME KitInv, NeedsReview
    PROVE  KitInv'
  <1>1. /\ prep' \in [state : PrepStates, payload : Int, manifest : Manifest \cup {NoManifest}]
        /\ prep'.payload = prep.payload /\ prep'.manifest = prep.manifest
    BY RowMoves DEF NeedsReview, KitInv, PrepStates
  <1>2. KitTyped'
    BY <1>1 DEF NeedsReview, KitInv, KitTyped, bounds
  <1> QED
    BY <1>1, <1>2, SendsKeep, BuildKeeps, RowKeeps DEF NeedsReview, KitInv

-----------------------------------------------------------------------------
(* The build                                                                 *)

LEMMA BuildStartsKeeps ==
    ASSUME KitInv, BuildStarts
    PROVE  KitInv'
  <1>1. /\ prep' \in [state : PrepStates, payload : Int, manifest : Manifest \cup {NoManifest}]
        /\ prep'.payload = prep.payload /\ prep'.manifest = prep.manifest
    BY RowMoves DEF BuildStarts, KitInv, PrepStates
  <1>2. builder' \in Builds /\ builder'.at = "begin"
    BY DEF BuildStarts, BuilderTo, KitInv, KitTyped, Builds, BuilderPlace
  <1>3. KitTyped'
    BY <1>1, <1>2 DEF BuildStarts, KitInv, KitTyped, Builds
  <1>4. BuildOK'
    BY <1>2 DEF BuildOK
  <1> QED
    BY <1>1, <1>3, <1>4, SendsKeep, RowKeeps DEF BuildStarts, KitInv

\* A step of the build that leaves rows and kit alone.
LEMMA BuilderMoves ==
    ASSUME KitInv, UNCHANGED <<payload, picture, prep, kit, sender, sent, builds>>,
           builder' \in Builds, scratch' \in Seq(Int), BuildOK'
    PROVE  KitInv'
  <1>1. KitTyped'
    BY DEF KitInv, KitTyped, Builds
  <1> QED
    BY <1>1, SendsKeep, RowKeeps DEF KitInv

LEMMA HashingKeeps ==
    ASSUME KitInv, TorrentBegins \/ HashPiece
    PROVE  KitInv'
  <1>1. CASE TorrentBegins
    <2>1. builder' \in Builds /\ builder'.at = "hash"
      BY <1>1 DEF TorrentBegins, KitInv, KitTyped, Builds, BuilderPlace
    <2>2. BuildOK'
      BY <2>1 DEF BuildOK
    <2> QED
      BY <1>1, <2>1, <2>2, BuilderMoves DEF TorrentBegins, bounds, KitInv, KitTyped
  <1>2. CASE HashPiece
    <2>1. builder' = [builder EXCEPT !.read = Append(builder.read, payload)]
      BY <1>2 DEF HashPiece
    <2>2. Append(builder.read, payload) \in Seq(Int)
      BY DEF KitInv, KitTyped
    <2>3. builder' \in Builds /\ builder'.at = builder.at
      BY <2>1, <2>2 DEF KitInv, KitTyped, Builds
    <2>4. BuildOK'
      BY <1>2, <2>3 DEF HashPiece, BuildOK, KitInv
    <2> QED
      BY <1>2, <2>3, <2>4, BuilderMoves DEF HashPiece, bounds, KitInv, KitTyped
  <1> QED
    BY <1>1, <1>2

LEMMA TorrentKeeps ==
    ASSUME KitInv, TorrentWritten \/ TorrentChecked
    PROVE  KitInv'
  <1>1. ASSUME TorrentWritten, ~BuildFails PROVE KitInv'
    <2>1. builder' \in Builds /\ builder'.at = "check" /\ scratch' \in Seq(Int)
      BY <1>1 DEF TorrentWritten, KitInv, KitTyped, Builds, BuilderPlace
    <2>2. BuildOK'
      BY <2>1 DEF BuildOK
    <2> QED
      BY <1>1, <2>1, <2>2, BuilderMoves DEF TorrentWritten, bounds
  <1>2. ASSUME TorrentChecked, ~BuildFails PROVE KitInv'
    <2>1. builder' = [builder EXCEPT !.at = "rehash", !.guard = payload, !.read = <<>>]
      BY <1>2 DEF TorrentChecked
    <2>2. builder' \in Builds /\ builder'.at = "rehash"
      BY <2>1, NoBuildTyped DEF KitInv, KitTyped, Builds, BuilderPlace
    <2>3. scratch = Whole(prep.payload) /\ UNCHANGED <<scratch, prep>>
      BY <1>2 DEF TorrentChecked
    <2>4. BuildOK'
      BY <2>2, <2>3 DEF BuildOK
    <2> QED
      BY <1>2, <2>2, <2>3, <2>4, BuilderMoves DEF TorrentChecked, bounds, KitInv, KitTyped
  <1> QED
    BY <1>1, <1>2, BuildFailsKeeps

\* The second hash of the payload is the torrent's.
LEMMA PayloadProvedKeeps ==
    ASSUME KitInv, PayloadProved
    PROVE  KitInv'
  <1>1. ASSUME ~BuildFails PROVE KitInv'
    <2>1. builder' \in Builds /\ builder'.at = "stage" /\ builder'.read = builder.read
      BY <1>1 DEF PayloadProved, BuilderTo, KitInv, KitTyped, Builds, BuilderPlace
    <2>2. /\ scratch = Whole(prep.payload) /\ builder.read = scratch /\ UNCHANGED <<scratch, prep>>
          /\ stage'.files = [f \in {"torrent"} |-> scratch]
      BY <1>1 DEF PayloadProved, BuilderAt, KitInv, BuildOK, NoKit
    <2>3. BuildOK'
      BY <2>1, <2>2 DEF BuildOK
    <2> QED
      BY <1>1, <2>1, <2>2, <2>3, BuilderMoves DEF PayloadProved, bounds, KitInv, KitTyped
  <1> QED
    BY <1>1, BuildFailsKeeps

\* So the manifest is of the payload the preparation was made for.
LEMMA KitStagedKeeps ==
    ASSUME KitInv, KitStaged
    PROVE  KitInv'
  <1>1. /\ builder.at = "stage" /\ builder.read = Whole(prep.payload)
        /\ stage.files["torrent"] = Whole(prep.payload)
        /\ prep.payload \in Int /\ picture \in Int /\ builds \in Int
    BY DEF KitStaged, BuilderAt, KitInv, KitTyped, BuildOK
  <1>2. Contents \in Contained /\ Contents["torrent"] = Whole(prep.payload)
    <2>1. Screenshots \in Seq(Int) /\ ReleaseText \in Seq(Int) /\ Whole(prep.payload) \in Seq(Int)
      BY <1>1, Typed DEF Screenshots, ReleaseText
    <2> QED
      BY <1>1, <2>1 DEF Contents, Contained, Files
  <1> DEFINE m == [payload |-> builder.read[1], files |-> Contents]
  <1>3. Good(m, prep.payload)
    BY <1>1, <1>2, Typed DEF Good, Manifest
  <1>4. builder' = [builder EXCEPT !.at = "publish", !.manifest = m]
    BY DEF KitStaged
  <1> HIDE DEF m
  <1>5. m \in Manifest
    BY <1>3 DEF Good
  <1>6. builder' \in Builds /\ builder'.at = "publish" /\ builder'.manifest = m
    BY <1>4, <1>5 DEF KitInv, KitTyped, Builds, BuilderPlace
  <1>7. stage' \in Kits
    BY <1>2, <1>5 DEF KitStaged, Kits, m
  <1>8. BuildOK'
    BY <1>3, <1>6, <1>7 DEF BuildOK, KitStaged
  <1> QED
    BY <1>6, <1>8, BuilderMoves DEF KitStaged, bounds, KitInv, KitTyped

LEMMA KitPublishedKeeps ==
    ASSUME KitInv, KitPublished
    PROVE  KitInv'
  <1>1. ASSUME ~BuildFails PROVE KitInv'
    <2>1. /\ builder' \in Builds /\ builder'.at = "final" /\ builder'.manifest = builder.manifest
          /\ Good(builder.manifest, prep.payload) /\ UNCHANGED <<prep, scratch>>
      BY <1>1 DEF KitPublished, BuilderAt, BuilderTo, KitInv, KitTyped, BuildOK, Builds, BuilderPlace
    <2>2. kit' \in Kits
      BY <1>1 DEF KitPublished, BuilderAt, KitInv, BuildOK
    <2>3. KitTyped'
      BY <1>1, <2>1, <2>2 DEF KitPublished, KitInv, KitTyped, Builds, bounds
    <2>4. BuildOK'
      BY <2>1 DEF BuildOK
    <2> QED
      BY <1>1, <2>1, <2>3, <2>4, SendsKeep, RowKeeps DEF KitPublished, KitInv
  <1> QED
    BY <1>1, BuildFailsKeeps

\* The approval: the row names the manifest of the build.
LEMMA KitReadyKeeps ==
    ASSUME KitInv, KitReady
    PROVE  KitInv'
  <1>1. ASSUME ~BuildFails PROVE KitInv'
    <2>1. prep' = [prep EXCEPT !.state = "READY", !.manifest = builder.manifest]
      BY <1>1 DEF KitReady
    <2>2. Good(builder.manifest, prep.payload) /\ builder.manifest \in Manifest
      BY <1>1 DEF KitReady, BuilderAt, KitInv, BuildOK, Good
    <2>3. /\ prep' \in [state : PrepStates, payload : Int, manifest : Manifest \cup {NoManifest}]
          /\ prep'.payload = prep.payload /\ prep'.manifest = builder.manifest
      BY <2>1, <2>2 DEF KitInv, KitTyped, PrepStates
    <2>4. KitTyped'
      BY <1>1, <2>3, NoBuildTyped DEF KitReady, KitInv, KitTyped, Builds, NoTorrent, bounds
    <2>5. BuildOK'
      BY <1>1, NoBuildTyped DEF KitReady, BuildOK
    <2> QED
      BY <1>1, <2>2, <2>3, <2>4, <2>5, SendsKeep DEF KitReady, KitInv, RowOK
  <1> QED
    BY <1>1, BuildFailsKeeps

LEMMA KitCrashKeeps ==
    ASSUME KitInv, KitCrash
    PROVE  KitInv'
  <1>1. sender' = NoSending /\ sent' = sent
    BY DEF KitCrash
  <1>2. KitTyped' /\ BuildOK' /\ RowOK' /\ prep'.payload = prep.payload
    <2>1. CASE prep.state = "PREPARING"
      BY <2>1, FailureKeeps DEF KitCrash
    <2>2. CASE prep.state # "PREPARING"
      BY <2>2, BuildKeeps, RowKeeps DEF KitCrash, KitInv, KitTyped
    <2> QED
      BY <2>1, <2>2
  <1>3. SenderOK' /\ SentOK'
    BY <1>1, <1>2 DEF SenderOK, SentOK, KitInv, NoSending
  <1> QED
    BY <1>2, <1>3 DEF KitInv

-----------------------------------------------------------------------------
(* What is sent                                                              *)

LEMMA SenderMoves ==
    ASSUME KitInv, UNCHANGED <<payload, picture, prep, builder, scratch, stage, kit, builds>>,
           SenderOK', SentOK'
    PROVE  KitInv'
  BY BuildKeeps, RowKeeps DEF KitInv, KitTyped

LEMMA SendingStartsKeeps ==
    ASSUME KitInv, SendingStarts
    PROVE  KitInv'
  <1>1. Good(kit.manifest, prep.payload) /\ kit.manifest \in Manifest
    BY DEF SendingStarts, KitInv, RowOK, Good
  <1>2. sender' = [at |-> "read", manifest |-> kit.manifest, got |-> <<>>] /\ UNCHANGED prep
    BY DEF SendingStarts
  <1>3. DOMAIN <<>> = {} /\ <<>> \in Sets({})
    BY DEF Sets
  <1>4. SenderOK'
    BY <1>1, <1>2, <1>3 DEF SenderOK
  <1> QED
    BY <1>4, SenderMoves DEF SendingStarts, KitInv, SentOK

LEMMA FileVerifiedKeeps ==
    ASSUME KitInv, FileVerified
    PROVE  KitInv'
  <1> USE DEF FileVerified
  <1>1. PICK f \in Files \ DOMAIN sender.got :
          sender' = IF f \in DOMAIN kit.files /\ kit.files[f] = sender.manifest.files[f]
                    THEN [sender EXCEPT !.got = [g \in DOMAIN sender.got \cup {f} |->
                              IF g = f THEN kit.files[f] ELSE sender.got[g]]]
                    ELSE NoSending
    OBVIOUS
  <1>2. /\ Good(sender.manifest, prep.payload) /\ UNCHANGED prep
        /\ \A g \in DOMAIN sender.got : sender.got[g] = sender.manifest.files[g]
        /\ sender \in [at : {"read"}, manifest : Manifest, got : UNION {Sets(fs) : fs \in SUBSET Files}]
    BY DEF KitInv, SenderOK
  <1>3. SenderOK'
    <2>1. CASE sender' = NoSending
      BY <2>1 DEF SenderOK, NoSending
    <2>2. ASSUME kit.files[f] = sender.manifest.files[f],
                 sender' = [sender EXCEPT !.got = [g \in DOMAIN sender.got \cup {f} |->
                                IF g = f THEN kit.files[f] ELSE sender.got[g]]]
          PROVE  SenderOK'
      <3> DEFINE got == [g \in DOMAIN sender.got \cup {f} |->
                            IF g = f THEN kit.files[f] ELSE sender.got[g]]
      <3>1. \A g \in DOMAIN got : got[g] = sender.manifest.files[g]
        BY <1>2, <2>2
      <3>2. got \in UNION {Sets(fs) : fs \in SUBSET Files}
        <4>1. DOMAIN sender.got \subseteq Files
          BY <1>2 DEF Sets
        <4>2. sender.manifest.files \in Contained
          BY <1>2 DEF Manifest
        <4>3. DOMAIN sender.got \cup {f} \in SUBSET Files
          BY <1>1, <4>1
        <4>4. got \in Sets(DOMAIN sender.got \cup {f})
          BY <3>1, <4>2, <4>3 DEF Sets, Contained
        <4> QED
          BY <4>3, <4>4
      <3> HIDE DEF got
      <3>3. sender' = [sender EXCEPT !.got = got]
        BY <2>2 DEF got
      <3>4. /\ sender' \in [at : {"read"}, manifest : Manifest, got : UNION {Sets(fs) : fs \in SUBSET Files}]
            /\ sender'.got = got /\ sender'.manifest = sender.manifest /\ sender'.at = "read"
        BY <1>2, <3>2, <3>3
      <3> QED
        BY <1>2, <3>1, <3>4 DEF SenderOK
    <2> QED
      BY <1>1, <2>1, <2>2
  <1> QED
    BY <1>3, SenderMoves DEF KitInv, SentOK, bounds

LEMMA SentKeeps ==
    ASSUME KitInv, Sent
    PROVE  KitInv'
  <1> USE DEF Sent
  <1>1. PICK what \in {"torrent", "kit"} :
          sent' = [manifest |-> sender.manifest, files |-> [f \in Want(what) |-> sender.got[f]]]
    OBVIOUS
  <1>2. /\ Good(sender.manifest, prep.payload) /\ UNCHANGED prep
        /\ \A f \in Files : sender.got[f] = sender.manifest.files[f]
    BY DEF KitInv, SenderOK
  <1>3. Want(what) \subseteq Files
    BY <1>1 DEF Want, Files
  <1>4. SentOK'
    BY <1>1, <1>2, <1>3 DEF SentOK
  <1>5. SenderOK'
    BY DEF SenderOK, NoSending
  <1> QED
    BY <1>4, <1>5, SenderMoves DEF bounds

-----------------------------------------------------------------------------
LEMMA StepKeeps ==
    ASSUME KitInv, [KitNext]_kitVars
    PROVE  KitInv'
  <1>1. CASE UNCHANGED kitVars
    BY <1>1, SendsKeep, BuildKeeps, RowKeeps DEF kitVars, KitInv, KitTyped
  <1>2. CASE BuildBreaks
    BY <1>2, BuildFailsKeeps DEF BuildBreaks
  <1> QED
    BY <1>1, <1>2, EditKeeps, SpoilKeeps, NeedsReviewKeeps, BuildStartsKeeps, HashingKeeps, TorrentKeeps,
       PayloadProvedKeeps, KitStagedKeeps, KitPublishedKeeps, KitReadyKeeps, KitCrashKeeps,
       SendingStartsKeeps, FileVerifiedKeeps, SentKeeps DEF KitNext

LEMMA InvIsSound == KitInv => OnlyTheApprovedLeaves
  BY DEF KitInv, KitTyped, SentOK, RowOK, Good, Kits, Contained, OnlyTheApprovedLeaves

(* For any number of pieces, edits, builds, sendings and crashes: the        *)
(* manifest of an approved kit, and of everything that was sent, is of the   *)
(* payload the preparation was made for, a kit under its final name is       *)
(* whole, and what was sent is what its manifest names.                      *)
THEOREM OnlyApprovedContentsLeave == KitSpec => []OnlyTheApprovedLeaves
  <1>1. KitInv /\ [KitNext]_kitVars => KitInv'
    BY StepKeeps
  <1> QED
    BY <1>1, InitHolds, InvIsSound, PTL DEF KitSpec

-----------------------------------------------------------------------------
(* The backups can be relied on, for any numbers of commits, backups and     *)
(* crashes and any retention.                                                *)

BackupContents == [row : Nat, schema : Int]
TaskFields     == {"at", "group", "name", "copy", "doomed", "source"}
Making(p)      == Doing(p) \in {"copy", "name", "record"}
Restoring      == task["cli"].group = "pre-restore"

\* What was recorded after n, and that it is enough to let n go.
NewerRecorded(n) == {m \in DOMAIN recorded : m > n /\ recorded[m] = recorded[n]}
Plenty(n)        == Cardinality(NewerRecorded(n)) >= LeastKeep(recorded[n])

DataOK == truth \in had /\ had \subseteq BackupContents /\ Shown = truth

FilesListed ==
    /\ named \in Nat /\ DOMAIN stored \subseteq 1..named
    /\ DOMAIN recorded \subseteq 1..named /\ DOMAIN manifests \subseteq DOMAIN recorded

(* A manifest tells the group and the content, and a file that is gone has   *)
(* enough newer ones.                                                        *)
FilesTrue ==
    /\ \A n \in DOMAIN stored : stored[n] \in had
    /\ \A n \in DOMAIN manifests : manifests[n].group = recorded[n]
    /\ \A n \in Listed : manifests[n].content = stored[n]
    /\ \A n \in DOMAIN recorded : n \in Listed \/ Plenty(n)

(* A name that is in the making is not recorded, and what a pruning has in   *)
(* hand may go.                                                              *)
TaskHolds(p) ==
    /\ DOMAIN task[p] = TaskFields
    /\ Making(p) => task[p].name \in 1..named /\ task[p].name \notin DOMAIN recorded
    /\ Doing(p) = "name" => task[p].copy \in had
    /\ Doing(p) = "record" => task[p].name \in DOMAIN stored
    /\ \A n \in task[p].doomed : n \in DOMAIN recorded /\ Plenty(n)
    /\ Doing(p) = "migrate" => task[p].group = "pre-migration"
    /\ Doing(p) = "idle" => task[p].group # "pre-restore"

TwoNames(p, q) == p # q /\ Making(p) /\ Making(q) => task[p].name # task[q].name

TasksOK ==
    /\ DOMAIN task = Processes
    /\ \A p \in Processes : TaskHolds(p)
    /\ \A p, q \in Processes : TwoNames(p, q)

(* A restore is alone, and from its backup on nothing is in the log.         *)
RestoreAlone ==
    /\ up = {} /\ \A s \in Services : Doing(s) = "idle"
    /\ Doing("cli") \in {"copy", "name", "record", "restore", "unlink", "replace"}
    /\ task["cli"].source \in DOMAIN stored
    /\ Doing("cli") # "copy" => wal = NoContent
    /\ Doing("cli") = "name" => task["cli"].copy = truth
    /\ Doing("cli") = "record" => stored[task["cli"].name] = truth
    /\ Doing("cli") \in {"restore", "unlink", "replace"} => \E n \in Listed : stored[n] = truth
    /\ Doing("cli") \in {"unlink", "replace"} => task["cli"].copy \in had

RestoreOK ==
    /\ Doing("cli") \in {"restore", "unlink", "replace"} => Restoring
    /\ Restoring => RestoreAlone

BackupInv == DataOK /\ FilesListed /\ FilesTrue /\ TasksOK /\ RestoreOK

-----------------------------------------------------------------------------
(* Counting                                                                  *)

LEMMA KeepIsNumber ==
    ASSUME NEW g
    PROVE  LeastKeep(g) \in Nat
  BY BackupAssumption DEF LeastKeep

LEMMA LeastIsLeast ==
    ASSUME NEW p, NEW g
    PROVE  Keep(p, g) \in Nat /\ LeastKeep(g) <= Keep(p, g)
  BY BackupAssumption DEF LeastKeep, Keep

LEMMA NewerFinite ==
    ASSUME FilesListed, NEW n
    PROVE  IsFiniteSet(DOMAIN recorded) /\ IsFiniteSet(NewerRecorded(n)) /\ Cardinality(NewerRecorded(n)) \in Nat
<1>1. IsFiniteSet(1..named)
  BY FS_Interval DEF FilesListed
<1>2. IsFiniteSet(DOMAIN recorded)
  BY <1>1, FS_Subset DEF FilesListed
<1>3. NewerRecorded(n) \in SUBSET DOMAIN recorded
  BY DEF NewerRecorded
<1>4. IsFiniteSet(NewerRecorded(n))
  BY <1>2, <1>3, FS_Subset
<1> QED BY <1>2, <1>4, FS_CardinalityType

\* What is remembered stays remembered.
Remembered ==
    DOMAIN recorded \subseteq DOMAIN recorded' /\ \A n \in DOMAIN recorded : recorded'[n] = recorded[n]

LEMMA PlentyGrows ==
    ASSUME FilesListed, FilesListed', Remembered, NEW n \in DOMAIN recorded, Plenty(n)
    PROVE  Plenty(n)'
<1>1. NewerRecorded(n) \subseteq NewerRecorded(n)'
  BY DEF Remembered, NewerRecorded
<1>2. IsFiniteSet(NewerRecorded(n)') /\ Cardinality(NewerRecorded(n)') \in Nat
  <2>1. IsFiniteSet(1..named')
    BY FS_Interval DEF FilesListed
  <2>2. IsFiniteSet(DOMAIN recorded')
    BY <2>1, FS_Subset DEF FilesListed
  <2>3. NewerRecorded(n)' \in SUBSET DOMAIN recorded'
    BY DEF NewerRecorded
  <2>4. IsFiniteSet(NewerRecorded(n)')
    BY <2>2, <2>3, FS_Subset
  <2> QED BY <2>4, FS_CardinalityType
<1>3. Cardinality(NewerRecorded(n)) <= Cardinality(NewerRecorded(n)')
  BY <1>1, <1>2, FS_Subset
<1>4. LeastKeep(recorded[n]) \in Nat /\ recorded'[n] = recorded[n]
  BY KeepIsNumber DEF Remembered
<1>5. Cardinality(NewerRecorded(n)) \in Nat
  BY NewerFinite
<1> QED BY <1>2, <1>3, <1>4, <1>5, SMT DEF Plenty, LeastKeep

\* What the listing dooms has enough newer ones.
LEMMA ListingSpares ==
    ASSUME FilesListed, FilesTrue, NEW p, NEW n \in Listed,
           Cardinality(Newer(n)) >= Keep(p, manifests[n].group)
    PROVE  n \in DOMAIN recorded /\ Plenty(n)
<1>1. n \in DOMAIN recorded /\ manifests[n].group = recorded[n]
  BY DEF Listed, FilesListed, FilesTrue
<1>2. Newer(n) \subseteq NewerRecorded(n)
  <2> SUFFICES ASSUME NEW m \in Newer(n) PROVE m \in NewerRecorded(n)
    OBVIOUS
  <2>1. m \in Listed /\ m > n /\ manifests[m].group = manifests[n].group
    BY DEF Newer
  <2>2. m \in DOMAIN recorded /\ manifests[m].group = recorded[m]
    BY <2>1 DEF Listed, FilesListed, FilesTrue
  <2> QED BY <1>1, <2>1, <2>2 DEF NewerRecorded
<1>3. IsFiniteSet(NewerRecorded(n)) /\ Cardinality(NewerRecorded(n)) \in Nat
  BY NewerFinite
<1>4. IsFiniteSet(Newer(n)) /\ Cardinality(Newer(n)) <= Cardinality(NewerRecorded(n))
  BY <1>2, <1>3, FS_Subset
<1>5. Cardinality(Newer(n)) \in Nat
  BY <1>4, FS_CardinalityType
<1>6. Keep(p, recorded[n]) \in Nat /\ LeastKeep(recorded[n]) <= Keep(p, recorded[n]) /\ LeastKeep(recorded[n]) \in Nat
  BY LeastIsLeast, KeepIsNumber
<1>7. Cardinality(Newer(n)) >= Keep(p, recorded[n])
  BY <1>1
<1> QED BY <1>1, <1>3, <1>4, <1>5, <1>6, <1>7, SMT DEF Plenty

-----------------------------------------------------------------------------
(* What a step leaves alone                                                  *)

\* Names may be given and states be added.
LEMMA FilesStayAsTheyAre ==
    ASSUME FilesListed, FilesTrue, UNCHANGED <<stored, manifests, recorded>>,
           had \subseteq had', named' \in Nat, named <= named'
    PROVE  FilesListed' /\ FilesTrue' /\ Remembered
<1>1. 1..named \subseteq 1..named'
  BY SMT DEF FilesListed
<1>2. FilesListed'
  BY <1>1 DEF FilesListed
<1>3. \A n \in DOMAIN stored' : stored'[n] \in had'
  BY DEF FilesTrue
<1>4. \A n : Plenty(n)' <=> Plenty(n)
  BY DEF Plenty, NewerRecorded, LeastKeep
<1>5. Listed' = Listed
  BY DEF Listed
<1> QED BY <1>2, <1>3, <1>4, <1>5 DEF FilesTrue, Remembered

LEMMA TaskStays ==
    ASSUME NEW p, TaskHolds(p), FilesListed, FilesListed', Remembered, task'[p] = task[p],
           had \subseteq had', named <= named',
           Making(p) => task[p].name \notin DOMAIN recorded',
           Doing(p) = "record" => task[p].name \in DOMAIN stored'
    PROVE  TaskHolds(p)'
<1>1. \A n \in task[p].doomed : n \in DOMAIN recorded' /\ Plenty(n)'
  BY PlentyGrows DEF TaskHolds, Remembered
<1>2. Making(p)' = Making(p) /\ Doing(p)' = Doing(p)
  BY DEF Making, Doing
<1>3. 1..named \subseteq 1..named'
  BY SMT DEF FilesListed
<1> QED BY <1>1, <1>2, <1>3 DEF TaskHolds

\* A process that ends its task, or is given one that makes nothing.
LEMMA EndedHolds ==
    ASSUME NEW p, task'[p] = Idle
    PROVE  TaskHolds(p)' /\ ~Making(p)' /\ Doing(p)' = "idle"
<1>1. /\ DOMAIN Idle = TaskFields /\ Idle.at = "idle" /\ Idle.group = "manual" /\ Idle.doomed = {}
  BY DEF Idle, TaskFields
<1>2. Doing(p)' = "idle" /\ ~Making(p)'
  BY <1>1 DEF Doing, Making
<1> QED BY <1>1, <1>2 DEF TaskHolds

\* One process changes its task, and makes no backup but the one it made.
OnlyOf(p) == DOMAIN task' = Processes /\ \A q \in Processes \ {p} : task'[q] = task[q]

LEMMA TasksMove ==
    ASSUME TasksOK, NEW p \in Processes, OnlyOf(p), FilesListed, FilesListed', Remembered,
           had \subseteq had', named <= named', TaskHolds(p)',
           Making(p)' => Making(p) /\ task'[p].name = task[p].name,
           \A q \in Processes \ {p} : Making(q) => task[q].name \notin DOMAIN recorded',
           \A q \in Processes \ {p} : Doing(q) = "record" => task[q].name \in DOMAIN stored'
    PROVE  TasksOK'
<1>1. ASSUME NEW q \in Processes PROVE TaskHolds(q)'
  <2>1. CASE q = p
    BY <2>1
  <2>2. CASE q # p
    BY <2>2, TaskStays DEF OnlyOf, TasksOK
  <2> QED BY <2>1, <2>2
<1>2. ASSUME NEW q \in Processes PROVE Making(q)' => Making(q) /\ task'[q].name = task[q].name
  BY DEF OnlyOf, Making, Doing
<1>3. ASSUME NEW q \in Processes, NEW r \in Processes PROVE TwoNames(q, r)'
  <2>1. TwoNames(q, r)
    BY DEF TasksOK
  <2>2. Making(q)' => Making(q) /\ task'[q].name = task[q].name
    BY <1>2
  <2>3. Making(r)' => Making(r) /\ task'[r].name = task[r].name
    BY <1>2
  <2> QED BY <2>1, <2>2, <2>3 DEF TwoNames
<1> QED BY <1>1, <1>3 DEF TasksOK, OnlyOf

\* The files stay as well.
LEMMA TaskMoves ==
    ASSUME BackupInv, NEW p \in Processes, OnlyOf(p), UNCHANGED <<stored, manifests, recorded, named>>,
           had \subseteq had', TaskHolds(p)', Making(p)' => Making(p) /\ task'[p].name = task[p].name
    PROVE  FilesListed' /\ FilesTrue' /\ TasksOK'
<1>1. named \in Nat /\ named <= named'
  BY SMT DEF BackupInv, FilesListed
<1>2. FilesListed' /\ FilesTrue' /\ Remembered
  BY <1>1, FilesStayAsTheyAre DEF BackupInv
<1>3. \A q \in Processes : (Making(q) => task[q].name \notin DOMAIN recorded')
                           /\ (Doing(q) = "record" => task[q].name \in DOMAIN stored')
  BY DEF BackupInv, TasksOK, TaskHolds
<1> QED BY <1>1, <1>2, <1>3, TasksMove DEF BackupInv

LEMMA TasksStand ==
    ASSUME BackupInv, UNCHANGED <<task, stored, manifests, recorded, named>>, had \subseteq had'
    PROVE  FilesListed' /\ FilesTrue' /\ TasksOK'
<1>1. named \in Nat /\ named <= named'
  BY SMT DEF BackupInv, FilesListed
<1>2. FilesListed' /\ FilesTrue' /\ Remembered
  BY <1>1, FilesStayAsTheyAre DEF BackupInv
<1>3. ASSUME NEW q \in Processes PROVE TaskHolds(q)'
  BY <1>1, <1>2, TaskStays DEF BackupInv, TasksOK, TaskHolds
<1>4. \A q, r \in Processes : TwoNames(q, r)' <=> TwoNames(q, r)
  BY DEF TwoNames, Making, Doing
<1> QED BY <1>2, <1>3, <1>4 DEF BackupInv, TasksOK

\* A new backup begins: its name is above all others.
LEMMA BackupIsBegun ==
    ASSUME BackupInv, NEW p \in Processes, NEW g, NEW s, Begun(p, g, s), Doing(p) = "idle",
           UNCHANGED <<stored, manifests, recorded, had>>
    PROVE  /\ FilesListed' /\ FilesTrue' /\ TasksOK' /\ OnlyOf(p)
           /\ task'[p].at = "copy" /\ task'[p].group = g /\ task'[p].source = s
<1>1. named \in Nat /\ named' = named + 1 /\ named <= named' /\ named' \in Nat
  BY SMT DEF BackupInv, FilesListed, Begun
<1>2. FilesListed' /\ FilesTrue' /\ Remembered
  BY <1>1, FilesStayAsTheyAre DEF BackupInv
<1>3. PICK t : t = [Idle EXCEPT !.at = "copy", !.group = g, !.name = named + 1, !.source = s]
  OBVIOUS
<1>4. task' = [task EXCEPT ![p] = t]
  BY <1>3 DEF Begun
<1>5. OnlyOf(p) /\ task'[p] = t
  BY <1>4 DEF BackupInv, TasksOK, OnlyOf
<1>6. /\ DOMAIN t = TaskFields /\ t.at = "copy" /\ t.group = g /\ t.name = named + 1
      /\ t.source = s /\ t.doomed = {}
  BY <1>3 DEF Idle, TaskFields
<1>7. \A q \in Processes : Making(q) => task[q].name \in 1..named /\ task[q].name \notin DOMAIN recorded
  BY DEF BackupInv, TasksOK, TaskHolds
<1>8. named + 1 \in 1..named' /\ named + 1 \notin 1..named
  BY <1>1, SMT
<1>9. TaskHolds(p)'
  <2>1. named + 1 \notin DOMAIN recorded'
    BY <1>8 DEF BackupInv, FilesListed
  <2>2. Doing(p)' = "copy"
    BY <1>5, <1>6 DEF Doing
  <2> QED BY <1>5, <1>6, <1>8, <2>1, <2>2 DEF TaskHolds
<1>10. ASSUME NEW q \in Processes, q # p PROVE TaskHolds(q)'
  <2>1. /\ TaskHolds(q) /\ task'[q] = task[q]
        /\ Making(q) => task[q].name \notin DOMAIN recorded'
        /\ Doing(q) = "record" => task[q].name \in DOMAIN stored'
    BY <1>5, <1>7, <1>10 DEF BackupInv, TasksOK, OnlyOf, TaskHolds
  <2> QED BY <1>1, <1>2, <2>1, TaskStays DEF BackupInv
<1>11. ASSUME NEW q \in Processes, NEW r \in Processes PROVE TwoNames(q, r)'
  <2>1. TwoNames(q, r)
    BY DEF BackupInv, TasksOK
  <2>2. \A x \in Processes \ {p} : Making(x)' => Making(x) /\ task'[x] = task[x]
    BY <1>5 DEF OnlyOf, Making, Doing
  <2>3. \A x \in Processes \ {p} : Making(x)' => task'[x].name # task'[p].name
    BY <1>5, <1>6, <1>7, <1>8, <2>2
  <2> QED BY <2>1, <2>2, <2>3 DEF TwoNames
<1>12. TasksOK'
  BY <1>5, <1>9, <1>10, <1>11 DEF TasksOK, OnlyOf
<1> QED BY <1>2, <1>5, <1>6, <1>12

\* Nobody restores, and nobody begins to.
LEMMA NoRestore ==
    ASSUME RestoreOK, ~Restoring,
           task'["cli"] = task["cli"] \/
             (task'["cli"].group # "pre-restore" /\ task'["cli"].at \notin {"restore", "unlink", "replace"})
    PROVE  RestoreOK'
  BY DEF RestoreOK, Restoring, Doing

\* While somebody restores, only that one does anything.
LEMMA AloneMeans ==
    ASSUME RestoreOK, NEW p \in Processes, Doing(p) # "idle" \/ p \in up, Restoring
    PROVE  p = "cli"
  BY DEF RestoreOK, RestoreAlone, Processes, Services

-----------------------------------------------------------------------------
(* The steps                                                                 *)

LEMMA BackupInitHolds == BackupInit => BackupInv
<1> SUFFICES ASSUME BackupInit PROVE BackupInv
  OBVIOUS
<1>1. PICK f \in [row : {0}, schema : 1..SchemaVersion] :
        file = f /\ truth = f /\ had = {f} /\ wal = NoContent
  BY DEF BackupInit
<1>2. f \in BackupContents
  BY <1>1 DEF BackupContents, SchemaVersion
<1>3. DataOK
  BY <1>1, <1>2 DEF DataOK, Shown
<1>4. DOMAIN stored = {} /\ DOMAIN manifests = {} /\ DOMAIN recorded = {} /\ named = 0
  BY SMT DEF BackupInit
<1>5. FilesListed /\ FilesTrue
  BY <1>4, SMT DEF FilesListed, FilesTrue, Listed
<1>6. DOMAIN task = Processes /\ \A p \in Processes : task[p] = Idle
  BY DEF BackupInit
<1>7. /\ DOMAIN Idle = TaskFields /\ Idle.at = "idle" /\ Idle.group = "manual" /\ Idle.doomed = {}
  BY DEF Idle, TaskFields
<1>8. ASSUME NEW p \in Processes PROVE TaskHolds(p) /\ ~Making(p)
  <2>1. Doing(p) = "idle" /\ task[p] = Idle
    BY <1>6, <1>7 DEF Doing
  <2> QED BY <2>1, <1>7 DEF TaskHolds, Making
<1>9. TasksOK
  BY <1>6, <1>8 DEF TasksOK, TwoNames
<1>10. RestoreOK
  BY <1>6, <1>7 DEF RestoreOK, Restoring, Doing, Processes
<1> QED BY <1>3, <1>5, <1>9, <1>10 DEF BackupInv

LEMMA RealContent ==
    ASSUME NEW c \in BackupContents
    PROVE  c # NoContent
<1>1. c.row \in Nat /\ NoContent.row = -1
  BY DEF BackupContents, NoContent
<1> QED BY <1>1, SMT

\* Steps on the data alone.
LEMMA DataSteps ==
    ASSUME BackupInv, Commit \/ Checkpoint \/ \E p \in Services : ServiceStops(p)
    PROVE  BackupInv'
<1>0. UNCHANGED <<task, stored, manifests, recorded, named>>
  BY DEF Commit, Checkpoint, ServiceStops
<1>1. CASE Commit
  <2>1. PICK c : c = [truth EXCEPT !.row = @ + 1]
    OBVIOUS
  <2>2. truth' = c /\ wal' = c /\ had' = had \cup {c} /\ up # {}
    BY <1>1, <2>1 DEF Commit
  <2>3. c \in BackupContents
    BY <2>1 DEF BackupInv, DataOK, BackupContents
  <2>4. wal' # NoContent
    BY <2>2, <2>3, RealContent
  <2>5. DataOK'
    BY <2>2, <2>3, <2>4 DEF BackupInv, DataOK, Shown
  <2>6. ~Restoring
    BY <2>2 DEF BackupInv, RestoreOK, RestoreAlone
  <2>7. RestoreOK'
    BY <1>0, <2>6, NoRestore DEF BackupInv
  <2>8. FilesListed' /\ FilesTrue' /\ TasksOK'
    BY <1>0, <2>2, TasksStand
  <2> QED BY <2>5, <2>7, <2>8 DEF BackupInv
<1>2. CASE Checkpoint
  <2>1. file' = wal /\ wal' = NoContent /\ UNCHANGED <<truth, had, up>> /\ wal # NoContent
    BY <1>2 DEF Checkpoint
  <2>2. DataOK'
    BY <2>1 DEF BackupInv, DataOK, Shown
  <2>3. RestoreOK'
    BY <1>0, <2>1 DEF BackupInv, RestoreOK, RestoreAlone, Restoring, Doing, Listed
  <2>4. FilesListed' /\ FilesTrue' /\ TasksOK'
    BY <1>0, <2>1, TasksStand
  <2> QED BY <2>2, <2>3, <2>4 DEF BackupInv
<1>3. ASSUME NEW p \in Services, ServiceStops(p) PROVE BackupInv'
  <2>1. UNCHANGED <<truth, had>> /\ p \in up
    BY <1>3 DEF ServiceStops
  <2>2. (file' = Shown /\ wal' = NoContent) \/ (file' = file /\ wal' = wal)
    BY <1>3 DEF ServiceStops
  <2>3. DataOK'
    BY <2>1, <2>2 DEF BackupInv, DataOK, Shown
  <2>4. ~Restoring
    BY <2>1 DEF BackupInv, RestoreOK, RestoreAlone
  <2>5. RestoreOK'
    BY <1>0, <2>4, NoRestore DEF BackupInv
  <2>6. FilesListed' /\ FilesTrue' /\ TasksOK'
    BY <1>0, <2>1, TasksStand
  <2> QED BY <2>3, <2>5, <2>6 DEF BackupInv
<1> QED BY <1>1, <1>2, <1>3

LEMMA DataStands ==
    ASSUME DataOK, UNCHANGED <<file, wal, truth, had>>
    PROVE  DataOK'
  BY DEF DataOK, Shown

\* A backup or a migration begins, or a service is up.
LEMMA BeginSteps ==
    ASSUME BackupInv,
           ScheduledBackup \/ (\E p \in Services : Initialize(p)) \/ (\E p \in Processes : ManualBackup(p))
           \/ RestoreBegins
    PROVE  BackupInv'
<1>0. UNCHANGED <<file, wal, truth, had, stored, manifests, recorded>>
  BY DEF ScheduledBackup, Initialize, ManualBackup, RestoreBegins
<1>1. DataOK'
  BY <1>0, DataStands DEF BackupInv
<1>2. ASSUME NEW p \in Processes, NEW g, Begun(p, g, 0), Doing(p) = "idle", g # "pre-restore",
             ~Restoring
      PROVE  BackupInv'
  <2>1. /\ FilesListed' /\ FilesTrue' /\ TasksOK' /\ OnlyOf(p)
        /\ task'[p].at = "copy" /\ task'[p].group = g
    BY <1>0, <1>2, BackupIsBegun
  <2>2. \/ task'["cli"] = task["cli"]
        \/ (task'["cli"].group # "pre-restore" /\ task'["cli"].at \notin {"restore", "unlink", "replace"})
    BY <1>2, <2>1 DEF OnlyOf, Processes
  <2>3. RestoreOK'
    BY <1>2, <2>2, NoRestore DEF BackupInv
  <2> QED BY <1>1, <2>1, <2>3 DEF BackupInv
<1>3. CASE ScheduledBackup
  <2>1. "worker" \in up /\ Doing("worker") = "idle" /\ Begun("worker", "scheduled", 0) /\ "worker" \in Processes
    BY <1>3 DEF ScheduledBackup, Processes, Services
  <2>2. ~Restoring
    BY <2>1 DEF BackupInv, RestoreOK, RestoreAlone
  <2> QED BY <1>2, <2>1, <2>2
<1>4. ASSUME NEW p \in Services, Initialize(p) PROVE BackupInv'
  <2>1. Doing(p) = "idle" /\ ~Restoring /\ p \in Processes
    BY <1>4 DEF Initialize, Restoring, Processes
  <2>2. CASE Begun(p, "pre-migration", 0)
    BY <1>2, <2>1, <2>2
  <2>3. CASE UNCHANGED <<task, named>>
    <3>1. FilesListed' /\ FilesTrue' /\ TasksOK'
      BY <1>0, <2>3, TasksStand
    <3>2. RestoreOK'
      BY <2>1, <2>3, NoRestore DEF BackupInv
    <3> QED BY <1>1, <3>1, <3>2 DEF BackupInv
  <2> QED BY <1>4, <2>2, <2>3 DEF Initialize
<1>5. ASSUME NEW p \in Processes, ManualBackup(p) PROVE BackupInv'
  <2>1. Doing(p) = "idle" /\ Begun(p, "manual", 0) /\ p \in {"cli"} \cup (up \ {"worker"})
    BY <1>5 DEF ManualBackup
  <2>2. ~Restoring
    <3>1. CASE p = "cli"
      BY <2>1, <3>1 DEF BackupInv, TasksOK, TaskHolds, Restoring
    <3>2. CASE p \in up
      BY <3>2 DEF BackupInv, RestoreOK, RestoreAlone
    <3> QED BY <2>1, <3>1, <3>2
  <2> QED BY <1>2, <2>1, <2>2
<1>6. CASE RestoreBegins
  <2>1. PICK n \in DOMAIN stored : Begun("cli", "pre-restore", n)
    BY <1>6 DEF RestoreBegins
  <2>2. up' = {} /\ \A p \in Processes : Doing(p) = "idle"
    BY <1>6 DEF RestoreBegins
  <2>3. "cli" \in Processes /\ Services \subseteq Processes /\ "cli" \notin Services
    BY DEF Processes, Services
  <2>4. /\ FilesListed' /\ FilesTrue' /\ TasksOK' /\ OnlyOf("cli")
        /\ task'["cli"].at = "copy" /\ task'["cli"].group = "pre-restore" /\ task'["cli"].source = n
    BY <1>0, <2>1, <2>2, <2>3, BackupIsBegun
  <2>5. \A s \in Services : Doing(s)' = "idle"
    BY <2>2, <2>3, <2>4 DEF OnlyOf, Doing
  <2>6. RestoreAlone'
    BY <1>0, <2>2, <2>4, <2>5 DEF RestoreAlone, Doing
  <2>7. RestoreOK'
    BY <2>4, <2>6 DEF RestoreOK, Restoring
  <2> QED BY <1>1, <2>4, <2>7 DEF BackupInv
<1> QED BY <1>3, <1>4, <1>5, <1>6

\* The parts of a task that a step changes.
LEMMA OneTask ==
    ASSUME TasksOK, NEW p \in Processes, NEW t, task' = [task EXCEPT ![p] = t]
    PROVE  OnlyOf(p) /\ task'[p] = t
  BY DEF TasksOK, OnlyOf

LEMMA StepOf ==
    ASSUME TasksOK, NEW p \in Processes, NEW at, Step(p, at)
    PROVE  /\ OnlyOf(p) /\ DOMAIN task'[p] = TaskFields /\ task'[p].at = at
           /\ \A f \in TaskFields \ {"at"} : task'[p][f] = task[p][f]
<1>1. DOMAIN task[p] = TaskFields /\ DOMAIN task = Processes
  BY DEF TasksOK, TaskHolds
<1>2. PICK t : t = [task[p] EXCEPT !.at = at]
  OBVIOUS
<1>3. task' = [task EXCEPT ![p] = t]
  BY <1>2 DEF Step
<1>4. OnlyOf(p) /\ task'[p] = t
  BY <1>3, OneTask
<1> QED BY <1>1, <1>2, <1>4 DEF TaskFields

\* A step on the task of a process that makes nothing of its own any more.
LEMMA EndOf ==
    ASSUME BackupInv, NEW p \in Processes, End(p), UNCHANGED <<stored, manifests, recorded, named>>,
           had \subseteq had'
    PROVE  /\ FilesListed' /\ FilesTrue' /\ TasksOK' /\ OnlyOf(p)
           /\ task'[p].at = "idle" /\ task'[p].group = "manual"
<1>1. OnlyOf(p) /\ task'[p] = Idle
  BY OneTask DEF BackupInv, End
<1>2. TaskHolds(p)' /\ ~Making(p)'
  BY <1>1, EndedHolds
<1>3. FilesListed' /\ FilesTrue' /\ TasksOK'
  BY <1>1, <1>2, TaskMoves
<1> QED BY <1>1, <1>3 DEF Idle

LEMMA EndIsPlain ==
    ASSUME RestoreOK, NEW p \in Processes, OnlyOf(p), task'[p].at = "idle", task'[p].group = "manual",
           Restoring => p = "cli"
    PROVE  RestoreOK'
<1>1. CASE p = "cli"
  BY <1>1 DEF RestoreOK, Restoring, Doing
<1>2. CASE p # "cli"
  <2>1. task'["cli"] = task["cli"]
    BY <1>2 DEF OnlyOf, Processes
  <2> QED BY <1>2, <2>1, NoRestore
<1> QED BY <1>1, <1>2

\* The step keeps the group, and does not begin to restore.
LEMMA StepIsPlain ==
    ASSUME RestoreOK, ~Restoring, NEW p \in Processes, OnlyOf(p), task'[p].group = task[p].group,
           task'[p].at \notin {"restore", "unlink", "replace"}
    PROVE  RestoreOK'
<1>1. CASE p = "cli"
  <2>1. task'["cli"].group # "pre-restore" /\ task'["cli"].at \notin {"restore", "unlink", "replace"}
    BY <1>1 DEF Restoring
  <2> QED BY <2>1, NoRestore
<1>2. CASE p # "cli"
  <2>1. task'["cli"] = task["cli"]
    BY <1>2 DEF OnlyOf, Processes
  <2> QED BY <2>1, NoRestore
<1> QED BY <1>1, <1>2

\* Of a restore only the process that restores has a task.
LEMMA OthersIdle ==
    ASSUME RestoreOK, Restoring, OnlyOf("cli")
    PROVE  (\A s \in Services : Doing(s)' = "idle") /\ up = {}
  BY DEF RestoreOK, RestoreAlone, OnlyOf, Doing, Services, Processes

LEMMA CopyStep ==
    ASSUME BackupInv, NEW p \in Processes, BackupCopies(p)
    PROVE  BackupInv'
<1>0. /\ Doing(p) = "copy" /\ UNCHANGED <<truth, had, up, stored, manifests, recorded, named>>
      /\ TasksOK /\ RestoreOK
  BY DEF BackupCopies, BackupInv
<1>1. PICK t : t = [task[p] EXCEPT !.at = "name", !.copy = Shown]
  OBVIOUS
<1>2. task' = [task EXCEPT ![p] = t]
  BY <1>1 DEF BackupCopies
<1>3. OnlyOf(p) /\ task'[p] = t
  BY <1>0, <1>2, OneTask
<1>4. TaskHolds(p) /\ DOMAIN task[p] = TaskFields
  BY <1>0 DEF TasksOK, TaskHolds
<1>5. /\ DOMAIN t = TaskFields /\ t.at = "name" /\ t.copy = Shown /\ t.group = task[p].group
      /\ t.name = task[p].name /\ t.doomed = task[p].doomed /\ t.source = task[p].source
  BY <1>1, <1>4 DEF TaskFields
<1>6. Shown = truth /\ truth \in had
  BY DEF BackupInv, DataOK
<1>7. Doing(p)' = "name" /\ Making(p)
  BY <1>0, <1>3, <1>5 DEF Doing, Making
<1>8. TaskHolds(p)'
  <2>1. \A n : Plenty(n)' <=> Plenty(n)
    BY <1>0 DEF Plenty, NewerRecorded, LeastKeep
  <2> QED BY <1>0, <1>3, <1>4, <1>5, <1>6, <1>7, <2>1 DEF TaskHolds
<1>9. FilesListed' /\ FilesTrue' /\ TasksOK'
  BY <1>0, <1>3, <1>5, <1>7, <1>8, TaskMoves
<1>10. (file' = Shown /\ wal' = NoContent) \/ (file' = file /\ wal' = wal)
  BY DEF BackupCopies
<1>11. DataOK'
  BY <1>0, <1>10 DEF BackupInv, DataOK, Shown
<1>12. RestoreOK'
  <2>1. CASE ~Restoring
    BY <1>0, <1>3, <1>5, <2>1, StepIsPlain
  <2>2. CASE Restoring
    <3>1. p = "cli"
      BY <1>0, <2>2, AloneMeans
    <3>2. up = {} /\ \A s \in Services : Doing(s) = "idle"
      BY <1>0, <2>2 DEF RestoreOK, RestoreAlone
    <3>3. \A q \in Processes \ {p} : ~Connected(q)
      BY <3>1, <3>2 DEF Connected, Processes
    <3>4. wal' = NoContent
      BY <3>3 DEF BackupCopies
    <3>5. (\A s \in Services : Doing(s)' = "idle") /\ up' = {}
      BY <1>0, <1>3, <2>2, <3>1, OthersIdle
    <3>6. task["cli"].source \in DOMAIN stored
      BY <1>0, <2>2 DEF RestoreOK, RestoreAlone
    <3>7. RestoreAlone'
      BY <1>0, <1>3, <1>5, <1>6, <1>7, <3>1, <3>4, <3>5, <3>6 DEF RestoreAlone
    <3>8. Restoring'
      BY <1>3, <1>5, <2>2, <3>1 DEF Restoring
    <3> QED BY <3>7, <3>8 DEF RestoreOK
  <2> QED BY <2>1, <2>2
<1> QED BY <1>9, <1>11, <1>12 DEF BackupInv

\* What a step of the place alone leaves of a task.
LEMMA StepFields ==
    ASSUME TasksOK, NEW p \in Processes, NEW at, Step(p, at)
    PROVE  /\ OnlyOf(p) /\ DOMAIN task'[p] = TaskFields /\ task'[p].at = at
           /\ task'[p].group = task[p].group /\ task'[p].name = task[p].name
           /\ task'[p].copy = task[p].copy /\ task'[p].doomed = task[p].doomed
           /\ task'[p].source = task[p].source
  BY StepOf DEF TaskFields

LEMMA NameStep ==
    ASSUME BackupInv, NEW p \in Processes, BackupNamed(p)
    PROVE  BackupInv'
<1>0. /\ Doing(p) = "name" /\ UNCHANGED <<file, wal, truth, had, up, manifests, recorded, named>>
      /\ TasksOK /\ RestoreOK /\ FilesListed /\ FilesTrue
  BY DEF BackupNamed, BackupInv
<1>1. /\ OnlyOf(p) /\ DOMAIN task'[p] = TaskFields /\ task'[p].at = "record"
      /\ task'[p].group = task[p].group /\ task'[p].name = task[p].name
      /\ task'[p].copy = task[p].copy /\ task'[p].doomed = task[p].doomed
      /\ task'[p].source = task[p].source
  BY <1>0, StepFields DEF BackupNamed
<1>2. PICK n : n = task[p].name
  OBVIOUS
<1>3. n \in 1..named /\ n \notin DOMAIN recorded /\ task[p].copy \in had
  BY <1>0, <1>2 DEF TasksOK, TaskHolds, Making
<1>4. /\ DOMAIN stored' = DOMAIN stored \cup {n}
      /\ \A m \in DOMAIN stored' : stored'[m] = IF m = n THEN task[p].copy ELSE stored[m]
  BY <1>2 DEF BackupNamed, Stored
<1>5. n \notin DOMAIN manifests /\ Listed' = Listed /\ \A m \in Listed : stored'[m] = stored[m]
  BY <1>0, <1>3, <1>4 DEF FilesListed, Listed
<1>6. \A m : Plenty(m)' <=> Plenty(m)
  BY <1>0 DEF Plenty, NewerRecorded, LeastKeep
<1>7. FilesListed'
  BY <1>0, <1>3, <1>4 DEF FilesListed
<1>8. FilesTrue'
  BY <1>0, <1>3, <1>4, <1>5, <1>6 DEF FilesTrue
<1>9. Remembered /\ named <= named' /\ had \subseteq had'
  BY <1>0, SMT DEF Remembered, FilesListed
<1>10. Doing(p)' = "record" /\ Making(p)
  BY <1>0, <1>1 DEF Doing, Making
<1>11. TaskHolds(p)'
  <2>1. TaskHolds(p) /\ n \in DOMAIN stored'
    BY <1>0, <1>4 DEF TasksOK
  <2> QED BY <1>0, <1>1, <1>2, <1>3, <1>6, <1>10, <2>1 DEF TaskHolds
<1>12. \A q \in Processes : (Making(q) => task[q].name \notin DOMAIN recorded')
                           /\ (Doing(q) = "record" => task[q].name \in DOMAIN stored')
  BY <1>0, <1>4 DEF TasksOK, TaskHolds
<1>13. TasksOK'
  BY <1>0, <1>1, <1>7, <1>9, <1>10, <1>11, <1>12, TasksMove
<1>14. DataOK'
  BY <1>0, DataStands DEF BackupInv
<1>15. RestoreOK'
  <2>1. CASE ~Restoring
    BY <1>0, <1>1, <2>1, StepIsPlain
  <2>2. CASE Restoring
    <3>1. p = "cli"
      BY <1>0, <2>2, AloneMeans
    <3>2. (\A s \in Services : Doing(s)' = "idle") /\ up' = {}
      BY <1>0, <1>1, <2>2, <3>1, OthersIdle
    <3>3. task["cli"].source \in DOMAIN stored /\ wal = NoContent /\ task["cli"].copy = truth
      BY <1>0, <2>2, <3>1 DEF RestoreOK, RestoreAlone
    <3>4. stored'[n] = truth
      BY <1>4, <3>1, <3>3
    <3>5. RestoreAlone'
      BY <1>0, <1>1, <1>2, <1>4, <1>10, <3>1, <3>2, <3>3, <3>4 DEF RestoreAlone
    <3>6. Restoring'
      BY <1>1, <2>2, <3>1 DEF Restoring
    <3> QED BY <3>5, <3>6 DEF RestoreOK
  <2> QED BY <2>1, <2>2
<1> QED BY <1>7, <1>8, <1>13, <1>14, <1>15 DEF BackupInv

LEMMA RecordStep ==
    ASSUME BackupInv, NEW p \in Processes, BackupRecorded(p)
    PROVE  BackupInv'
<1>0. /\ Doing(p) = "record" /\ UNCHANGED <<file, wal, truth, had, up, stored, named>>
      /\ TasksOK /\ RestoreOK /\ FilesListed /\ FilesTrue
  BY DEF BackupRecorded, BackupInv
<1>1. /\ OnlyOf(p) /\ DOMAIN task'[p] = TaskFields /\ task'[p].at = AfterBackup(task[p].group)
      /\ task'[p].group = task[p].group /\ task'[p].name = task[p].name
      /\ task'[p].copy = task[p].copy /\ task'[p].doomed = task[p].doomed
      /\ task'[p].source = task[p].source
  BY <1>0, StepFields DEF BackupRecorded
<1>2. PICK n : n = task[p].name
  OBVIOUS
<1>3. n \in 1..named /\ n \notin DOMAIN recorded /\ n \in DOMAIN stored /\ Making(p)
  BY <1>0, <1>2 DEF TasksOK, TaskHolds, Making
<1>4. PICK e : e = [group |-> task[p].group, content |-> stored[n]]
  OBVIOUS
<1>5. e.group = task[p].group /\ e.content = stored[n]
  BY <1>4
<1>6. /\ DOMAIN manifests' = DOMAIN manifests \cup {n}
      /\ \A m \in DOMAIN manifests' : manifests'[m] = IF m = n THEN e ELSE manifests[m]
  BY <1>2, <1>4 DEF BackupRecorded
<1>7. /\ DOMAIN recorded' = DOMAIN recorded \cup {n}
      /\ \A m \in DOMAIN recorded' : recorded'[m] = IF m = n THEN task[p].group ELSE recorded[m]
  BY <1>2 DEF BackupRecorded
<1>8. FilesListed'
  BY <1>0, <1>3, <1>6, <1>7 DEF FilesListed
<1>9. Remembered /\ named <= named' /\ had \subseteq had'
  BY <1>0, <1>3, <1>7, SMT DEF Remembered, FilesListed
<1>10. Listed' = Listed \cup {n}
  BY <1>0, <1>3, <1>6 DEF Listed
<1>11. \A m \in DOMAIN recorded : m \in Listed' \/ Plenty(m)'
  BY <1>0, <1>8, <1>9, <1>10, PlentyGrows DEF FilesTrue
<1>12. \A m \in DOMAIN recorded' : m \in Listed' \/ Plenty(m)'
  BY <1>7, <1>10, <1>11
<1>13. \A m \in DOMAIN manifests' : manifests'[m].group = recorded'[m]
  BY <1>0, <1>3, <1>5, <1>6, <1>7 DEF FilesTrue, FilesListed
<1>14. \A m \in Listed' : manifests'[m].content = stored'[m]
  BY <1>0, <1>5, <1>6, <1>10 DEF FilesTrue, Listed
<1>15. FilesTrue'
  BY <1>0, <1>12, <1>13, <1>14 DEF FilesTrue
<1>16. Doing(p)' \in {"migrate", "restore", "list"} /\ ~Making(p)'
  BY <1>1 DEF Doing, Making, AfterBackup
<1>17. Doing(p)' = "migrate" => task[p].group = "pre-migration"
  BY <1>1 DEF Doing, AfterBackup
<1>18. TaskHolds(p)'
  <2>1. \A m \in task'[p].doomed : m \in DOMAIN recorded' /\ Plenty(m)'
    BY <1>0, <1>1, <1>8, <1>9, PlentyGrows DEF TasksOK, TaskHolds, Remembered
  <2> QED BY <1>1, <1>16, <1>17, <2>1 DEF TaskHolds
<1>19. ASSUME NEW q \in Processes \ {p} PROVE Making(q) => task[q].name \notin DOMAIN recorded'
  <2>1. TwoNames(p, q) /\ (Making(q) => task[q].name \notin DOMAIN recorded)
    BY <1>0 DEF TasksOK, TaskHolds
  <2> QED BY <1>2, <1>3, <1>7, <2>1 DEF TwoNames
<1>20. \A q \in Processes \ {p} : Doing(q) = "record" => task[q].name \in DOMAIN stored'
  BY <1>0 DEF TasksOK, TaskHolds
<1>21. TasksOK'
  BY <1>0, <1>1, <1>8, <1>9, <1>16, <1>18, <1>19, <1>20, TasksMove
<1>22. DataOK'
  BY <1>0, DataStands DEF BackupInv
<1>23. RestoreOK'
  <2>1. CASE ~Restoring
    <3>1. task'["cli"] = task["cli"] \/
            (task'["cli"].group # "pre-restore" /\ task'["cli"].at \notin {"restore", "unlink", "replace"})
      BY <1>1, <2>1 DEF OnlyOf, Restoring, AfterBackup, Processes
    <3> QED BY <1>0, <2>1, <3>1, NoRestore
  <2>2. CASE Restoring
    <3>1. p = "cli"
      BY <1>0, <2>2, AloneMeans
    <3>2. (\A s \in Services : Doing(s)' = "idle") /\ up' = {}
      BY <1>0, <1>1, <2>2, <3>1, OthersIdle
    <3>3. /\ task["cli"].source \in DOMAIN stored /\ wal = NoContent
          /\ stored[n] = truth
      BY <1>0, <1>2, <2>2, <3>1 DEF RestoreOK, RestoreAlone
    <3>4. Doing("cli")' = "restore"
      BY <1>1, <2>2, <3>1 DEF AfterBackup, Doing, Restoring
    <3>5. \E m \in Listed' : stored'[m] = truth'
      BY <1>0, <1>10, <3>3
    <3>6. RestoreAlone'
      BY <1>0, <1>1, <3>1, <3>2, <3>3, <3>4, <3>5 DEF RestoreAlone
    <3>7. Restoring'
      BY <1>1, <2>2, <3>1 DEF Restoring
    <3> QED BY <3>6, <3>7 DEF RestoreOK
  <2> QED BY <2>1, <2>2
<1> QED BY <1>8, <1>15, <1>21, <1>22, <1>23 DEF BackupInv

\* A step that only moves the place of a task to one that makes nothing.
LEMMA PlaceMoves ==
    ASSUME BackupInv, NEW p \in Processes, NEW at, Step(p, at),
           at \notin {"copy", "name", "record", "idle"}, at = "migrate" => task[p].group = "pre-migration",
           UNCHANGED <<stored, manifests, recorded, named>>, had \subseteq had'
    PROVE  /\ FilesListed' /\ FilesTrue' /\ TasksOK' /\ OnlyOf(p)
           /\ task'[p].at = at /\ task'[p].group = task[p].group
           /\ task'[p].source = task[p].source /\ task'[p].copy = task[p].copy
<1>1. /\ OnlyOf(p) /\ DOMAIN task'[p] = TaskFields /\ task'[p].at = at
      /\ task'[p].group = task[p].group /\ task'[p].doomed = task[p].doomed
      /\ task'[p].source = task[p].source /\ task'[p].copy = task[p].copy
  BY StepFields DEF BackupInv
<1>2. \A n : Plenty(n)' <=> Plenty(n)
  BY DEF Plenty, NewerRecorded, LeastKeep
<1>3. Doing(p)' = at /\ ~Making(p)'
  BY <1>1 DEF Doing, Making
<1>4. TaskHolds(p)'
  <2>1. \A n \in task[p].doomed : n \in DOMAIN recorded /\ Plenty(n)
    BY DEF BackupInv, TasksOK, TaskHolds
  <2> QED BY <1>1, <1>2, <1>3, <2>1 DEF TaskHolds
<1>5. FilesListed' /\ FilesTrue' /\ TasksOK'
  BY <1>1, <1>3, <1>4, TaskMoves
<1> QED BY <1>1, <1>5

LEMMA FailStep ==
    ASSUME BackupInv, NEW p \in Processes, BackupFails(p)
    PROVE  BackupInv'
<1>0. /\ UNCHANGED <<file, wal, truth, had, up, stored, manifests, recorded, named>>
      /\ had \subseteq had' /\ RestoreOK /\ Doing(p) # "idle"
  BY DEF BackupFails, BackupInv
<1>1. DataOK'
  BY <1>0, DataStands DEF BackupInv
<1>2. CASE Migrating(p)
  <2>1. Step(p, "migrate") /\ task[p].group = "pre-migration"
    BY <1>2 DEF BackupFails, Migrating
  <2>2. /\ FilesListed' /\ FilesTrue' /\ TasksOK' /\ OnlyOf(p)
        /\ task'[p].at = "migrate" /\ task'[p].group = task[p].group
    BY <1>0, <2>1, PlaceMoves
  <2>3. ~Restoring
    BY <1>0, <2>1, AloneMeans DEF Restoring
  <2>4. RestoreOK'
    BY <1>0, <2>2, <2>3, StepIsPlain
  <2> QED BY <1>1, <2>2, <2>4 DEF BackupInv
<1>3. CASE ~Migrating(p)
  <2>1. End(p)
    BY <1>3 DEF BackupFails
  <2>2. /\ FilesListed' /\ FilesTrue' /\ TasksOK' /\ OnlyOf(p)
        /\ task'[p].at = "idle" /\ task'[p].group = "manual"
    BY <1>0, <2>1, EndOf
  <2>3. RestoreOK'
    BY <1>0, <2>2, AloneMeans, EndIsPlain
  <2> QED BY <1>1, <2>2, <2>3 DEF BackupInv
<1> QED BY <1>2, <1>3

LEMMA CrashStep ==
    ASSUME BackupInv, NEW p \in Processes, BackupCrash(p)
    PROVE  BackupInv'
<1>0. /\ UNCHANGED <<file, wal, truth, had, stored, manifests, recorded, named>>
      /\ had \subseteq had' /\ RestoreOK /\ (p \in up \/ Doing(p) # "idle") /\ End(p)
  BY DEF BackupCrash, BackupInv, Connected
<1>1. DataOK'
  BY <1>0, DataStands DEF BackupInv
<1>2. /\ FilesListed' /\ FilesTrue' /\ TasksOK' /\ OnlyOf(p)
      /\ task'[p].at = "idle" /\ task'[p].group = "manual"
  BY <1>0, EndOf
<1>3. RestoreOK'
  BY <1>0, <1>2, AloneMeans, EndIsPlain
<1> QED BY <1>1, <1>2, <1>3 DEF BackupInv

LEMMA MigrateStep ==
    ASSUME BackupInv, NEW p \in Processes, Migrates(p)
    PROVE  BackupInv'
<1>0. /\ UNCHANGED <<file, stored, manifests, recorded, named>> /\ Doing(p) = "migrate" /\ End(p)
      /\ truth' = Migrated(truth) /\ wal' = truth' /\ had' = had \cup {truth'} /\ RestoreOK
  BY DEF Migrates, BackupInv
<1>1. truth \in BackupContents
  BY DEF BackupInv, DataOK
<1>2. Migrated(truth) \in BackupContents
  <2>1. PICK c : c = [truth EXCEPT !.schema = SchemaVersion]
    OBVIOUS
  <2>2. c \in BackupContents
    BY <1>1, <2>1 DEF BackupContents, SchemaVersion
  <2> QED BY <1>1, <2>1, <2>2 DEF Migrated, Upgraded
<1>3. wal' # NoContent
  BY <1>0, <1>2, RealContent
<1>4. DataOK'
  BY <1>0, <1>2, <1>3 DEF BackupInv, DataOK, Shown
<1>5. /\ FilesListed' /\ FilesTrue' /\ TasksOK' /\ OnlyOf(p)
      /\ task'[p].at = "idle" /\ task'[p].group = "manual"
  BY <1>0, EndOf
<1>6. ~Restoring
  <2>1. Restoring => p = "cli"
    BY <1>0, AloneMeans
  <2>2. task[p].group = "pre-migration"
    BY <1>0 DEF BackupInv, TasksOK, TaskHolds
  <2> QED BY <2>1, <2>2 DEF Restoring
<1>7. RestoreOK'
  BY <1>0, <1>5, <1>6, EndIsPlain
<1> QED BY <1>4, <1>5, <1>7 DEF BackupInv

\* A pruning is of no restore.
LEMMA PruningMeans ==
    ASSUME RestoreOK, NEW p \in Processes, Doing(p) \in {"list", "prune", "forget"}
    PROVE  ~Restoring
  BY AloneMeans DEF RestoreOK, RestoreAlone

LEMMA ListStep ==
    ASSUME BackupInv, NEW p \in Processes, PruneLists(p)
    PROVE  BackupInv'
<1>0. /\ UNCHANGED <<file, wal, truth, had, up, stored, manifests, recorded, named>>
      /\ had \subseteq had' /\ RestoreOK /\ Doing(p) = "list" /\ TasksOK
      /\ FilesListed /\ FilesTrue
  BY DEF PruneLists, BackupInv
<1>1. PICK d : d = {n \in Listed : Cardinality(Newer(n)) >= Keep(p, manifests[n].group)}
  OBVIOUS
<1>2. PICK t : t = [task[p] EXCEPT !.at = "prune", !.doomed = d]
  OBVIOUS
<1>3. task' = [task EXCEPT ![p] = t]
  BY <1>1, <1>2 DEF PruneLists
<1>4. OnlyOf(p) /\ task'[p] = t
  BY <1>0, <1>3, OneTask
<1>5. DOMAIN task[p] = TaskFields
  BY <1>0 DEF TasksOK, TaskHolds
<1>6. DOMAIN t = TaskFields /\ t.at = "prune" /\ t.doomed = d /\ t.group = task[p].group
  BY <1>2, <1>5 DEF TaskFields
<1>7. \A n \in d : n \in DOMAIN recorded /\ Plenty(n)
  BY <1>0, <1>1, ListingSpares
<1>8. \A n : Plenty(n)' <=> Plenty(n)
  BY <1>0 DEF Plenty, NewerRecorded, LeastKeep
<1>9. Doing(p)' = "prune" /\ ~Making(p)'
  BY <1>4, <1>6 DEF Doing, Making
<1>10. TaskHolds(p)'
  BY <1>0, <1>4, <1>6, <1>7, <1>8, <1>9 DEF TaskHolds
<1>11. FilesListed' /\ FilesTrue' /\ TasksOK'
  BY <1>0, <1>4, <1>9, <1>10, TaskMoves
<1>12. DataOK'
  BY <1>0, DataStands DEF BackupInv
<1>13. RestoreOK'
  BY <1>0, <1>4, <1>6, PruningMeans, StepIsPlain
<1> QED BY <1>11, <1>12, <1>13 DEF BackupInv

\* A file or a manifest goes of a backup that may.
LEMMA OneGoes ==
    ASSUME FilesListed, FilesTrue, NEW n \in DOMAIN recorded, Plenty(n),
           UNCHANGED <<recorded, had, named>>,
           \/ stored' = Without(stored, n) /\ manifests' = manifests
           \/ manifests' = Without(manifests, n) /\ stored' = stored
    PROVE  FilesListed' /\ FilesTrue' /\ Remembered
<1>1. /\ DOMAIN stored' \subseteq DOMAIN stored /\ DOMAIN manifests' \subseteq DOMAIN manifests
      /\ \A m \in DOMAIN stored' : stored'[m] = stored[m]
      /\ \A m \in DOMAIN manifests' : manifests'[m] = manifests[m]
      /\ (DOMAIN stored \cap DOMAIN manifests) \ {n} \subseteq DOMAIN stored' \cap DOMAIN manifests'
  BY DEF Without
<1>2. FilesListed'
  BY <1>1 DEF FilesListed
<1>3. \A m : Plenty(m)' <=> Plenty(m)
  BY DEF Plenty, NewerRecorded, LeastKeep
<1>4. Listed \ {n} \subseteq Listed' /\ Listed' \subseteq Listed
  BY <1>1 DEF Listed
<1>5. \A m \in DOMAIN recorded' : m \in Listed' \/ Plenty(m)'
  BY <1>3, <1>4 DEF FilesTrue
<1>6. FilesTrue'
  BY <1>1, <1>4, <1>5 DEF FilesTrue, Listed
<1> QED BY <1>2, <1>6 DEF Remembered

LEMMA PruneSteps ==
    ASSUME BackupInv, NEW p \in Processes, PruneUnlinks(p) \/ PruneForgets(p)
    PROVE  BackupInv'
<1>0. /\ UNCHANGED <<file, wal, truth, had, up, recorded, named>>
      /\ had \subseteq had' /\ RestoreOK /\ TasksOK /\ FilesListed /\ FilesTrue
      /\ Doing(p) \in {"prune", "forget"} /\ ~Restoring
  BY PruningMeans DEF PruneUnlinks, PruneForgets, BackupInv
<1>1. DataOK'
  BY <1>0, DataStands DEF BackupInv
<1>2. \A n : Plenty(n)' <=> Plenty(n)
  BY <1>0 DEF Plenty, NewerRecorded, LeastKeep
<1>3. CASE End(p) /\ UNCHANGED <<stored, manifests>>
  <2>1. /\ FilesListed' /\ FilesTrue' /\ TasksOK' /\ OnlyOf(p)
        /\ task'[p].at = "idle" /\ task'[p].group = "manual"
    BY <1>0, <1>3, EndOf
  <2>2. RestoreOK'
    BY <1>0, <2>1, EndIsPlain
  <2> QED BY <1>1, <2>1, <2>2 DEF BackupInv
<1>4. ASSUME NEW n \in task[p].doomed, OnlyOf(p), DOMAIN task'[p] = TaskFields,
             task'[p].at \in {"prune", "forget"}, task'[p].group = task[p].group,
             task'[p].doomed \subseteq task[p].doomed,
             \/ stored' = Without(stored, n) /\ manifests' = manifests
             \/ manifests' = Without(manifests, n) /\ stored' = stored
      PROVE  BackupInv'
  <2>1. \A m \in task[p].doomed : m \in DOMAIN recorded /\ Plenty(m)
    BY <1>0 DEF TasksOK, TaskHolds
  <2>2. FilesListed' /\ FilesTrue' /\ Remembered
    BY <1>0, <1>4, <2>1, OneGoes
  <2>3. ~Making(p)' /\ Doing(p)' \in {"prune", "forget"}
    BY <1>4 DEF Making, Doing
  <2>4. TaskHolds(p)'
    BY <1>0, <1>2, <1>4, <2>1, <2>3 DEF TaskHolds
  <2>5. \A q \in Processes \ {p} : (Making(q) => task[q].name \notin DOMAIN recorded')
    BY <1>0 DEF TasksOK, TaskHolds
  <2>6. \A q \in Processes \ {p} : Doing(q) = "record" => task[q].name \in DOMAIN stored'
    <3>1. \A m \in DOMAIN stored : m # n => m \in DOMAIN stored'
      BY <1>4 DEF Without
    <3>2. \A q \in Processes \ {p} : Doing(q) = "record" => task[q].name \in DOMAIN stored /\ task[q].name # n
      BY <1>0, <2>1 DEF TasksOK, TaskHolds, Making
    <3> QED BY <3>1, <3>2
  <2>7. named <= named'
    BY <1>0, SMT DEF FilesListed
  <2>8. TasksOK'
    BY <1>0, <1>4, <2>2, <2>3, <2>4, <2>5, <2>6, <2>7, TasksMove
  <2>9. RestoreOK'
    BY <1>0, <1>4, StepIsPlain
  <2> QED BY <1>1, <2>2, <2>8, <2>9 DEF BackupInv
<1>5. CASE PruneUnlinks(p)
  <2>1. manifests' = manifests
    BY <1>5 DEF PruneUnlinks
  <2>2. CASE task[p].doomed = {}
    BY <1>3, <1>5, <2>1, <2>2 DEF PruneUnlinks
  <2>3. CASE task[p].doomed # {}
    <3>1. PICK n \in task[p].doomed : stored' = Without(stored, n) /\ Step(p, "forget")
      BY <1>5, <2>3 DEF PruneUnlinks
    <3>2. /\ OnlyOf(p) /\ DOMAIN task'[p] = TaskFields /\ task'[p].at = "forget"
          /\ task'[p].group = task[p].group /\ task'[p].doomed = task[p].doomed
      BY <1>0, <3>1, StepFields
    <3> QED BY <1>4, <2>1, <3>1, <3>2
  <2> QED BY <2>2, <2>3
<1>6. CASE PruneForgets(p)
  <2>1. PICK n \in task[p].doomed :
          /\ manifests' = Without(manifests, n)
          /\ task' = [task EXCEPT ![p].at = "prune", ![p].doomed = @ \ {n}]
    BY <1>6 DEF PruneForgets
  <2>2. stored' = stored
    BY <1>6 DEF PruneForgets
  <2>3. PICK t : t = [task[p] EXCEPT !.at = "prune", !.doomed = task[p].doomed \ {n}]
    OBVIOUS
  <2>4. task' = [task EXCEPT ![p] = t]
    BY <2>1, <2>3
  <2>5. OnlyOf(p) /\ task'[p] = t
    BY <1>0, <2>4, OneTask
  <2>6. DOMAIN task[p] = TaskFields
    BY <1>0 DEF TasksOK, TaskHolds
  <2>7. /\ DOMAIN t = TaskFields /\ t.at = "prune" /\ t.group = task[p].group
        /\ t.doomed \subseteq task[p].doomed
    BY <2>3, <2>6 DEF TaskFields
  <2> QED BY <1>4, <2>1, <2>2, <2>5, <2>7
<1> QED BY <1>5, <1>6

\* What a restore does after its backup.
LEMMA RestoreSteps ==
    ASSUME BackupInv, RestoreCopies \/ RestoreUnlinks \/ RestoreReplaces \/ RestoreFails
    PROVE  BackupInv'
<1>0. /\ UNCHANGED <<had, up, stored, manifests, recorded, named>> /\ had \subseteq had'
      /\ TasksOK /\ RestoreOK /\ DataOK /\ FilesListed /\ FilesTrue
      /\ Doing("cli") \in {"restore", "unlink", "replace"} /\ "cli" \in Processes
  BY DEF RestoreCopies, RestoreUnlinks, RestoreReplaces, RestoreFails, BackupInv, Processes
<1>1. Restoring /\ RestoreAlone
  BY <1>0 DEF RestoreOK
<1>2. wal = NoContent /\ Shown = file /\ file = truth
  BY <1>0, <1>1 DEF RestoreAlone, DataOK, Shown
<1>3. CASE RestoreCopies
  <2>1. Doing("cli") = "restore" /\ UNCHANGED <<file, wal, truth>>
    BY <1>3 DEF RestoreCopies
  <2>2. PICK c : c = stored[task["cli"].source]
    OBVIOUS
  <2>3. task["cli"].source \in DOMAIN stored /\ c \in had
    BY <1>0, <1>1, <2>2 DEF RestoreAlone, FilesTrue
  <2>4. PICK t : t = [task["cli"] EXCEPT !.at = "unlink", !.copy = c]
    OBVIOUS
  <2>5. task' = [task EXCEPT !["cli"] = t]
    BY <1>3, <2>2, <2>3, <2>4 DEF RestoreCopies
  <2>6. OnlyOf("cli") /\ task'["cli"] = t
    BY <1>0, <2>5, OneTask
  <2>7. DOMAIN task["cli"] = TaskFields
    BY <1>0 DEF TasksOK, TaskHolds
  <2>8. /\ DOMAIN t = TaskFields /\ t.at = "unlink" /\ t.copy = c /\ t.group = task["cli"].group
        /\ t.source = task["cli"].source /\ t.doomed = task["cli"].doomed
    BY <2>4, <2>7 DEF TaskFields
  <2>9. Doing("cli")' = "unlink" /\ ~Making("cli")'
    BY <2>6, <2>8 DEF Doing, Making
  <2>10. TaskHolds("cli")'
    <3>1. \A n : Plenty(n)' <=> Plenty(n)
      BY <1>0 DEF Plenty, NewerRecorded, LeastKeep
    <3>2. \A n \in task["cli"].doomed : n \in DOMAIN recorded /\ Plenty(n)
      BY <1>0 DEF TasksOK, TaskHolds
    <3> QED BY <1>0, <2>6, <2>8, <2>9, <3>1, <3>2 DEF TaskHolds
  <2>11. FilesListed' /\ FilesTrue' /\ TasksOK'
    BY <1>0, <2>6, <2>9, <2>10, TaskMoves
  <2>12. DataOK'
    BY <1>0, <2>1, DataStands
  <2>13. (\A s \in Services : Doing(s)' = "idle") /\ up' = {}
    BY <1>0, <1>1, <2>6, OthersIdle
  <2>14. \E n \in Listed' : stored'[n] = truth'
    BY <1>0, <1>1, <2>1 DEF RestoreAlone, Listed
  <2>15. RestoreAlone'
    BY <1>0, <1>2, <2>1, <2>3, <2>6, <2>8, <2>9, <2>13, <2>14 DEF RestoreAlone
  <2>16. RestoreOK'
    BY <1>1, <2>6, <2>8, <2>15 DEF RestoreOK, Restoring
  <2> QED BY <2>11, <2>12, <2>16 DEF BackupInv
<1>4. CASE RestoreUnlinks
  <2>1. /\ Doing("cli") = "unlink" /\ UNCHANGED <<file, truth>> /\ wal' = NoContent
        /\ Step("cli", "replace")
    BY <1>4 DEF RestoreUnlinks
  <2>2. /\ FilesListed' /\ FilesTrue' /\ TasksOK' /\ OnlyOf("cli")
        /\ task'["cli"].at = "replace" /\ task'["cli"].group = task["cli"].group
        /\ task'["cli"].source = task["cli"].source /\ task'["cli"].copy = task["cli"].copy
    BY <1>0, <2>1, PlaceMoves
  <2>3. DataOK'
    BY <1>0, <1>2, <2>1 DEF DataOK, Shown
  <2>4. (\A s \in Services : Doing(s)' = "idle") /\ up' = {}
    BY <1>0, <1>1, <2>2, OthersIdle
  <2>5. \E n \in Listed' : stored'[n] = truth'
    BY <1>0, <1>1, <2>1 DEF RestoreAlone, Listed
  <2>6. Doing("cli")' = "replace" /\ task["cli"].copy \in had /\ task["cli"].source \in DOMAIN stored
    BY <1>1, <2>1, <2>2 DEF Doing, RestoreAlone
  <2>7. RestoreAlone'
    BY <1>0, <2>1, <2>2, <2>4, <2>5, <2>6 DEF RestoreAlone
  <2>8. RestoreOK'
    BY <1>1, <2>2, <2>7 DEF RestoreOK, Restoring
  <2> QED BY <2>2, <2>3, <2>8 DEF BackupInv
<1>5. CASE RestoreReplaces \/ RestoreFails
  <2>1. End("cli")
    BY <1>5 DEF RestoreReplaces, RestoreFails
  <2>2. /\ FilesListed' /\ FilesTrue' /\ TasksOK' /\ OnlyOf("cli")
        /\ task'["cli"].at = "idle" /\ task'["cli"].group = "manual"
    BY <1>0, <2>1, EndOf
  <2>3. RestoreOK'
    BY <1>0, <2>2, EndIsPlain
  <2>4. DataOK'
    <3>1. CASE RestoreReplaces
      <4>1. file' = task["cli"].copy /\ truth' = file' /\ wal' = wal /\ task["cli"].copy \in had
        BY <1>1, <3>1 DEF RestoreReplaces, RestoreAlone
      <4> QED BY <1>0, <1>2, <4>1 DEF DataOK, Shown
    <3>2. CASE RestoreFails
      BY <1>0, <3>2, DataStands DEF RestoreFails
    <3> QED BY <1>5, <3>1, <3>2
  <2> QED BY <2>2, <2>3, <2>4 DEF BackupInv
<1> QED BY <1>3, <1>4, <1>5

LEMMA BackupStepHolds == BackupInv /\ [BackupNext]_backupVars => BackupInv'
<1> SUFFICES ASSUME BackupInv, [BackupNext]_backupVars PROVE BackupInv'
  OBVIOUS
<1>1. CASE Commit \/ Checkpoint \/ \E p \in Services : ServiceStops(p)
  BY <1>1, DataSteps
<1>2. CASE ScheduledBackup \/ (\E p \in Services : Initialize(p)) \/ (\E p \in Processes : ManualBackup(p))
           \/ RestoreBegins
  BY <1>2, BeginSteps
<1>3. ASSUME NEW p \in Processes,
             \/ BackupCopies(p) \/ BackupNamed(p) \/ BackupRecorded(p) \/ BackupFails(p)
             \/ Migrates(p) \/ PruneLists(p) \/ PruneUnlinks(p) \/ PruneForgets(p) \/ BackupCrash(p)
      PROVE  BackupInv'
  BY <1>3, CopyStep, NameStep, RecordStep, FailStep, MigrateStep, ListStep, PruneSteps, CrashStep
<1>4. CASE RestoreCopies \/ RestoreUnlinks \/ RestoreReplaces \/ RestoreFails
  BY <1>4, RestoreSteps
<1>5. CASE UNCHANGED backupVars
  <2>1. UNCHANGED <<file, wal, truth, had, up, stored, manifests, recorded, task, named>>
    BY <1>5 DEF backupVars
  <2>2. FilesListed' /\ FilesTrue' /\ TasksOK'
    BY <2>1, TasksStand
  <2>3. RestoreOK'
    BY <2>1 DEF BackupInv, RestoreOK, RestoreAlone, Restoring, Doing, Listed
  <2>4. DataOK'
    BY <2>1, DataStands DEF BackupInv
  <2> QED BY <2>2, <2>3, <2>4 DEF BackupInv
<1> QED BY <1>1, <1>2, <1>3, <1>4, <1>5 DEF BackupNext

(* A restore can stop anywhere, two processes can prune at once, and any of  *)
(* them may die between two steps: what SQLite reads is what was committed   *)
(* last, what a restore replaces can be got back, every backup is a state    *)
(* there was, and the newest of each group stay (db_backup.py).              *)
THEOREM BackupsCanBeReliedOn == BackupSpec => []BackupsHold
<1>1. BackupInv => BackupsHold
  <2> SUFFICES ASSUME BackupInv PROVE RestoreIsSafe /\ BackupsAreTrue
    BY DEF BackupsHold
  <2>1. RestoreIsSafe
    BY DEF BackupInv, DataOK, RestoreOK, RestoreAlone, RestoreIsSafe
  <2>2. ASSUME NEW n \in DOMAIN recorded,
               Cardinality({m \in DOMAIN recorded : m > n /\ recorded[m] = recorded[n]})
                   < LeastKeep(recorded[n])
        PROVE  n \in Listed
    <3>1. n \in Listed \/ Plenty(n)
      BY DEF BackupInv, FilesTrue
    <3>2. Cardinality(NewerRecorded(n)) \in Nat /\ LeastKeep(recorded[n]) \in Nat
      BY NewerFinite, KeepIsNumber DEF BackupInv
    <3>3. Cardinality(NewerRecorded(n)) < LeastKeep(recorded[n])
      BY <2>2 DEF NewerRecorded
    <3>4. ~Plenty(n)
      BY <3>2, <3>3, SMT DEF Plenty
    <3> QED BY <3>1, <3>4
  <2>3. BackupsAreTrue
    BY <2>2 DEF BackupInv, FilesTrue, BackupsAreTrue
  <2> QED BY <2>1, <2>3
<1> QED BY BackupInitHolds, BackupStepHolds, <1>1, PTL DEF BackupSpec

-----------------------------------------------------------------------------
(* The unattended update: for any versions, publishings, runs and kills, no  *)
(* run nobody watches goes back, trusts what contradicts itself, or retries  *)
(* a release for ever.                                                       *)

\* A set of naturals has a least one and, if it is bounded, a greatest.
LEMMA LeastOf ==
    ASSUME NEW T, T \subseteq Nat, T # {}
    PROVE  \E x \in T : \A y \in T : x <= y
<1>1. PICK R : R = OpToRel(<, Nat)
  OBVIOUS
<1>2. IsWellFoundedOn(R, Nat)
  BY <1>1, NatLessThanWellFounded
<1>3. PICK x \in T : \A y \in T : ~ (<<y, x>> \in R)
  BY <1>2, WFMin
<1>4. \A a, b \in Nat : a < b => <<a, b>> \in R
  BY <1>1 DEF OpToRel
<1>5. \A y \in T : x \in Nat /\ y \in Nat /\ ~(y < x)
  BY <1>3, <1>4
<1>6. \A y \in T : x <= y
  BY <1>5
<1> QED BY <1>6

LEMMA GreatestOf ==
    ASSUME NEW T, T \subseteq Nat, T # {}, NEW b \in Nat, \A y \in T : y <= b
    PROVE  \E x \in T : \A y \in T : y <= x
<1> DEFINE U == {n \in Nat : \E y \in T : n = b - y}
<1>1. \A y \in T : b - y \in U
  OBVIOUS
<1>2. U \subseteq Nat /\ U # {}
  BY <1>1
<1> HIDE DEF U
<1>3. PICK u \in U : \A v \in U : u <= v
  BY <1>2, LeastOf
<1>4. PICK x \in T : u = b - x
  BY <1>3 DEF U
<1>5. \A y \in T : b - x <= b - y
  BY <1>1, <1>3, <1>4
<1>6. \A y \in T : y \in Nat /\ x \in Nat
  OBVIOUS
<1>7. \A y \in T : y <= x
  BY <1>5, <1>6
<1> QED BY <1>7

Bounded(tags) == \E b \in Nat : \A v \in tags : v <= b

LEMMA NewestOf ==
    ASSUME NEW tags, tags \subseteq Nat, tags # {}, Bounded(tags)
    PROVE  Newest(tags) \in tags
BY GreatestOf DEF Bounded, Newest

-----------------------------------------------------------------------------
(* The inductive invariant                                                   *)

CheckPlaces == {"rest", "look", "gate", "verify", "install", "installed"}

PublishedOK == Releases \subseteq Versions /\ Bounded(Releases) /\ installed \in Versions

DocOK(doc) == DOMAIN doc = {"state", "latest", "failedTag", "failures"} /\ doc.failures \in Nat

CheckTypes ==
    /\ DocOK(status) /\ strikes \in 0..MaxFailed
    /\ DOMAIN check = {"at", "command", "tag", "unsigned", "have", "doc"} /\ DocOK(check.doc)
    /\ check.at \in CheckPlaces /\ check.command \in {"run", "check", "install"}

\* A run has the attempts of status.json, and the operator's stands alone.
RunKnows ==
    check.at # "rest" =>
        /\ check.doc.failedTag = status.failedTag /\ check.doc.failures = status.failures
        /\ check.command = "install" => strikes = 0 /\ check.tag \in Versions
        /\ check.command # "install" => ~check.unsigned

\* Past the decision, a run that nobody watches has a newer release before it.
RunDecided ==
    check.at \in {"gate", "verify", "install", "installed"} =>
        /\ check.command # "check" /\ check.tag \in Versions /\ check.doc.latest = check.tag
        /\ check.command = "run" => Automatic /\ Failures(check.doc, check.tag) < MaxFailed
        /\ check.command = "run" /\ check.at # "installed" => check.tag > installed
        /\ strikes > 0 => check.tag = Newest(Releases)
        /\ check.at = "installed" => check.tag = installed
        /\ check.at = "install" => Trusted(check.have)

\* The failures of the newest release are counted, until it is installed.
StrikesCounted ==
    strikes > 0 =>
        /\ Releases # {}
        /\ \/ status.failedTag = Newest(Releases) /\ strikes <= status.failures
           \/ installed = Newest(Releases)

UpdateInv == PublishedOK /\ CheckTypes /\ RunKnows /\ RunDecided /\ StrikesCounted

-----------------------------------------------------------------------------
(* The steps                                                                 *)

LEMMA UpdateInitHolds == UpdateInit => UpdateInv
<1> SUFFICES ASSUME UpdateInit PROVE UpdateInv
  OBVIOUS
<1>1. installed \in Versions /\ Releases = {installed} /\ status = NoStatus /\ check = AtRest /\ strikes = 0
  BY DEF UpdateInit, Releases
<1>2. PublishedOK
  <2>1. installed \in Nat
    BY <1>1, UpdateAssumption
  <2> QED BY <1>1, <2>1 DEF PublishedOK, Bounded
<1>3. CheckTypes
  BY <1>1 DEF CheckTypes, DocOK, NoStatus, AtRest, MaxFailed, CheckPlaces
<1>4. check.at = "rest"
  BY <1>1 DEF AtRest
<1> QED BY <1>1, <1>2, <1>3, <1>4 DEF UpdateInv, RunKnows, RunDecided, StrikesCounted

\* Tags change: what is known of the newest one holds if it stays the newest.
LEMMA TagsChange ==
    ASSUME UpdateInv, PublishedOK',
           installed' = installed, status' = status, check' = check,
           strikes' = IF NewestIs(Releases, Releases') THEN strikes ELSE 0
    PROVE  UpdateInv'
<1>1. strikes' \in 0..MaxFailed /\ (strikes' > 0 => strikes' = strikes /\ strikes > 0
        /\ Newest(Releases') = Newest(Releases) /\ Releases' # {})
  BY DEF UpdateInv, CheckTypes, NewestIs, MaxFailed
<1>2. CheckTypes'
  BY <1>1 DEF UpdateInv, CheckTypes
<1>3. RunKnows'
  BY <1>1 DEF UpdateInv, RunKnows, CheckTypes, MaxFailed
<1>4. Newest(Releases)' = Newest(Releases')
  OBVIOUS
<1>5. RunDecided'
  <2> SUFFICES ASSUME check.at \in {"gate", "verify", "install", "installed"}
               PROVE  RunDecided'
    BY DEF RunDecided
  <2>1. strikes' > 0 => check.tag = Newest(Releases)'
    BY <1>1, <1>4 DEF UpdateInv, RunDecided
  <2>2. Trusted(check.have)' = Trusted(check.have)
    BY DEF Trusted
  <2>3. Failures(check.doc, check.tag)' = Failures(check.doc, check.tag)
    BY DEF Failures
  <2> QED BY <2>1, <2>2, <2>3 DEF UpdateInv, RunDecided
<1>6. StrikesCounted'
  BY <1>1, <1>4 DEF UpdateInv, StrikesCounted
<1> QED BY <1>2, <1>3, <1>5, <1>6 DEF UpdateInv

LEMMA PublishHolds == ASSUME UpdateInv, Publish PROVE UpdateInv'
<1>1. PICK v \in Versions, q \in Qualities :
        published' = [w \in DOMAIN published \cup {v} |-> IF w = v THEN q ELSE published[w]]
  BY DEF Publish
<1>2. Releases' = Releases \cup {v}
  BY <1>1 DEF Releases
<1>3. PICK b \in Nat : \A w \in Releases : w <= b
  BY DEF UpdateInv, PublishedOK, Bounded
<1>4. v \in Nat /\ Releases \subseteq Nat
  BY UpdateAssumption DEF UpdateInv, PublishedOK
<1>5. b + v \in Nat /\ \A w \in Releases' : w <= b + v
  BY <1>2, <1>3, <1>4
<1>6. PublishedOK'
  BY <1>2, <1>5 DEF UpdateInv, PublishedOK, Bounded, Publish
<1>7. /\ installed' = installed /\ status' = status /\ check' = check
      /\ strikes' = IF NewestIs(Releases, Releases') THEN strikes ELSE 0
  BY DEF Publish, Releases
<1> QED BY <1>6, <1>7, TagsChange

LEMMA WithdrawHolds == ASSUME UpdateInv, Withdraw PROVE UpdateInv'
<1>1. PICK v \in DOMAIN published : published' = [w \in DOMAIN published \ {v} |-> published[w]]
  BY DEF Withdraw
<1>2. Releases' \subseteq Releases
  BY <1>1 DEF Releases
<1>3. PublishedOK'
  BY <1>2 DEF UpdateInv, PublishedOK, Bounded, Withdraw
<1>4. /\ installed' = installed /\ status' = status /\ check' = check
      /\ strikes' = IF NewestIs(Releases, Releases') THEN strikes ELSE 0
  BY DEF Withdraw, Releases
<1> QED BY <1>3, <1>4, TagsChange

\* A run that ends and leaves the attempts as it found them, or counted them.
LEMMA RunEndsAs ==
    ASSUME UpdateInv, NEW doc, DocOK(doc), NEW state, Recorded(state, doc),
           published' = published, installed' = installed,
           strikes' \in 0..MaxFailed,
           strikes' > 0 =>
              /\ Releases # {}
              /\ (doc.failedTag = Newest(Releases) /\ strikes' <= doc.failures) \/ installed = Newest(Releases)
    PROVE  UpdateInv'
<1>1. PICK d : d = [doc EXCEPT !.state = state] /\ status' = d
  BY DEF Recorded
<1>2. DOMAIN d = DOMAIN doc /\ d.failedTag = doc.failedTag /\ d.failures = doc.failures
  BY <1>1 DEF DocOK
<1>3. check' = AtRest
  BY DEF Recorded
<1>4. Releases' = Releases
  BY DEF Releases
<1>5. PublishedOK'
  BY <1>4 DEF UpdateInv, PublishedOK
<1>6. CheckTypes'
  <2>1. DocOK(status)'
    BY <1>1, <1>2 DEF DocOK
  <2>2. /\ DOMAIN check' = {"at", "command", "tag", "unsigned", "have", "doc"}
        /\ check'.at = "rest" /\ check'.command = "run" /\ check'.doc = NoStatus
    BY <1>3 DEF AtRest
  <2>3. DocOK(NoStatus)
    BY DEF DocOK, NoStatus
  <2> QED BY <2>1, <2>2, <2>3 DEF CheckTypes, CheckPlaces, DocOK
<1>7. check'.at = "rest"
  BY <1>3 DEF AtRest
<1>8. RunKnows' /\ RunDecided'
  BY <1>7 DEF RunKnows, RunDecided
<1>9. StrikesCounted'
  BY <1>1, <1>2, <1>4 DEF StrikesCounted
<1> QED BY <1>5, <1>6, <1>8, <1>9 DEF UpdateInv

\* The same with the document the run has.
LEMMA RunEndsUncounted ==
    ASSUME UpdateInv, check.at # "rest", NEW doc, DocOK(doc),
           doc.failedTag = check.doc.failedTag, doc.failures = check.doc.failures,
           NEW state, Recorded(state, doc),
           published' = published, installed' = installed, strikes' = strikes
    PROVE  UpdateInv'
<1>1. doc.failedTag = status.failedTag /\ doc.failures = status.failures
  BY DEF UpdateInv, RunKnows
<1>2. strikes \in 0..MaxFailed
  BY DEF UpdateInv, CheckTypes
<1>3. strikes > 0 =>
        /\ Releases # {}
        /\ (doc.failedTag = Newest(Releases) /\ strikes <= doc.failures) \/ installed = Newest(Releases)
  BY <1>1 DEF UpdateInv, StrikesCounted
<1> QED BY <1>2, <1>3, RunEndsAs

LEMMA RunStartsHolds ==
    ASSUME UpdateInv, NEW command \in {"run", "check", "install"}, RunStarts(command) PROVE UpdateInv'
<1>1. PICK tag \in Versions, unsigned \in BOOLEAN :
        /\ command # "install" => tag = Newest(Versions) /\ ~unsigned
        /\ check' = [AtRest EXCEPT !.at = "look", !.command = command, !.tag = tag,
                                    !.unsigned = unsigned, !.doc = status]
  BY DEF RunStarts
<1>2. /\ published' = published /\ installed' = installed /\ status' = status
      /\ strikes' = IF command = "install" THEN 0 ELSE strikes
  BY DEF RunStarts
<1>3. /\ DOMAIN check' = {"at", "command", "tag", "unsigned", "have", "doc"}
      /\ check'.at = "look" /\ check'.command = command /\ check'.doc = status /\ check'.unsigned = unsigned
      /\ check'.tag = tag
  BY <1>1 DEF AtRest
<1>4. strikes' \in 0..MaxFailed /\ (strikes' > 0 => strikes' = strikes)
  BY <1>2 DEF UpdateInv, CheckTypes, MaxFailed
<1>5. Releases' = Releases
  BY <1>2 DEF Releases
<1>6. PublishedOK'
  BY <1>2, <1>5 DEF UpdateInv, PublishedOK
<1>7. CheckTypes'
  BY <1>2, <1>3, <1>4 DEF UpdateInv, CheckTypes, CheckPlaces, DocOK
<1>8. RunKnows'
  BY <1>1, <1>2, <1>3 DEF RunKnows
<1>9. RunDecided'
  BY <1>3 DEF RunDecided
<1>10. StrikesCounted'
  BY <1>2, <1>4, <1>5 DEF UpdateInv, StrikesCounted
<1> QED BY <1>6, <1>7, <1>8, <1>9, <1>10 DEF UpdateInv

\* A run that goes on, to a place where no more is known than before.
LEMMA RunGoesOn ==
    ASSUME UpdateInv, published' = published, installed' = installed, status' = status, strikes' = strikes,
           check.at # "rest", NEW c, check' = c,
           DOMAIN c = {"at", "command", "tag", "unsigned", "have", "doc"}, c.at \in CheckPlaces,
           c.command = check.command, c.unsigned = check.unsigned,
           DocOK(c.doc), c.doc.failedTag = check.doc.failedTag, c.doc.failures = check.doc.failures,
           c.command = "install" => c.tag = check.tag,
           RunDecided'
    PROVE  UpdateInv'
<1>1. Releases' = Releases
  BY DEF Releases
<1>2. PublishedOK'
  BY <1>1 DEF UpdateInv, PublishedOK
<1>3. CheckTypes'
  BY DEF UpdateInv, CheckTypes, DocOK
<1>4. RunKnows'
  BY DEF UpdateInv, RunKnows
<1>5. StrikesCounted'
  BY <1>1 DEF UpdateInv, StrikesCounted
<1> QED BY <1>2, <1>3, <1>4, <1>5 DEF UpdateInv

LEMMA CheckFailsHolds == ASSUME UpdateInv, CheckFails PROVE UpdateInv'
BY RunEndsUncounted DEF CheckFails, UpdateInv, CheckTypes

LEMMA RunDefersHolds == ASSUME UpdateInv, RunDefers PROVE UpdateInv'
BY RunEndsUncounted DEF RunDefers, UpdateInv, CheckTypes

LEMMA VerificationFailsHolds == ASSUME UpdateInv, VerificationFails PROVE UpdateInv'
BY RunEndsUncounted DEF VerificationFails, UpdateInv, CheckTypes

LEMMA InstallerDefersHolds == ASSUME UpdateInv, InstallerDefers PROVE UpdateInv'
BY RunEndsUncounted DEF InstallerDefers, UpdateInv, CheckTypes

LEMMA RunLooksHolds == ASSUME UpdateInv, RunLooks PROVE UpdateInv'
<1>1. check.at = "look" /\ (check.command = "install" \/ Releases # {})
      /\ published' = published /\ installed' = installed /\ strikes' = strikes
  BY DEF RunLooks
<1>2. PICK tag : tag = IF check.command = "install" THEN check.tag ELSE Newest(Releases)
  OBVIOUS
<1>3. PICK doc : doc = [check.doc EXCEPT !.latest = tag]
  OBVIOUS
<1>4. DocOK(check.doc)
  BY DEF UpdateInv, CheckTypes
<1>5. DocOK(doc) /\ doc.failedTag = check.doc.failedTag /\ doc.failures = check.doc.failures
      /\ doc.latest = tag
  BY <1>3, <1>4 DEF DocOK
<1>6. ASSUME NEW state, Recorded(state, doc) PROVE UpdateInv'
  BY <1>1, <1>5, <1>6, RunEndsUncounted
<1>7. \/ Recorded("up_to_date", doc) \/ Recorded("update_available", doc) \/ Recorded("blocked", doc)
      \/ /\ check.command # "install" => /\ IsNewer(tag) /\ check.command = "run" /\ Automatic
                                         /\ Failures(doc, tag) < MaxFailed
         /\ check' = [check EXCEPT !.at = "gate", !.tag = tag, !.doc = doc] /\ status' = status
  BY <1>2, <1>3 DEF RunLooks
<1>8. CASE /\ check.command # "install" => /\ IsNewer(tag) /\ check.command = "run" /\ Automatic
                                            /\ Failures(doc, tag) < MaxFailed
           /\ check' = [check EXCEPT !.at = "gate", !.tag = tag, !.doc = doc] /\ status' = status
  <2>1. PICK c : c = [check EXCEPT !.at = "gate", !.tag = tag, !.doc = doc]
    OBVIOUS
  <2>2. check' = c /\ status' = status
    BY <1>8, <2>1
  <2>3. /\ DOMAIN c = {"at", "command", "tag", "unsigned", "have", "doc"} /\ c.at = "gate"
        /\ c.command = check.command /\ c.unsigned = check.unsigned /\ c.doc = doc /\ c.tag = tag
    BY <2>1 DEF UpdateInv, CheckTypes
  <2>4. tag \in Versions
    <3>1. CASE check.command = "install"
      BY <1>1, <1>2, <3>1 DEF UpdateInv, RunKnows
    <3>2. CASE check.command # "install"
      <4>1. Releases # {} /\ Releases \subseteq Versions /\ Bounded(Releases)
        BY <1>1, <3>2 DEF UpdateInv, PublishedOK
      <4>2. Releases \subseteq Nat
        BY <4>1, UpdateAssumption
      <4>3. Newest(Releases) \in Releases
        BY <4>1, <4>2, NewestOf
      <4> QED BY <1>2, <3>2, <4>1, <4>3
    <3> QED BY <3>1, <3>2
  <2>5. strikes > 0 => tag = Newest(Releases)
    <3>1. check.command = "install" => strikes = 0
      BY <1>1 DEF UpdateInv, RunKnows
    <3> QED BY <1>2, <3>1
  <2>6. check.command = "run" => Automatic /\ Failures(doc, tag) < MaxFailed /\ tag > installed
    BY <1>8 DEF IsNewer
  <2>7. check.command # "check"
    BY <1>8
  <2>8. Releases' = Releases
    BY <1>1 DEF Releases
  <2>9. Failures(check.doc, check.tag)' = Failures(doc, tag)
    BY <2>2, <2>3 DEF Failures
  <2>10. check'.at = "gate" /\ check'.command = check.command /\ check'.tag = tag /\ check'.doc.latest = tag
    BY <1>5, <2>2, <2>3
  <2>11. RunDecided'
    BY <1>1, <2>4, <2>5, <2>6, <2>7, <2>8, <2>9, <2>10 DEF RunDecided
  <2>12. c.command = "install" => c.tag = check.tag
    BY <1>2, <2>3
  <2> QED BY <1>1, <1>5, <2>2, <2>3, <2>11, <2>12, RunGoesOn DEF CheckPlaces
<1> QED BY <1>6, <1>7, <1>8

LEMMA RunDownloadsHolds == ASSUME UpdateInv, RunDownloads PROVE UpdateInv'
<1>1. check.at = "gate" /\ published' = published /\ installed' = installed /\ strikes' = strikes
  BY DEF RunDownloads
<1>2. DocOK(check.doc)
  BY DEF UpdateInv, CheckTypes
<1>3. CASE Recorded("check_failed", check.doc)
  BY <1>1, <1>2, <1>3, RunEndsUncounted
<1>4. CASE check' = [check EXCEPT !.at = "verify", !.have = published[check.tag]] /\ status' = status
  <2>1. PICK c : c = [check EXCEPT !.at = "verify", !.have = published[check.tag]]
    OBVIOUS
  <2>2. check' = c
    BY <1>4, <2>1
  <2>3. /\ DOMAIN c = {"at", "command", "tag", "unsigned", "have", "doc"} /\ c.at = "verify"
        /\ c.command = check.command /\ c.unsigned = check.unsigned /\ c.doc = check.doc /\ c.tag = check.tag
    BY <2>1 DEF UpdateInv, CheckTypes
  <2>4. Releases' = Releases
    BY <1>1 DEF Releases
  <2>5. Failures(check.doc, check.tag)' = Failures(check.doc, check.tag)
    BY <2>2, <2>3 DEF Failures
  <2>6. RunDecided'
    BY <1>1, <2>2, <2>3, <2>4, <2>5 DEF RunDecided, UpdateInv
  <2> QED BY <1>1, <1>2, <1>4, <2>2, <2>3, <2>6, RunGoesOn DEF CheckPlaces
<1> QED BY <1>3, <1>4 DEF RunDownloads

LEMMA RunVerifiesHolds == ASSUME UpdateInv, RunVerifies PROVE UpdateInv'
<1>1. check.at = "verify" /\ published' = published /\ installed' = installed /\ strikes' = strikes
  BY DEF RunVerifies
<1>2. DocOK(check.doc)
  BY DEF UpdateInv, CheckTypes
<1>3. CASE Recorded("invalid_release", Counted(check.doc, check.doc.latest, MaxFailed))
  <2>1. PICK doc : doc = Counted(check.doc, check.doc.latest, MaxFailed)
    OBVIOUS
  <2>2. doc = [check.doc EXCEPT !.failedTag = check.doc.latest, !.failures = MaxFailed]
    BY <2>1 DEF Counted, MaxFailed
  <2>3. DocOK(doc) /\ doc.failedTag = check.doc.latest /\ doc.failures = MaxFailed
    BY <1>2, <2>2 DEF DocOK, MaxFailed
  <2>4. check.doc.latest = check.tag /\ (strikes > 0 => check.tag = Newest(Releases))
    BY <1>1 DEF UpdateInv, RunDecided
  <2>5. strikes \in 0..MaxFailed /\ (strikes > 0 => Releases # {})
    BY DEF UpdateInv, CheckTypes, StrikesCounted
  <2>6. strikes > 0 => doc.failedTag = Newest(Releases) /\ strikes <= doc.failures
    BY <2>3, <2>4, <2>5 DEF MaxFailed
  <2> QED BY <1>1, <1>3, <2>1, <2>3, <2>5, <2>6, RunEndsAs
<1>4. CASE Trusted(check.have) /\ check' = [check EXCEPT !.at = "install"] /\ status' = status
  <2>1. PICK c : c = [check EXCEPT !.at = "install"]
    OBVIOUS
  <2>2. check' = c
    BY <1>4, <2>1
  <2>3. /\ DOMAIN c = {"at", "command", "tag", "unsigned", "have", "doc"} /\ c.at = "install"
        /\ c.command = check.command /\ c.unsigned = check.unsigned /\ c.doc = check.doc /\ c.tag = check.tag
        /\ c.have = check.have
    BY <2>1 DEF UpdateInv, CheckTypes
  <2>4. Releases' = Releases
    BY <1>1 DEF Releases
  <2>5. Failures(check.doc, check.tag)' = Failures(check.doc, check.tag)
    BY <2>2, <2>3 DEF Failures
  <2>6. Trusted(check.have)'
    BY <1>4, <2>2, <2>3 DEF Trusted
  <2>7. RunDecided'
    BY <1>1, <2>2, <2>3, <2>4, <2>5, <2>6 DEF RunDecided, UpdateInv
  <2> QED BY <1>1, <1>2, <1>4, <2>2, <2>3, <2>7, RunGoesOn DEF CheckPlaces
<1> QED BY <1>3, <1>4 DEF RunVerifies

LEMMA InstallerFailsHolds == ASSUME UpdateInv, InstallerFails PROVE UpdateInv'
<1>1. check.at = "install" /\ published' = published /\ installed' = installed
      /\ Recorded("install_failed", Counted(check.doc, check.tag, Failures(check.doc, check.tag) + 1))
      /\ strikes' = IF check.command = "run" /\ Releases # {} /\ check.tag = Newest(Releases)
                    THEN strikes + 1 ELSE strikes
  BY DEF InstallerFails
<1>2. DocOK(check.doc) /\ strikes \in 0..MaxFailed
  BY DEF UpdateInv, CheckTypes
<1>3. PICK n : n = Failures(check.doc, check.tag)
  OBVIOUS
<1>4. n \in Nat /\ (check.doc.failedTag = check.tag => n = check.doc.failures)
  BY <1>2, <1>3 DEF Failures, DocOK
<1>5. PICK doc : doc = Counted(check.doc, check.tag, n + 1)
  OBVIOUS
<1>6. doc = [check.doc EXCEPT !.failedTag = check.tag, !.failures = n + 1]
  <2>1. PICK m : m = n + 1 /\ m # 0
    BY <1>4
  <2>2. doc = [check.doc EXCEPT !.failedTag = check.tag, !.failures = m]
    BY <1>5, <2>1 DEF Counted
  <2> QED BY <2>1, <2>2
<1>7. DocOK(doc) /\ doc.failedTag = check.tag /\ doc.failures = n + 1
  BY <1>2, <1>4, <1>6 DEF DocOK
<1>8. /\ check.command # "check" /\ (check.command = "run" => n < MaxFailed /\ check.tag > installed)
      /\ (strikes > 0 => check.tag = Newest(Releases) /\ Releases # {} /\ check.command # "install")
      /\ check.doc.failedTag = status.failedTag /\ check.doc.failures = status.failures
      /\ check.tag \in Versions /\ installed \in Versions
  BY <1>1, <1>2, <1>3 DEF UpdateInv, RunDecided, StrikesCounted, RunKnows, PublishedOK
<1>9. check.command \in {"run", "check", "install"}
  BY DEF UpdateInv, CheckTypes
<1>10. strikes > 0 => strikes <= n
  <2>1. check.tag \in Nat /\ installed \in Nat
    BY <1>8, UpdateAssumption
  <2>2. ASSUME strikes > 0 PROVE strikes <= n
    <3>1. check.tag # installed
      BY <1>8, <1>9, <2>1, <2>2
    <3>2. status.failedTag = Newest(Releases) /\ strikes <= status.failures
      BY <1>8, <2>2, <3>1 DEF UpdateInv, StrikesCounted
    <3> QED BY <1>4, <1>8, <2>2, <3>2
  <2> QED BY <2>2
<1>11. CASE check.command = "run" /\ Releases # {} /\ check.tag = Newest(Releases)
  <2>1. strikes' = strikes + 1 /\ strikes <= n /\ n < 2
    BY <1>1, <1>2, <1>4, <1>8, <1>10, <1>11 DEF MaxFailed
  <2>2. strikes' \in 0..MaxFailed /\ strikes' <= doc.failures
    BY <1>2, <1>4, <1>7, <2>1 DEF MaxFailed
  <2> QED BY <1>1, <1>3, <1>5, <1>7, <1>11, <2>2, RunEndsAs
<1>12. CASE ~(check.command = "run" /\ Releases # {} /\ check.tag = Newest(Releases))
  <2>1. strikes' = strikes /\ ~(strikes > 0)
    BY <1>1, <1>8, <1>9, <1>12
  <2> QED BY <1>1, <1>2, <1>3, <1>5, <1>7, <2>1, RunEndsAs
<1> QED BY <1>11, <1>12

LEMMA InstallerInstallsHolds == ASSUME UpdateInv, InstallerInstalls PROVE UpdateInv'
<1>1. check.at = "install" /\ installed' = check.tag /\ published' = published /\ status' = status
      /\ strikes' = strikes
  BY DEF InstallerInstalls
<1>2. PICK c : c = [check EXCEPT !.at = "installed"]
  OBVIOUS
<1>3. check' = c
  BY <1>2 DEF InstallerInstalls
<1>4. /\ DOMAIN c = {"at", "command", "tag", "unsigned", "have", "doc"} /\ c.at = "installed"
      /\ c.command = check.command /\ c.unsigned = check.unsigned /\ c.doc = check.doc /\ c.tag = check.tag
  BY <1>2 DEF UpdateInv, CheckTypes
<1>5. Releases' = Releases
  BY <1>1 DEF Releases
<1>6. Failures(check.doc, check.tag)' = Failures(check.doc, check.tag)
  BY <1>3, <1>4 DEF Failures
<1>7. RunDecided'
  BY <1>1, <1>3, <1>4, <1>5, <1>6 DEF RunDecided, UpdateInv
<1>8. PublishedOK'
  BY <1>1, <1>5 DEF UpdateInv, PublishedOK, RunDecided
<1>9. CheckTypes'
  BY <1>1, <1>3, <1>4 DEF UpdateInv, CheckTypes, DocOK, CheckPlaces
<1>10. RunKnows'
  BY <1>1, <1>3, <1>4 DEF UpdateInv, RunKnows
<1>11. StrikesCounted'
  BY <1>1, <1>5 DEF UpdateInv, StrikesCounted, RunDecided
<1> QED BY <1>7, <1>8, <1>9, <1>10, <1>11 DEF UpdateInv

LEMMA RunEndsHolds == ASSUME UpdateInv, RunEnds PROVE UpdateInv'
<1>1. check.at = "installed" /\ published' = published /\ installed' = installed /\ strikes' = strikes
  BY DEF RunEnds
<1>2. DocOK(check.doc) /\ strikes \in 0..MaxFailed
  BY DEF UpdateInv, CheckTypes
<1>3. CASE Recorded("check_failed", check.doc)
  BY <1>1, <1>2, <1>3, RunEndsUncounted
<1>4. CASE Recorded("installed", Counted(check.doc, check.tag, 0))
  <2>1. PICK doc : doc = Counted(check.doc, check.tag, 0)
    OBVIOUS
  <2>2. doc = [check.doc EXCEPT !.failedTag = 0, !.failures = 0]
    BY <2>1 DEF Counted
  <2>3. DocOK(doc)
    BY <1>2, <2>2 DEF DocOK
  <2>4. strikes > 0 => Releases # {} /\ installed = Newest(Releases)
    BY <1>1 DEF UpdateInv, RunDecided, StrikesCounted
  <2> QED BY <1>1, <1>2, <1>4, <2>1, <2>3, <2>4, RunEndsAs
<1> QED BY <1>3, <1>4 DEF RunEnds

LEMMA RunKilledHolds == ASSUME UpdateInv, RunKilled PROVE UpdateInv'
<1>1. check' = AtRest /\ published' = published /\ status' = status /\ strikes' = strikes
      /\ (installed' = installed \/ (check.at = "install" /\ installed' = check.tag))
  BY DEF RunKilled
<1>2. Releases' = Releases
  BY <1>1 DEF Releases
<1>3. PublishedOK'
  BY <1>1, <1>2 DEF UpdateInv, PublishedOK, RunDecided
<1>4. /\ DOMAIN check' = {"at", "command", "tag", "unsigned", "have", "doc"}
      /\ check'.at = "rest" /\ check'.command = "run" /\ check'.doc = NoStatus
  BY <1>1 DEF AtRest
<1>5. CheckTypes'
  <2>1. DocOK(NoStatus)
    BY DEF DocOK, NoStatus
  <2> QED BY <1>1, <1>4, <2>1 DEF UpdateInv, CheckTypes, CheckPlaces, DocOK
<1>6. RunKnows' /\ RunDecided'
  BY <1>4 DEF RunKnows, RunDecided
<1>7. StrikesCounted'
  BY <1>1, <1>2 DEF UpdateInv, StrikesCounted, RunDecided
<1> QED BY <1>3, <1>5, <1>6, <1>7 DEF UpdateInv

LEMMA UpdateInvStep == ASSUME UpdateInv, [UpdateNext]_updateVars PROVE UpdateInv'
<1>1. CASE UNCHANGED updateVars
  <2>1. /\ published' = published /\ installed' = installed /\ status' = status /\ check' = check
        /\ strikes' = strikes /\ Releases' = Releases
    BY <1>1 DEF updateVars, Releases
  <2>2. PublishedOK' /\ CheckTypes' /\ RunKnows' /\ StrikesCounted'
    BY <2>1 DEF UpdateInv, PublishedOK, CheckTypes, DocOK, RunKnows, StrikesCounted
  <2>3. RunDecided'
    BY <2>1 DEF UpdateInv, RunDecided, Failures, Trusted
  <2> QED BY <2>2, <2>3 DEF UpdateInv
<1>2. CASE UpdateNext
  BY <1>2, PublishHolds, WithdrawHolds, CheckFailsHolds, RunLooksHolds, RunDefersHolds,
     RunDownloadsHolds, RunStartsHolds, RunVerifiesHolds, VerificationFailsHolds,
     InstallerDefersHolds, InstallerFailsHolds, InstallerInstallsHolds, RunEndsHolds, RunKilledHolds
     DEF UpdateNext
<1> QED BY <1>1, <1>2

LEMMA UpdateInvHolds == UpdateSpec => []UpdateInv
BY UpdateInitHolds, UpdateInvStep, PTL DEF UpdateSpec

UpdateIsSound ==
    /\ installed' # installed =>
            /\ check.command # "check"
            /\ check.have # "incoherent"
            /\ check.command = "run" =>
                 Automatic /\ installed' > installed /\ (RequireSigned => check.have # "unsigned")
    /\ strikes' <= MaxFailed

\* Only the installer changes what is installed, and a kill that finds it at work.
LEMMA OnlyInstallers ==
    ASSUME UpdateInv, UpdateNext, installed' # installed
    PROVE  check.at = "install" /\ installed' = check.tag
BY DEF UpdateNext, Publish, Withdraw, CheckFails, RunLooks, RunDefers, RunDownloads, RunStarts,
       RunVerifies, VerificationFails, InstallerDefers, InstallerFails, InstallerInstalls, RunEnds, RunKilled

(* UpdatesAreSound of ReleaseUpdate: what the timer installs is newer,       *)
(* coherent and, where that is required, signed, whatever happens to the     *)
(* tags during the run, and no release is tried a third time unasked.        *)
THEOREM UnattendedUpdatesAreSound == UpdateSpec => UpdatesAreSound
<1>1. ASSUME UpdateInv, [UpdateNext]_updateVars PROVE [UpdateIsSound]_updateVars
  <2> SUFFICES ASSUME UpdateNext PROVE UpdateIsSound
    BY <1>1
  <2>1. UpdateInv'
    BY <1>1, UpdateInvStep
  <2>2. strikes' <= MaxFailed
    BY <2>1 DEF UpdateInv, CheckTypes, MaxFailed
  <2>3. ASSUME installed' # installed
        PROVE  /\ check.command # "check" /\ check.have # "incoherent"
               /\ check.command = "run" =>
                    Automatic /\ installed' > installed /\ (RequireSigned => check.have # "unsigned")
    <3>1. check.at = "install" /\ installed' = check.tag
      BY <1>1, <2>3, OnlyInstallers
    <3>2. check.command = "run" => ~check.unsigned
      BY <1>1, <3>1 DEF UpdateInv, RunKnows
    <3> QED BY <1>1, <3>1, <3>2 DEF UpdateInv, RunDecided, Trusted, Coherent
  <2> QED BY <2>2, <2>3 DEF UpdateIsSound
<1>2. UpdatesAreSound <=> [][UpdateIsSound]_updateVars
  BY DEF UpdatesAreSound, UpdateIsSound
<1> QED BY <1>1, <1>2, UpdateInvHolds, PTL DEF UpdateSpec
=============================================================================
