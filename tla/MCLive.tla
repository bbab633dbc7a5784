------------------------------- MODULE MCLive -------------------------------
(* Three things that must come to an end, whatever interrupts them: the      *)
(* stages and requests of the worker's lanes, the leases of the release      *)
(* preparations, and the calls of the process runner.  They share no state,  *)
(* so a behaviour is one of a single component, the others stand at their    *)
(* beginning, and the fairness of each is required where it can move.        *)
EXTENDS Worker, Release, CommandRun

VARIABLE part  \* the component this behaviour is of

LiveInit ==
    /\ part \in {"worker", "release", "command"}
    /\ WorkerInit
    /\ Init
    /\ CommandInit /\ (part # "command" => mode = "run")

\* Steps of one component, which leave the others alone.
InWorker(A)  == part = "worker"  /\ A /\ UNCHANGED <<part, rvars, commandVars>>
InRelease(A) == part = "release" /\ A /\ UNCHANGED <<part, wvars, commandVars>>
InCommand(A) == part = "command" /\ A /\ UNCHANGED <<part, wvars, rvars>>

LiveNext == InWorker(WorkerNext) \/ InRelease(Next) \/ InCommand(CommandNext)

liveVars == <<part, wvars, rvars, commandVars>>

\* The fairness of FairWorkerSpec, FairReleaseSpec and FairCommandSpec.
LiveSpec ==
    /\ LiveInit /\ [][LiveNext]_liveVars
    /\ \A l \in Lanes : WF_liveVars(InWorker(LaneStep(l)))
    /\ WF_liveVars(InWorker(Exit))
    /\ \A t \in Threads : WF_liveVars(InRelease(Step(t)))
    /\ WF_liveVars(InRelease(RecoverJournal))
    /\ WF_liveVars(InRelease(RecoverInterrupted))
    /\ WF_liveVars(InCommand(RunnerStep))
=============================================================================
