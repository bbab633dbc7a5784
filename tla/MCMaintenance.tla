--------------------------- MODULE MCMaintenance ---------------------------
(***************************************************************************)
(* The API with two request threads and the worker with one; a cleanup of  *)
(* the workspace and a purge of the workspace and a release kit.           *)
(***************************************************************************)
EXTENDS Maintenance

MCThreads == {"api1", "api2", "worker"}
MCProcesses == {"api", "worker"}
MCProcessOf == [api1 |-> "api", api2 |-> "api", worker |-> "worker"]
MCOps == {"cleanup", "purge"}
MCPaths == {"kit", "workspace"}
MCTargetsOf == [cleanup |-> <<"workspace">>, purge |-> <<"kit", "workspace">>]
MCKindOf == [cleanup |-> "cleanup", purge |-> "purge"]

AnyoneRuns == [cleanup |-> MCThreads, purge |-> {"api1", "api2"}]
WorkerCleans == [cleanup |-> {"worker"}, purge |-> {"api1", "api2"}]

\* Nothing else goes on; a deletion may be interrupted; a request recovers late;
\* and all of it at once, with a job that is restarted, on a worker's cleanup.
CalmWorld == [deleteInSteps |-> FALSE, jobRestarts |-> FALSE,
              builders |-> {}, runners |-> AnyoneRuns]
SlowDeletion == [CalmWorld EXCEPT !.deleteInSteps = TRUE]
LateRecovery == [CalmWorld EXCEPT !.builders = {"api1", "api2"}]
Disturbed == [deleteInSteps |-> TRUE, jobRestarts |-> TRUE,
              builders |-> {"api1", "api2"}, runners |-> WorkerCleans]

BothWorlds == {CalmWorld, Disturbed}
SlowWorld == {SlowDeletion}
LateWorld == {LateRecovery}
=============================================================================
