----------------------------- MODULE MCJobStore -----------------------------
(* Bounds for model-checking JobStore with two jobs.  While the first job is *)
(* alone it is followed through a long life.  Once there are two, what       *)
(* matters is their competition for the lanes: scans, progress reports and   *)
(* half-done calls are left to the first phase, and the two histories are    *)
(* bounded together, so that each may be long while the other is short.      *)
EXTENDS JobStore

CONSTANTS
    SharedVersions,  \* bound on the sum of jobs.version
    SharedRevisions  \* bound on the sum of jobs.control_revision

ASSUME SharedAssumption == SharedVersions \in Nat /\ SharedRevisions \in Nat

Within(a, b) ==
    a.version + b.version <= SharedVersions /\ a.revision + b.revision <= SharedRevisions

Together ==
    /\ Within(jobs[1], jobs[2])
    /\ \/ call = NoCall
       \/ /\ call.kind = "resume_review"
          /\ jobs[1].version + jobs[2].version < SharedVersions
    /\ \A j \in Jobs : scans[j] = <<>> /\ jobs[j].progress \notin ProgressReports

\* Alone, the first job needs one priority only, unless it is joined later.
Alone == jobs[1].priority = 0 \/ Within(jobs[1], NoRow)

Bounded == IF nextJob > 2 THEN Together ELSE Alone
=============================================================================
