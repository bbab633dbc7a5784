------------------------- MODULE MaintenancePromise -------------------------
(***************************************************************************)
(* What the maintenance journal promises about a destructive operation: it *)
(* is all or nothing.  An operation is open until it is decided once, for  *)
(* good, and only what a decided removal names is ever destroyed.  How the *)
(* files travel through the quarantine, and which process works on what,   *)
(* is left to Maintenance.                                                 *)
(***************************************************************************)
EXTENDS Sequences

CONSTANTS Ops, Paths, TargetsOf

VARIABLES
    outcome,  \* operation -> none, open, removed or undone
    data      \* path -> kept or destroyed

Names(o, p) == \E i \in DOMAIN TargetsOf[o] : TargetsOf[o][i] = p

PromiseInit ==
    /\ outcome = [o \in Ops |-> "none"]
    /\ data = [p \in Paths |-> "kept"]

Open(o) ==
    /\ outcome[o] = "none"
    /\ \A p \in Paths : Names(o, p) => data[p] = "kept"
    /\ outcome' = [outcome EXCEPT ![o] = "open"]
    /\ UNCHANGED data

Settle(o, verdict) ==
    /\ outcome[o] = "open"
    /\ outcome' = [outcome EXCEPT ![o] = verdict]
    /\ UNCHANGED data

Destroy(p) ==
    /\ data[p] = "kept"
    /\ \E o \in Ops : outcome[o] = "removed" /\ Names(o, p)
    /\ data' = [data EXCEPT ![p] = "destroyed"]
    /\ UNCHANGED outcome

PromiseNext ==
    \/ \E o \in Ops : Open(o) \/ Settle(o, "removed") \/ Settle(o, "undone")
    \/ \E p \in Paths : Destroy(p)

AllOrNothing == PromiseInit /\ [][PromiseNext]_<<outcome, data>>
=============================================================================
