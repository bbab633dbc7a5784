--------------------------- MODULE AtomicRuntime ---------------------------
(* What the updaters promise of the software that runs: it is always one     *)
(* whole version, and a new release replaces all the parts of its kit in one *)
(* step.  No part ever goes back to an older release.                        *)
EXTENDS Integers

CONSTANTS Parts,     \* the parts of the runtime
          Kits       \* the sets of parts that are released together
VARIABLE current     \* the release of every part

Init == \A p, q \in Parts : current[p] = current[q]

Replace(kit) ==
    /\ \A p \in kit, q \in Parts : current'[p] > current[q]
    /\ \A p, q \in kit : current'[p] = current'[q]
    /\ \A q \in Parts \ kit : current'[q] = current[q]

Next == \E kit \in Kits : kit # {} /\ Replace(kit)
Spec == Init /\ [][Next]_current
=============================================================================
