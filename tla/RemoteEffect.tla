---------------------------- MODULE RemoteEffect ----------------------------
(***************************************************************************)
(* What the release service promises about an effect outside the machine   *)
(* (a torrent added to the client, a release published on the tracker): it *)
(* happens at most once.  Who wants it takes the lease of the ledger, and  *)
(* sends one request under one lease.  The lease is given back only when   *)
(* the request is known to have had no effect; in every other case the     *)
(* ledger is closed, and nobody sends again.  A request that nobody waits  *)
(* for any more may still take effect.                                     *)
(***************************************************************************)
VARIABLES
    ledger,  \* clear, leased or closed
    wire,    \* may a request still take effect?
    effect   \* has the effect happened?

vars == <<ledger, wire, effect>>

EffectInit == ledger = "clear" /\ ~wire /\ ~effect

Lease == ledger = "clear" /\ ledger' = "leased" /\ UNCHANGED <<wire, effect>>

Send == /\ ledger = "leased" /\ ~wire /\ ~effect
        /\ wire' = TRUE
        /\ UNCHANGED <<ledger, effect>>

Land == /\ wire
        /\ wire' = FALSE
        /\ effect' \in BOOLEAN /\ (effect => effect')
        /\ UNCHANGED ledger

GiveBack == /\ ledger = "leased" /\ ~wire /\ ~effect
            /\ ledger' = "clear"
            /\ UNCHANGED <<wire, effect>>

Close == ledger # "closed" /\ ledger' = "closed" /\ UNCHANGED <<wire, effect>>

EffectNext == Lease \/ Send \/ Land \/ GiveBack \/ Close

AtMostOnce == EffectInit /\ [][EffectNext]_vars
=============================================================================
