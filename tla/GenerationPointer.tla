---------------------------- MODULE GenerationPointer ----------------------------
(***************************************************************************)
(* What the store promises to the traffic of a Hot Application about its   *)
(* row of runtime_extensions: how revision, active generation and          *)
(* quarantine move together.  ExtensionLifecycle implements it and         *)
(* HotApplicationTraffic builds on it.  0 stands for no generation.        *)
(***************************************************************************)
EXTENDS Naturals

CONSTANT Generations   \* generations of the application

ASSUME GenerationsAssumption == Generations \subseteq Nat \ {0}

VARIABLES
    revision,      \* revision of the row
    active,        \* active_generation_id
    quarantined    \* generation retained by a quarantined application

pointer == <<revision, active, quarantined>>

PointerInit == revision = 0 /\ active = 0 /\ quarantined = 0

(* A step of an operation that leaves the generation in place.              *)
Touch == revision' = revision + 1 /\ UNCHANGED <<active, quarantined>>

(* Activation, re-enablement, recovery or rollback: never of the generation *)
(* that is in quarantine.                                                   *)
Activate ==
    /\ active' \in Generations \ {active, quarantined}
    /\ quarantined' = 0
    /\ revision' = revision + 1

(* Disable or uninstall.                                                    *)
Withdraw ==
    /\ active # 0 \/ quarantined # 0
    /\ active' = 0 /\ quarantined' = 0
    /\ revision' = revision + 1

(* The one generation that may be put in quarantine is the active one.      *)
Quarantine ==
    /\ active # 0
    /\ active' = 0 /\ quarantined' = active
    /\ revision' = revision + 1

PointerNext == Touch \/ Activate \/ Withdraw \/ Quarantine

PointerSpec == PointerInit /\ [][PointerNext]_pointer

=============================================================================
