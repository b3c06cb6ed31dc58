-------------------------- MODULE VerificationStamp --------------------------
(***************************************************************************)
(* What the verification stamp of an Integration promises (spec 3, 4.4),   *)
(* seen from the integration row alone, with no requests: the stamp is     *)
(* set only while it is unset, it is cleared only together with a new      *)
(* webhook secret, and a source can be disconnected.                       *)
(***************************************************************************)
EXTENDS Naturals

CONSTANTS
    MaxTime,    \* bound on the times a stamp can carry
    None        \* an unset webhook_verified_at

VARIABLES
    secret,     \* generation of webhook_secret
    connected,  \* the source is connected
    verifiedAt  \* webhook_verified_at

stampVars == <<secret, connected, verifiedAt>>

Init ==
    /\ secret = 0
    /\ connected = TRUE
    /\ verifiedAt = None

\* The first successful validation under the current secret stamps it.
SetStamp ==
    /\ verifiedAt = None
    /\ \E t \in 0..MaxTime : verifiedAt' = t
    /\ UNCHANGED <<secret, connected>>

\* A reconnect rotates the secret and clears the stamp in one save.
Rotate ==
    /\ secret' = secret + 1
    /\ connected' = TRUE
    /\ verifiedAt' = None

Disconnect ==
    /\ connected' = FALSE
    /\ UNCHANGED <<secret, verifiedAt>>

Next == SetStamp \/ Rotate \/ Disconnect

Spec == Init /\ [][Next]_stampVars

=============================================================================
