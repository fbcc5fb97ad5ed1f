---------------------------- MODULE SessionTimes ----------------------------
(* How long login sessions and access tokens live.                         *)
EXTENDS Naturals

CONSTANTS
    RefreshTTL,  \* REFRESH_TOKEN_TTL_SECONDS
    AccessTTL    \* ACCESS_TOKEN_TTL_SECONDS

ASSUME TTLAssumption == RefreshTTL \in Nat \ {0} /\ AccessTTL \in Nat \ {0}
=============================================================================
