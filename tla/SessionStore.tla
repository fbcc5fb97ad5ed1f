---------------------------- MODULE SessionStore ----------------------------
(***************************************************************************)
(* What the login sessions promise, without the handlers that keep them: a *)
(* session is live until it lapses or is revoked, a revoked one stays      *)
(* revoked, and a request is let in only while its session is live.        *)
(* RefreshSessions implements this specification; WebAuth uses its actions *)
(* as the server that the browser talks to.                                *)
(***************************************************************************)
EXTENDS Naturals, Sequences

VARIABLES
    state,    \* state[s]: what became of session s
    granted   \* the sessions in whose name a request was let in

storeVars == <<state, granted>>

Live(s) == s \in DOMAIN state /\ state[s] = "live"

StoreInit == state = << >> /\ granted = {}

Issue ==
    /\ state' = Append(state, "live")
    /\ UNCHANGED granted

\* Time passes: some live sessions reach their end.
Lapse ==
    /\ \E S \in SUBSET {s \in DOMAIN state : Live(s)} :
          state' = [s \in DOMAIN state |-> IF s \in S THEN "lapsed" ELSE state[s]]
    /\ UNCHANGED granted

Revoke(s) ==
    /\ s \in DOMAIN state
    /\ state' = [state EXCEPT ![s] = "revoked"]
    /\ UNCHANGED granted

Grant(s) ==
    /\ Live(s)
    /\ granted' = granted \cup {s}
    /\ UNCHANGED state

StoreNext == Issue \/ Lapse \/ \E s \in DOMAIN state : Revoke(s) \/ Grant(s)

StoreSpec == StoreInit /\ [][StoreNext]_storeVars
=============================================================================
