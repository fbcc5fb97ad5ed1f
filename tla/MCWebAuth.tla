------------------------------ MODULE MCWebAuth ------------------------------
(***************************************************************************)
(* The browser with its accounts and sessions, and the handlers that keep  *)
(* the sessions on the server.  The two models share no state, and one run *)
(* checks them: the initial state says which one a behaviour is about.     *)
(*                                                                         *)
(* Two addresses with one name before the @, so that Google names collide; *)
(* a Google account whose address changed.                                 *)
(***************************************************************************)
EXTENDS WebAuth, SessionTimes

CONSTANTS Procs, MaxLogins, MaxClock  \* RefreshSessions

VARIABLES part, sessions, issued, clock, call, loggedOut, admitted

Auth == INSTANCE RefreshSessions WITH MaxSessions <- MaxLogins, tokens <- issued

sessionVars == <<sessions, issued, clock, call, loggedOut, admitted>>
partVars == <<part, vars, sessionVars>>

\* The part that a behaviour is not about stays in one initial state.
PartsInit ==
    /\ part \in {"browser", "sessions"}
    /\ Init /\ (part # "browser" => users = << >>)
    /\ Auth!Init

BrowserPart == part = "browser" /\ Next /\ UNCHANGED <<part, sessionVars>>
SessionsPart == part = "sessions" /\ Auth!Next /\ UNCHANGED <<part, vars>>

PartsNext == BrowserPart \/ SessionsPart

PartsSpec == PartsInit /\ [][PartsNext]_partVars

MCDigest == [w \in Passwords |-> "digest"]
MCBaseName == [e \in Emails |-> "ann"]
MCProfiles == {<<"g1", e>> : e \in Emails}
Local(e, n) == [email |-> e, username |-> <<"ann", n>>, googleId |-> None, digest |-> "digest"]
Google(e, n) == [email |-> e, username |-> <<"ann", n>>, googleId |-> "g1", digest |-> None]
MCMaxJobs == [c \in Clients |-> 1]
MCSeeds == {<< >>, <<Local("ann@a", 0), Google("ann@b", 1)>>}

-----------------------------------------------------------------------------
\* No request that arrives after the logout of its session has returned is admitted,
\* whichever refreshes and logouts are in flight with documents they read before.
NoUseAfterLogout == Auth!NoUseAfterLogout

\* The handlers of login, refresh, logout and authentication implement the session
\* store: a request is let in only while its session is live at that moment.
ImplementsSessionStore == Auth!ImplementsSessionStore
==============================================================================
