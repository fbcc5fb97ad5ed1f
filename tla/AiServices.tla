----------------------------- MODULE AiServices -----------------------------
(***************************************************************************)
(* The AI services: the model calls of the backend, which share one        *)
(* rotating API key, behind reply suggestions, the chatbot and moderation; *)
(* and the page that asks for suggestions.                                 *)
(*                                                                         *)
(* All three callers name the model, so generateContent's loop over models *)
(* has one round and rotateModel is never reached.  The records that       *)
(* markKeyFailure and markKeySuccess keep are read by nobody and left out. *)
(* A suggestion list is the conversation it was made for.                  *)
(***************************************************************************)
EXTENDS Naturals, FiniteSets

CONSTANTS
    NKeys,   \* number of configured API keys
    Convs,
    Slots    \* bound on the AI jobs in flight

ASSUME KeysAssumption == NKeys \in Nat \ {0}

None == "none"
Keys == 0 .. NKeys - 1

VARIABLES
    keyIndex,   \* AiConfigService
    job,        \* job[p]: a request to the AI services
    selected,   \* the page: selectedConversationId
    enabled, unavailable,  \* aiEnabled, aiUnavailable
    shown,      \* aiSuggestions
    loading,    \* loadingAiSuggestions
    cache       \* suggestionCacheByConversationId

panel == <<shown, loading, unavailable, cache>>
pageVars == <<selected, enabled, panel>>
vars == <<keyIndex, job, pageVars>>

\* awaited: the page still waits for the acknowledgement.
\* tried: the keys used so far, kept while no other job starts calling.
Idle == [op |-> None, conv |-> None, pc |-> "idle", awaited |-> FALSE, attempt |-> 0,
         tried |-> {}, limited |-> FALSE]

Init ==
    /\ keyIndex = 0
    /\ job = [p \in Slots |-> Idle]
    /\ selected = None /\ enabled = TRUE /\ unavailable = FALSE
    /\ shown = None /\ loading = FALSE /\ cache = {}

Suggest(c, pc) == [Idle EXCEPT !.op = "suggest", !.conv = c, !.pc = pc, !.awaited = TRUE]
Background(op) == [Idle EXCEPT !.op = op, !.pc = "start"]

-----------------------------------------------------------------------------
(* generateContent: getCurrentApiKey, the call, and what follows it up to  *)
(* the next call are one step each.                                        *)

\* generateSuggestions without a message to reply to; or a caller that is not
\* an active participant, a service that is switched off.
Decline(p) ==
    /\ job[p].pc = "start" /\ job[p].op = "suggest"
    /\ \E pc \in {"ok", "error"} : job' = [job EXCEPT ![p].pc = pc]
    /\ UNCHANGED <<keyIndex, pageVars>>

Calling(p) == job[p].pc = "calling"

FirstCall(p) ==
    /\ job[p].pc = "start"
    /\ LET alone == \A q \in Slots : ~Calling(q)
       IN job' = [q \in Slots |->
                    IF q = p THEN [job[p] EXCEPT !.pc = "calling", !.attempt = 1,
                                                 !.tried = IF alone THEN {keyIndex} ELSE {}]
                             ELSE [job[q] EXCEPT !.tried = {}]]
    /\ UNCHANGED <<keyIndex, pageVars>>

\* Suggestions and moderation parse the text as JSON: "error" when malformed.
Answered(p) ==
    /\ Calling(p)
    /\ \E pc \in (IF job[p].op = "bot" THEN {"ok"} ELSE {"ok", "error"}) :
          job' = [job EXCEPT ![p].pc = pc, ![p].attempt = 0, ![p].tried = {}]
    /\ UNCHANGED <<keyIndex, pageVars>>

\* Mutant: the next attempt uses the key that has just failed.
NextKeyStays == keyIndex

NextKey == (keyIndex + 1) % NKeys

\* The call failed, timed out or brought an empty text: the key is rotated, and
\* the next attempt takes whatever key is current by then.
CallFailed(p) ==
    /\ Calling(p)
    /\ keyIndex' = NextKey
    /\ \/ /\ job[p].attempt < NKeys
          /\ job' = [job EXCEPT ![p].attempt = @ + 1,
                                ![p].tried = IF @ = {} THEN {} ELSE @ \cup {keyIndex'}]
       \/ /\ job[p].attempt = NKeys
          /\ \E limited \in BOOLEAN : job' = [job EXCEPT ![p].pc = "gaveUp", ![p].limited = limited]
    /\ UNCHANGED pageVars

-----------------------------------------------------------------------------
(* What the answers do.                                                    *)

Done(p) == job[p].pc \in {"ok", "error", "gaveUp"}
Release(p) == job' = [job EXCEPT ![p] = Idle]

\* mapErrorCode tells rate limits apart by the message; every other failure is
\* AI_ERROR, timeouts included: the payload's own code is never found.
ErrorCode(p) == IF job[p].limited THEN "RATE_LIMITED" ELSE "AI_ERROR"

\* Mutant: the list is shown whatever conversation is selected by now.
GotSuggestionsUnchecked(c) ==
    /\ shown' = c /\ loading' = FALSE
    /\ unavailable' = FALSE
    /\ cache' = cache \cup {c}

\* requestSuggestions, then: a list for c is in.
GotSuggestions(c) ==
    /\ shown' = IF selected = c THEN c ELSE shown
    /\ loading' = (loading /\ selected # c)
    /\ unavailable' = FALSE
    /\ cache' = cache \cup {c}

\* requestSuggestions, catch.
NoSuggestions(c, code) ==
    /\ shown' = IF selected = c THEN None ELSE shown
    /\ loading' = (loading /\ selected # c)
    /\ unavailable' = (code = "RATE_LIMITED")
    /\ UNCHANGED cache

SuggestAnswer(p) ==
    /\ job[p].op = "suggest" /\ job[p].pc = "ok" /\ job[p].awaited
    /\ GotSuggestions(job[p].conv)
    /\ Release(p)
    /\ UNCHANGED <<keyIndex, selected, enabled>>

\* The ai:error event, then the failed acknowledgement.
SuggestFailed(p) ==
    /\ job[p].op = "suggest" /\ job[p].pc \in {"error", "gaveUp"} /\ job[p].awaited
    /\ NoSuggestions(job[p].conv, ErrorCode(p))
    /\ Release(p)
    /\ UNCHANGED <<keyIndex, selected, enabled>>

\* emitWithAck gives up after 10 s; the backend goes on.
SuggestTimeout(p) ==
    /\ job[p].op = "suggest" /\ job[p].awaited /\ job[p].pc # "fetching"
    /\ NoSuggestions(job[p].conv, None)
    /\ job' = [job EXCEPT ![p].awaited = FALSE]
    /\ UNCHANGED <<keyIndex, selected, enabled>>

\* A late failure still arrives as an ai:error event.
LateAnswer(p) ==
    /\ job[p].op = "suggest" /\ Done(p) /\ ~job[p].awaited
    /\ unavailable' = (unavailable \/ (job[p].pc # "ok" /\ ErrorCode(p) = "RATE_LIMITED"))
    /\ Release(p)
    /\ UNCHANGED <<keyIndex, selected, enabled, shown, loading, cache>>

\* The chatbot's message is stored and delivered, the moderation result saved
\* with the message and broadcast; a failure of either is swallowed.
BackgroundDone(p) ==
    /\ job[p].op \in {"bot", "moderate"} /\ Done(p)
    /\ Release(p)
    /\ UNCHANGED <<keyIndex, pageVars>>

-----------------------------------------------------------------------------
(* The page.                                                               *)

\* Suggestions are asked for only once the messages are fetched.
SelectConversation(c) ==
    LET preload == c \notin cache /\ enabled
    IN /\ selected' = c
       /\ shown' = IF c \in cache THEN c ELSE None
       /\ loading' = preload
       /\ \/ /\ preload
             /\ \E p \in Slots : /\ job[p] = Idle
                                 /\ job' = [job EXCEPT ![p] = Suggest(c, "fetching")]
          \/ ~preload /\ UNCHANGED job
       /\ UNCHANGED <<keyIndex, enabled, unavailable, cache>>

\* Messages fetched: suggestions are asked for, wherever the user is by now.
Fetched(p) ==
    /\ job[p].pc = "fetching"
    /\ job' = [job EXCEPT ![p].pc = "start"]
    /\ UNCHANGED <<keyIndex, pageVars>>

\* getSuggestions without a connection answers with an empty list at once.
FetchedOffline(p) ==
    /\ job[p].pc = "fetching"
    /\ GotSuggestions(job[p].conv)
    /\ Release(p)
    /\ UNCHANGED <<keyIndex, selected, enabled>>

\* The fetch failed: loadingAiSuggestions is left as it is.
FetchFailed(p) ==
    /\ job[p].pc = "fetching"
    /\ Release(p)
    /\ UNCHANGED <<keyIndex, pageVars>>

\* The composer's onFocus.  How many messages came in since the list was made
\* decides between the cached list and a request.
FocusComposer(p) ==
    /\ selected # None /\ enabled /\ ~unavailable
    /\ \/ /\ selected \in cache
          /\ shown' = selected /\ loading' = FALSE
          /\ UNCHANGED <<job, unavailable, cache>>
       \/ /\ job[p] = Idle
          /\ job' = [job EXCEPT ![p] = Suggest(selected, "start")]
          /\ loading' = TRUE
          /\ UNCHANGED <<shown, unavailable, cache>>
       \/ GotSuggestions(selected) /\ UNCHANGED job  \* no connection
    /\ UNCHANGED <<keyIndex, selected, enabled>>

ToggleAi ==
    /\ enabled' = ~enabled
    /\ unavailable' = (~enabled /\ unavailable)
    /\ shown' = IF enabled THEN None ELSE shown
    /\ loading' = FALSE
    /\ UNCHANGED <<keyIndex, job, selected, cache>>

\* handleSendMessage, once the message is stored and emitted: moderation, and a
\* reply to an /ai command.
Send(p) ==
    /\ job[p] = Idle
    /\ \E op \in {"moderate", "bot"} : job' = [job EXCEPT ![p] = Background(op)]
    /\ UNCHANGED <<keyIndex, pageVars>>

\* handleIncomingMessage: more than three messages since the list was made.
CacheStale(c) ==
    /\ c \in cache /\ cache' = cache \ {c}
    /\ UNCHANGED <<keyIndex, job, selected, enabled, unavailable, shown, loading>>

\* handleLeave, handleDeleteConversation.
Leave ==
    /\ selected # None /\ selected' = None
    /\ UNCHANGED <<keyIndex, job, enabled, panel>>

Next ==
    \/ \E p \in Slots : \/ Decline(p) \/ FirstCall(p) \/ Answered(p) \/ CallFailed(p)
                        \/ SuggestAnswer(p) \/ SuggestFailed(p) \/ SuggestTimeout(p)
                        \/ LateAnswer(p) \/ BackgroundDone(p)
                        \/ Fetched(p) \/ FetchedOffline(p) \/ FetchFailed(p)
                        \/ FocusComposer(p) \/ Send(p)
    \/ \E c \in Convs : SelectConversation(c) \/ CacheStale(c)
    \/ ToggleAi \/ Leave

Spec == Init /\ [][Next]_vars

-----------------------------------------------------------------------------
\* A request that gives up (every attempt of generateContent failed) while no
\* other request moved the shared key index has tried every configured key.
SoloTriesEveryKey ==
    \A p \in Slots : job[p].pc = "gaveUp" /\ job[p].tried # {} => job[p].tried = Keys

\* Answers that arrive after the user moved on never show under another
\* conversation: suggestions on display were made for the selected one.
SuggestionsBelong == selected # None => shown \in {None, selected}
=============================================================================
