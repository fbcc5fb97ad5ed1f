------------------------------- MODULE Searches -------------------------------
(***************************************************************************)
(* The two searches of the chat page: users, in the dialog that starts a   *)
(* conversation, and messages of the selected conversation.  Every change  *)
(* of what a search depends on ends the effect before it - its timer is    *)
(* cleared, its request is cancelled but still answered - and starts the   *)
(* next one.  React runs the effect together with the change.              *)
(***************************************************************************)
EXTENDS Naturals, FiniteSets

CONSTANTS
    Convs, Queries,  \* queries of two characters and more
    MaxCalls,        \* bound: timers and requests at a time
    MaxStarts,       \* bound: calls of handleStartConversation at a time
    MaxMoves         \* bound: what the user does

Kinds == {"users", "messages"}
None == "none"
Short == "short"  \* fewer than two characters

VARIABLES
    conv,       \* selectedConversationId
    open,       \* isNewChatModalOpen, isMessageSearchOpen
    query,
    results,    \* userSearchResults, messageSearchResults: the search that they answer
    searching,  \* searchingUsers, searchingMessages
    error,      \* messageSearchError
    chosen,     \* selectedUser: the search that showed it
    starting,   \* startingConversation
    creating, ending,  \* calls of handleStartConversation, before and after the selection
    calls,      \* timers and requests: number, kind, key, pc, cancelled
    moves

field == <<conv, open, query>>
startVars == <<starting, creating, ending>>
vars == <<field, results, searching, error, chosen, startVars, calls, moves>>

NoKey == [conv |-> None, query |-> None]
Key(s) == [conv |-> IF s = "messages" THEN conv ELSE None, query |-> query[s]]
Numbers == 1 .. MaxCalls
Spend == moves < MaxMoves /\ moves' = moves + 1

Init ==
    /\ conv \in Convs \cup {None}
    /\ open = [s \in Kinds |-> FALSE] /\ query = [s \in Kinds |-> Short]
    /\ results = [s \in Kinds |-> NoKey] /\ searching = [s \in Kinds |-> FALSE]
    /\ error = FALSE /\ chosen = NoKey /\ starting = FALSE /\ creating = 0 /\ ending = 0
    /\ calls = {} /\ moves = 0

-----------------------------------------------------------------------------
(* The effects.                                                            *)

\* Mutant: the timer is cleared, the request is not cancelled.
ClearTimer(s) == {c \in calls : c.kind # s \/ c.pc = "request"}

\* The function that an effect returns.
CleanUp(s) ==
    {c \in calls : c.kind # s} \cup
    {[c EXCEPT !.cancelled = TRUE] : c \in {d \in calls : d.kind = s /\ d.pc = "request"}}

Wanted(s) == open'[s] /\ (s = "messages" => conv' # None) /\ query'[s] # Short

\* The effect of s after a change of its dependencies (conv', open', query'): nothing is
\* to be searched for, ...
NoSearch(s) ==
    /\ ~Wanted(s)
    /\ calls' = CleanUp(s)
    /\ searching' = [searching EXCEPT ![s] = FALSE]
    /\ results' = [results EXCEPT ![s] = NoKey]

\* ... or a timer is set, and the results stay for now.
NewSearch(s) ==
    /\ Wanted(s)
    /\ \E n \in Numbers :
         /\ \A c \in calls : c.n # n
         /\ calls' = CleanUp(s) \cup
              {[n |-> n, kind |-> s, pc |-> "timer", cancelled |-> FALSE,
                key |-> [conv |-> IF s = "messages" THEN conv' ELSE None, query |-> query'[s]]]}
    /\ searching' = [searching EXCEPT ![s] = TRUE]
    /\ UNCHANGED results

Effect(s) == NoSearch(s) \/ NewSearch(s)

-----------------------------------------------------------------------------
(* The user.                                                               *)

\* The button of the new conversation, handleOpenMessageSearch.  That a conversation
\* must be opened first is said, and unsaid by the effect.
OpenSearch(s) ==
    /\ ~open["users"] /\ ~open["messages"] /\ open' = [open EXCEPT ![s] = TRUE]
    /\ query' = [query EXCEPT ![s] = Short]
    /\ UNCHANGED conv
    /\ NoSearch(s)
    /\ error' = FALSE
    /\ Spend
    /\ UNCHANGED <<chosen, startVars>>

Type(s, q) ==
    /\ open[s] /\ q # query[s] /\ query' = [query EXCEPT ![s] = q]
    /\ UNCHANGED <<conv, open>>
    /\ Effect(s)
    /\ error' = IF s = "messages" THEN FALSE ELSE error
    /\ chosen' = IF s = "users" THEN NoKey ELSE chosen
    /\ Spend
    /\ UNCHANGED startVars

\* resetNewChatModal, resetMessageSearch.
Reset(s) ==
    /\ open' = [open EXCEPT ![s] = FALSE] /\ query' = [query EXCEPT ![s] = Short]
    /\ UNCHANGED conv
    /\ NoSearch(s)
    /\ error' = IF s = "messages" THEN FALSE ELSE error
    /\ chosen' = IF s = "users" THEN NoKey ELSE chosen
    /\ starting' = IF s = "users" THEN FALSE ELSE starting

\* Cancelling, or handleOpenSearchResult.
CloseSearch(s) ==
    /\ open[s] /\ Reset(s)
    /\ UNCHANGED <<creating, ending, moves>>

\* What is on display: not while searching, not with a short query or an error.
Listed(s) ==
    /\ open[s] /\ ~searching[s] /\ query[s] # Short /\ results[s] # NoKey
    /\ s = "messages" => ~error

ChooseUser ==
    /\ Listed("users") /\ chosen' = results["users"]
    /\ chosen' # chosen
    /\ UNCHANGED <<field, results, searching, error, startVars, calls, moves>>

\* handleStartConversation, up to createConversation.
Start ==
    /\ open["users"] /\ chosen # NoKey /\ ~starting /\ starting' = TRUE
    /\ creating + ending < MaxStarts /\ creating' = creating + 1
    /\ UNCHANGED <<field, results, searching, error, chosen, ending, calls, moves>>

\* The conversation is selected, and then the dialog closed, whatever the user does
\* there by now.
Started(c) ==
    /\ creating > 0 /\ creating' = creating - 1 /\ ending' = ending + 1
    /\ conv' = c /\ UNCHANGED <<open, query>>
    /\ IF c = conv THEN UNCHANGED <<calls, searching, results, error>>
                   ELSE Effect("messages") /\ error' = FALSE
    /\ UNCHANGED <<chosen, starting, moves>>

ClosedAfterStart ==
    /\ ending > 0 /\ ending' = ending - 1
    /\ Reset("users")
    /\ UNCHANGED <<creating, moves>>

NotStarted ==
    /\ creating > 0 /\ creating' = creating - 1
    /\ starting' = FALSE
    /\ UNCHANGED <<field, results, searching, error, chosen, ending, calls, moves>>

-----------------------------------------------------------------------------
(* Timers and answers.                                                     *)

Elapse(c) ==
    /\ c \in calls /\ c.pc = "timer"
    /\ calls' = (calls \ {c}) \cup {[c EXCEPT !.pc = "request"]}
    /\ UNCHANGED <<field, results, searching, error, chosen, startVars, moves>>

\* finally.
StopSpinner(c) == [searching EXCEPT ![c.kind] = FALSE]

\* searchUsers or searchMessages answers, or fails.
Answer(c, ok) ==
    /\ c \in calls /\ c.pc = "request"
    /\ calls' = calls \ {c}
    /\ IF c.cancelled THEN UNCHANGED <<results, searching, error>>
       ELSE /\ results' = [results EXCEPT ![c.kind] = IF ok THEN c.key ELSE NoKey]
            /\ searching' = StopSpinner(c)
            /\ error' = IF c.kind = "messages" /\ ~ok THEN TRUE ELSE error
    /\ UNCHANGED <<field, chosen, startVars, moves>>

Next ==
    \/ \E s \in Kinds : OpenSearch(s) \/ CloseSearch(s) \/ \E q \in Queries \cup {Short} : Type(s, q)
    \/ ChooseUser \/ Start \/ ClosedAfterStart \/ NotStarted
    \/ \E c \in Convs : Started(c)
    \/ \E c \in calls : Elapse(c) \/ \E ok \in BOOLEAN : Answer(c, ok)

Spec == Init /\ [][Next]_vars

-----------------------------------------------------------------------------
\* What is listed answers what the field says, in the conversation that is
\* selected, and so does the user that was chosen from it: answers that come late,
\* out of order, or after the dialog was closed, opened again or overtaken by the
\* start of a conversation, are never shown.
ResultsAnswerField ==
    /\ \A s \in Kinds : Listed(s) => results[s] = Key(s)
    /\ chosen # NoKey => chosen = Key("users")
=============================================================================
