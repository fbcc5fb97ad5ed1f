---------------------------- MODULE ChatPageProofs ----------------------------
(***************************************************************************)
(* Proofs about the components that the chat page and the driver are made  *)
(* of: the AI services, who is typing, the searches, the composer, the     *)
(* blocks of SHA-1, and the text of a message.                             *)
(***************************************************************************)
EXTENDS MCChatPage, SequenceTheorems, SortingProofs, TLAPS

-----------------------------------------------------------------------------
(* The AI services.                                                        *)

\* Nothing is selected to begin with.
LEMMA InitBelongs == Init => SuggestionsBelong
BY DEF Init, SuggestionsBelong

\* A list that arrives is shown only where it belongs.
LEMMA GotSuggestionsBelong ==
    ASSUME NEW c, SuggestionsBelong, GotSuggestions(c), UNCHANGED selected
    PROVE SuggestionsBelong'
BY DEF GotSuggestions, SuggestionsBelong

\* A list that does not arrive takes away the one of its own conversation.
LEMMA NoSuggestionsBelong ==
    ASSUME NEW c, NEW code, SuggestionsBelong, NoSuggestions(c, code), UNCHANGED selected
    PROVE SuggestionsBelong'
BY DEF NoSuggestions, SuggestionsBelong

\* Steps of the backend show nothing.
LEMMA NothingShown ==
    ASSUME SuggestionsBelong, UNCHANGED <<selected, shown>>
    PROVE SuggestionsBelong'
BY DEF SuggestionsBelong

\* No step shows suggestions made for another conversation than the selected one.
LEMMA NextBelongs == SuggestionsBelong /\ [Next]_vars => SuggestionsBelong'
<1> SUFFICES ASSUME SuggestionsBelong, [Next]_vars PROVE SuggestionsBelong'
    OBVIOUS
<1>1. ASSUME NEW p \in Slots, Decline(p) \/ FirstCall(p) \/ Answered(p) \/ CallFailed(p)
      PROVE SuggestionsBelong'
    BY <1>1, NothingShown DEF Decline, FirstCall, Answered, CallFailed, pageVars, panel
<1>2. ASSUME NEW p \in Slots, SuggestAnswer(p) \/ FetchedOffline(p) PROVE SuggestionsBelong'
    BY <1>2, GotSuggestionsBelong DEF SuggestAnswer, FetchedOffline
<1>3. ASSUME NEW p \in Slots, SuggestFailed(p) \/ SuggestTimeout(p) PROVE SuggestionsBelong'
    BY <1>3, NoSuggestionsBelong DEF SuggestFailed, SuggestTimeout
<1>4. ASSUME NEW p \in Slots, LateAnswer(p) \/ BackgroundDone(p) \/ Fetched(p) \/ FetchFailed(p) \/ Send(p)
      PROVE SuggestionsBelong'
    BY <1>4, NothingShown DEF LateAnswer, BackgroundDone, Fetched, FetchFailed, Send, pageVars, panel
<1>5. ASSUME NEW p \in Slots, FocusComposer(p) PROVE SuggestionsBelong'
    BY <1>5, GotSuggestionsBelong, NothingShown DEF FocusComposer, SuggestionsBelong
<1>6. ASSUME NEW c \in Convs, SelectConversation(c) PROVE SuggestionsBelong'
    BY <1>6 DEF SelectConversation, SuggestionsBelong
<1>7. ASSUME NEW c \in Convs, CacheStale(c) PROVE SuggestionsBelong'
    BY <1>7, NothingShown DEF CacheStale
<1>8. CASE ToggleAi
    BY <1>8 DEF ToggleAi, SuggestionsBelong
<1>9. CASE Leave
    BY <1>9 DEF Leave, SuggestionsBelong
<1>10. CASE UNCHANGED vars
    BY <1>10, NothingShown DEF vars, pageVars, panel
<1>11. QED
    BY <1>1, <1>2, <1>3, <1>4, <1>5, <1>6, <1>7, <1>8, <1>9, <1>10 DEF Next

\* Whatever answers arrive after the user moved on, the suggestions on display
\* are those of the selected conversation.
THEOREM SuggestionsAlwaysBelong == Spec => []SuggestionsBelong
BY InitBelongs, NextBelongs, PTL DEF Spec
-----------------------------------------------------------------------------
(* The keys that a request tries.                                          *)

JobType == [op : {None, "suggest", "bot", "moderate"}, conv : Convs \cup {None},
            pc : {"idle", "fetching", "start", "calling", "ok", "error", "gaveUp"},
            awaited : BOOLEAN, attempt : Nat, tried : SUBSET Keys, limited : BOOLEAN]

KeyTypeOK == keyIndex \in Keys /\ job \in [Slots -> JobType] /\ selected \in Convs \cup {None}

\* Key k is one of the last n that were current, the present one included.
Recent(k, n) == IF k <= keyIndex THEN keyIndex - k < n ELSE keyIndex + NKeys - k < n

\* What is noted of a job's keys: while it is calling, the job is the only one
\* and its attempts were made with the latest keys; once it gave up, with all.
TriedOK(p) ==
    job[p].tried # {} =>
      /\ job[p].pc \in {"calling", "gaveUp"}
      /\ job[p].pc = "calling" => /\ job[p].attempt \in 1 .. NKeys
                                  /\ job[p].tried = {k \in Keys : Recent(k, job[p].attempt)}
                                  /\ \A q \in Slots \ {p} : ~Calling(q)
      /\ job[p].pc = "gaveUp" => job[p].tried = Keys

\* SoloTriesEveryKey is not inductive: how many keys a request has tried, and
\* that nobody else moves the index meanwhile, must be known before it gives up.
KeyInv == KeyTypeOK /\ \A p \in Slots : TriedOK(p)

\* rotateKey goes round.
LEMMA NextKeyIs ==
    ASSUME KeyTypeOK
    PROVE  NextKey = (IF keyIndex + 1 = NKeys THEN 0 ELSE keyIndex + 1) /\ NextKey \in Keys
<1>1. keyIndex \in 0 .. NKeys - 1 /\ NKeys \in Nat \ {0}
    BY KeysAssumption DEF KeyTypeOK, Keys
<1>2. CASE keyIndex + 1 = NKeys
    BY <1>1, <1>2 DEF NextKey, Keys
<1>3. CASE keyIndex + 1 < NKeys
    BY <1>1, <1>3 DEF NextKey, Keys
<1>4. QED BY <1>1, <1>2, <1>3

\* No job has tried a key.
LEMMA InitKeys == Init => KeyInv
BY KeysAssumption DEF Init, KeyInv, KeyTypeOK, JobType, TriedOK, Keys, Idle, Calling

\* A step that leaves the index alone and changes of one job neither the keys it
\* tried, nor starts a call, nor ends one with keys noted.
LEMMA OtherSteps ==
    ASSUME KeyInv, NEW p \in Slots, NEW r \in JobType, UNCHANGED keyIndex,
           job' = [job EXCEPT ![p] = r], selected' \in Convs \cup {None},
           \/ r.tried = {} /\ r.pc # "calling"
           \/ r.tried = job[p].tried /\ r.pc = job[p].pc /\ r.attempt = job[p].attempt
    PROVE  KeyInv'
<1>1. KeyTypeOK'
    BY DEF KeyInv, KeyTypeOK
<1>2. ASSUME NEW q \in Slots PROVE TriedOK(q)'
    BY DEF KeyInv, KeyTypeOK, TriedOK, Calling, Recent
<1>3. QED BY <1>1, <1>2 DEF KeyInv

\* A call that starts alone notes its key; one that does not makes everybody's
\* notes void.
LEMMA FirstCallKeys ==
    ASSUME KeyInv, NEW p \in Slots, FirstCall(p)
    PROVE  KeyInv'
<1> DEFINE sole == \A q \in Slots : ~Calling(q)
<1>1. keyIndex \in 0 .. NKeys - 1 /\ NKeys \in Nat \ {0}
    BY KeysAssumption DEF KeyInv, KeyTypeOK, Keys
<1>2. /\ UNCHANGED <<keyIndex, selected>> /\ job[p] \in JobType
      /\ job' = [q \in Slots |->
                    IF q = p THEN [job[p] EXCEPT !.pc = "calling", !.attempt = 1,
                                                 !.tried = IF sole THEN {keyIndex} ELSE {}]
                             ELSE [job[q] EXCEPT !.tried = {}]]
    BY DEF FirstCall, pageVars, KeyInv, KeyTypeOK
<1>3. KeyTypeOK'
    BY <1>2 DEF KeyInv, KeyTypeOK, JobType
<1>4. TriedOK(p)'
    <2>1. {k \in Keys : Recent(k, 1)'} = {keyIndex}
        <3>0. UNCHANGED keyIndex
            BY <1>2
        <3>1. ASSUME NEW k \in Keys PROVE Recent(k, 1)' <=> k = keyIndex
            BY <1>1, <3>0 DEF Recent, Keys
        <3>2. keyIndex \in Keys
            BY DEF KeyInv, KeyTypeOK
        <3>3. QED BY <3>1, <3>2
    <2>2. job'[p] = [job[p] EXCEPT !.pc = "calling", !.attempt = 1,
                                   !.tried = IF sole THEN {keyIndex} ELSE {}]
        BY <1>2
    <2>3. job'[p].pc = "calling" /\ job'[p].attempt = 1
          /\ job'[p].tried = IF sole THEN {keyIndex} ELSE {}
        BY <1>2, <2>2 DEF JobType
    <2>4. sole => \A q \in Slots \ {p} : ~Calling(q)'
        BY <1>2 DEF Calling, KeyInv, KeyTypeOK, JobType
    <2>5. QED BY <1>1, <2>1, <2>3, <2>4 DEF TriedOK
<1>5. ASSUME NEW q \in Slots \ {p} PROVE TriedOK(q)'
    <2>1. job'[q] = [job[q] EXCEPT !.tried = {}] /\ job[q] \in JobType
        BY <1>2 DEF KeyInv, KeyTypeOK
    <2>2. job'[q].tried = {}
        BY <2>1 DEF JobType
    <2>3. QED BY <2>2 DEF TriedOK
<1>6. QED BY <1>3, <1>4, <1>5 DEF KeyInv

\* A failed call moves the index, and the job of the notes with it.
LEMMA CallFailedKeys ==
    ASSUME KeyInv, NEW p \in Slots, CallFailed(p)
    PROVE  KeyInv'
<1>1. keyIndex \in 0 .. NKeys - 1 /\ NKeys \in Nat \ {0} /\ Keys = 0 .. NKeys - 1
    BY KeysAssumption DEF KeyInv, KeyTypeOK, Keys
<1>2. /\ UNCHANGED selected /\ job[p] \in JobType /\ job[p].pc = "calling"
      /\ keyIndex' = (IF keyIndex + 1 = NKeys THEN 0 ELSE keyIndex + 1) /\ keyIndex' \in Keys
    BY NextKeyIs DEF CallFailed, Calling, pageVars, KeyInv, KeyTypeOK
<1>3. TriedOK(p) /\ \A q \in Slots \ {p} : TriedOK(q)
    BY DEF KeyInv
<1>4. ASSUME NEW q \in Slots \ {p}, job'[q] = job[q] PROVE TriedOK(q)'
    BY <1>2, <1>3, <1>4 DEF TriedOK, Calling
<1>5. CASE job[p].attempt < NKeys
    <2> DEFINE r == [job[p] EXCEPT !.attempt = @ + 1,
                                   !.tried = IF @ = {} THEN {} ELSE @ \cup {keyIndex'}]
    <2>1. job' = [job EXCEPT ![p] = r]
        <3>1. job' = [job EXCEPT ![p].attempt = @ + 1,
                                 ![p].tried = IF @ = {} THEN {} ELSE @ \cup {keyIndex'}]
            BY <1>1, <1>5 DEF CallFailed
        <3>2. QED BY <1>2, <3>1 DEF KeyInv, KeyTypeOK
    <2>2. r \in JobType /\ r.pc = "calling" /\ r.attempt = job[p].attempt + 1
          /\ r.tried = IF job[p].tried = {} THEN {} ELSE job[p].tried \cup {keyIndex'}
        <3>1. (IF job[p].tried = {} THEN {} ELSE job[p].tried \cup {keyIndex'}) \in SUBSET Keys
            BY <1>2 DEF JobType
        <3>2. job[p].attempt + 1 \in Nat
            BY <1>2 DEF JobType
        <3>3. QED BY <1>2, <3>1, <3>2 DEF JobType
    <2> HIDE DEF r
    <2>3. job'[p] = r /\ \A q \in Slots \ {p} : job'[q] = job[q]
        BY <2>1 DEF KeyInv, KeyTypeOK
    <2>4. KeyTypeOK'
        BY <1>2, <2>1, <2>2 DEF KeyInv, KeyTypeOK
    <2>5. ASSUME job[p].tried # {} PROVE TriedOK(p)'
        <3>1. job[p].attempt \in 1 .. NKeys /\ job[p].tried = {k \in Keys : Recent(k, job[p].attempt)}
              /\ \A q \in Slots \ {p} : ~Calling(q)
            BY <1>2, <1>3, <2>5 DEF TriedOK
        <3>2. PICK n \in 1 .. NKeys - 1 : n = job[p].attempt
            BY <1>1, <1>5, <3>1
        <3>3. ASSUME NEW k \in Keys
              PROVE  Recent(k, n + 1)' <=> Recent(k, n) \/ k = keyIndex'
            BY <1>1, <1>2, <3>2, SMTT(30) DEF Recent
        <3>4. r.tried = {k \in Keys : Recent(k, n + 1)'}
            BY <1>2, <2>2, <2>5, <3>1, <3>2, <3>3
        <3>5. job'[p].attempt = n + 1 /\ n + 1 \in 1 .. NKeys
            BY <1>1, <2>2, <2>3, <3>2
        <3>6. \A q \in Slots \ {p} : ~Calling(q)'
            BY <2>3, <3>1 DEF Calling
        <3>7. QED BY <2>2, <2>3, <3>4, <3>5, <3>6 DEF TriedOK
    <2>6. ASSUME job[p].tried = {} PROVE TriedOK(p)'
        BY <2>2, <2>3, <2>6 DEF TriedOK
    <2>7. QED BY <1>4, <2>3, <2>4, <2>5, <2>6 DEF KeyInv
<1>6. CASE job[p].attempt = NKeys
    <2>1. PICK limited \in BOOLEAN :
             job' = [job EXCEPT ![p].pc = "gaveUp", ![p].limited = limited]
        BY <1>1, <1>2, <1>6 DEF CallFailed
    <2> DEFINE r == [job[p] EXCEPT !.pc = "gaveUp", !.limited = limited]
    <2>2. job' = [job EXCEPT ![p] = r] /\ r \in JobType /\ r.pc = "gaveUp" /\ r.tried = job[p].tried
        BY <1>2, <2>1 DEF JobType, KeyInv, KeyTypeOK
    <2> HIDE DEF r
    <2>3. job'[p] = r /\ \A q \in Slots \ {p} : job'[q] = job[q]
        BY <2>2 DEF KeyInv, KeyTypeOK
    <2>4. KeyTypeOK'
        BY <1>2, <2>2 DEF KeyInv, KeyTypeOK
    <2>5. job[p].tried # {} => job[p].tried = Keys
        <3>1. ASSUME NEW k \in Keys PROVE Recent(k, NKeys)
            BY <1>1 DEF Recent
        <3>2. QED BY <1>2, <1>3, <1>6, <3>1 DEF TriedOK
    <2>6. TriedOK(p)'
        BY <2>2, <2>3, <2>5 DEF TriedOK
    <2>7. QED BY <1>4, <2>3, <2>4, <2>6 DEF KeyInv
<1>7. QED BY <1>5, <1>6 DEF CallFailed

\* No step loses a key of a request that is alone.
LEMMA NextKeys == KeyInv /\ [Next]_vars => KeyInv'
<1> SUFFICES ASSUME KeyInv, [Next]_vars PROVE KeyInv'
    OBVIOUS
<1>0. /\ job \in [Slots -> JobType] /\ selected \in Convs \cup {None}
      /\ Idle \in JobType /\ Idle.tried = {} /\ Idle.pc = "idle"
    BY DEF KeyInv, KeyTypeOK, Idle, JobType
<1>1. ASSUME NEW p \in Slots, Decline(p) PROVE KeyInv'
    <2>1. PICK to \in {"ok", "error"} : job' = [job EXCEPT ![p].pc = to]
        BY <1>1 DEF Decline
    <2> DEFINE r == [job[p] EXCEPT !.pc = to]
    <2>2. r \in JobType /\ r.tried = job[p].tried /\ r.pc = to /\ job' = [job EXCEPT ![p] = r]
        BY <1>0, <2>1 DEF JobType
    <2>3. job[p].tried = {}
        BY <1>1 DEF Decline, KeyInv, TriedOK
    <2> QED BY <1>0, <1>1, <2>2, <2>3, OtherSteps DEF Decline, pageVars
<1>2. ASSUME NEW p \in Slots, FirstCall(p) PROVE KeyInv'
    BY <1>2, FirstCallKeys
<1>3. ASSUME NEW p \in Slots, Answered(p) PROVE KeyInv'
    <2>1. PICK to \in {"ok", "error"} :
             job' = [job EXCEPT ![p].pc = to, ![p].attempt = 0, ![p].tried = {}]
        BY <1>3 DEF Answered
    <2> DEFINE r == [job[p] EXCEPT !.pc = to, !.attempt = 0, !.tried = {}]
    <2>2. r \in JobType /\ r.tried = {} /\ r.pc = to /\ job' = [job EXCEPT ![p] = r]
        BY <1>0, <2>1 DEF JobType
    <2> QED BY <1>0, <1>3, <2>2, OtherSteps DEF Answered, pageVars
<1>4. ASSUME NEW p \in Slots, CallFailed(p) PROVE KeyInv'
    BY <1>4, CallFailedKeys
<1>5. ASSUME NEW p \in Slots, Release(p), UNCHANGED <<keyIndex, selected>> PROVE KeyInv'
    BY <1>0, <1>5, OtherSteps DEF Release
<1>6. ASSUME NEW p \in Slots, \/ SuggestAnswer(p) \/ SuggestFailed(p) \/ LateAnswer(p)
                              \/ BackgroundDone(p) \/ FetchedOffline(p) \/ FetchFailed(p)
      PROVE KeyInv'
    BY <1>5, <1>6 DEF SuggestAnswer, SuggestFailed, LateAnswer, BackgroundDone, FetchedOffline,
                      FetchFailed, pageVars
<1>7. ASSUME NEW p \in Slots, SuggestTimeout(p) PROVE KeyInv'
    <2> DEFINE r == [job[p] EXCEPT !.awaited = FALSE]
    <2>1. /\ r \in JobType /\ r.tried = job[p].tried /\ r.pc = job[p].pc /\ r.attempt = job[p].attempt
          /\ job' = [job EXCEPT ![p] = r]
        BY <1>0, <1>7 DEF JobType, SuggestTimeout
    <2> QED BY <1>0, <1>7, <2>1, OtherSteps DEF SuggestTimeout
<1>8. ASSUME NEW p \in Slots, Fetched(p) PROVE KeyInv'
    <2> DEFINE r == [job[p] EXCEPT !.pc = "start"]
    <2>1. r \in JobType /\ r.tried = job[p].tried /\ r.pc = "start" /\ job' = [job EXCEPT ![p] = r]
        BY <1>0, <1>8 DEF JobType, Fetched
    <2>2. job[p].tried = {}
        BY <1>8 DEF Fetched, KeyInv, TriedOK
    <2> QED BY <1>0, <1>8, <2>1, <2>2, OtherSteps DEF Fetched, pageVars
<1>9. ASSUME NEW c \in Convs, NEW to \in {"fetching", "start"}
      PROVE Suggest(c, to) \in JobType /\ Suggest(c, to).tried = {} /\ Suggest(c, to).pc = to
    BY DEF Suggest, Idle, JobType
<1>10. ASSUME NEW op \in {"moderate", "bot"}
      PROVE Background(op) \in JobType /\ Background(op).tried = {} /\ Background(op).pc = "start"
    BY DEF Background, Idle, JobType
<1>11. ASSUME UNCHANGED <<keyIndex, job>>, selected' \in Convs \cup {None} PROVE KeyInv'
    BY <1>11 DEF KeyInv, KeyTypeOK, TriedOK, Calling, Recent
<1>12. ASSUME NEW p \in Slots, FocusComposer(p) PROVE KeyInv'
    <2>1. CASE UNCHANGED job
        BY <1>0, <1>11, <1>12, <2>1 DEF FocusComposer
    <2>2. CASE job' = [job EXCEPT ![p] = Suggest(selected, "start")]
        <3>1. selected \in Convs
            BY <1>0, <1>12 DEF FocusComposer
        <3> QED BY <1>0, <1>9, <1>12, <2>2, <3>1, OtherSteps DEF FocusComposer
    <2> QED BY <1>12, <2>1, <2>2 DEF FocusComposer
<1>13. ASSUME NEW p \in Slots, Send(p) PROVE KeyInv'
    BY <1>0, <1>10, <1>13, OtherSteps DEF Send, pageVars
<1>14. ASSUME NEW c \in Convs, SelectConversation(c) PROVE KeyInv'
    <2>1. CASE UNCHANGED job
        BY <1>11, <1>14, <2>1 DEF SelectConversation
    <2>2. ASSUME NEW p \in Slots, job' = [job EXCEPT ![p] = Suggest(c, "fetching")] PROVE KeyInv'
        BY <1>0, <1>9, <1>14, <2>2, OtherSteps DEF SelectConversation
    <2> QED BY <1>14, <2>1, <2>2 DEF SelectConversation
<1>15. ASSUME NEW c \in Convs, CacheStale(c) PROVE KeyInv'
    BY <1>0, <1>11, <1>15 DEF CacheStale
<1>16. CASE ToggleAi \/ Leave
    BY <1>0, <1>11, <1>16 DEF ToggleAi, Leave
<1>17. CASE UNCHANGED vars
    BY <1>0, <1>11, <1>17 DEF vars, pageVars
<1>18. QED
    BY <1>1, <1>2, <1>3, <1>4, <1>6, <1>7, <1>8, <1>12, <1>13, <1>14, <1>15, <1>16, <1>17 DEF Next

\* However many keys there are, a request that gives up without another having
\* moved the index meanwhile has tried every one of them.
THEOREM EveryKeyIsTried == Spec => []SoloTriesEveryKey
<1>1. KeyInv => SoloTriesEveryKey
    BY DEF KeyInv, TriedOK, SoloTriesEveryKey
<1>2. QED BY <1>1, InitKeys, NextKeys, PTL DEF Spec

-----------------------------------------------------------------------------
(* Who is typing.                                                          *)

Event == [conv : Convs, peer : Peers, isTyping : BOOLEAN, expires : Int]
Timer == [conv : Convs, due : Int]

TypingTypeOK ==
    /\ now \in Int /\ skew \in Int
    /\ signals \subseteq [id : Int, peer : Peers, conv : Convs, isTyping : BOOLEAN]
    /\ sent \in Int
    /\ events \in Seq(Event)
    /\ typing \in [Convs -> Event \cup {Typing!Nothing}]
    /\ timer \subseteq Timer

\* The timeouts of c are none, or one that is due when the indicator has expired.
TimerOf(c) ==
    /\ typing[c] = Typing!Nothing => \A t \in timer : t.conv # c
    /\ typing[c] # Typing!Nothing =>
         \E t \in timer : /\ t.conv = c /\ t.due >= typing[c].expires
                          /\ \A u \in timer : u.conv = c => u = t

TypingInv == TypingTypeOK /\ \A c \in Convs : TimerOf(c)

\* Nobody is typing at first.
LEMMA TypingInit == Typing!Init => TypingInv
  BY ClockAssumption DEF Typing!Init, TypingInv, TypingTypeOK, TimerOf

\* Signals, and time, leave the indicators and their timeouts alone.
LEMMA TypingSignals ==
    ASSUME TypingInv,
           \/ \E p \in Peers, c \in Convs, isTyping \in BOOLEAN : Typing!Signal(p, c, isTyping)
           \/ \E m \in signals : Typing!Relay(m) \/ Typing!NotRelayed(m)
           \/ Typing!Tick
    PROVE  TypingInv'
<1> USE DEF TypingInv, TypingTypeOK
<1>1. ASSUME NEW p \in Peers, NEW c \in Convs, NEW isTyping \in BOOLEAN, Typing!Signal(p, c, isTyping)
      PROVE  TypingInv'
  <2>1. signals' \subseteq [id : Int, peer : Peers, conv : Convs, isTyping : BOOLEAN]
    BY <1>1 DEF Typing!Signal
  <2> QED BY <1>1, <2>1 DEF Typing!Signal, TimerOf
<1>2. ASSUME NEW m \in signals, Typing!Relay(m)
      PROVE  TypingInv'
  <2> DEFINE e == [conv |-> m.conv, peer |-> m.peer, isTyping |-> m.isTyping, expires |-> now + Ttl]
  <2>1. now + Ttl \in Int
    BY ClockAssumption
  <2>2. e \in Event
    BY <2>1 DEF Event
  <2> HIDE DEF e
  <2>3. events' \in Seq(Event)
    BY <1>2, <2>2 DEF Typing!Relay, e
  <2> QED BY <1>2, <2>3 DEF Typing!Relay, TimerOf
<1>3. ASSUME NEW m \in signals, Typing!NotRelayed(m)
      PROVE  TypingInv'
  BY <1>3 DEF Typing!NotRelayed, TimerOf
<1>4. CASE Typing!Tick
  BY <1>4 DEF Typing!Tick, TimerOf
<1> QED BY <1>1, <1>2, <1>3, <1>4

\* A signal arrives: the timeout of its conversation is replaced, no other one.
LEMMA TypingReceive ==
    ASSUME TypingInv, Typing!Receive
    PROVE  TypingInv'
<1> USE DEF TypingInv, TypingTypeOK
<1>0. PICK e \in Event : e = Head(events)
  BY DEF Typing!Receive
<1>1. events' \in Seq(Event)
  BY DEF Typing!Receive
<1>2. PICK due \in Int : due = Typing!Later(e.expires, Typing!BrowserNow) /\ due >= e.expires
  BY DEF Typing!Later, Typing!BrowserNow, Event
<1>3. e.conv \in Convs /\ e.isTyping \in BOOLEAN
  BY DEF Event
<1>4. typing' = [typing EXCEPT ![e.conv] = Typing!Shown(e)]
  BY <1>0 DEF Typing!Receive
<1>5. Typing!Shown(e) = IF e.isTyping THEN e ELSE Typing!Nothing
  BY DEF Typing!Shown
<1>6. CASE e.isTyping
  <2>1. timer' = {t \in timer : t.conv # e.conv} \cup {[conv |-> e.conv, due |-> due]}
    BY <1>0, <1>2, <1>6 DEF Typing!Receive, Typing!ClearTimeout
  <2>2. timer' \subseteq Timer
    BY <2>1, <1>2, <1>3 DEF Timer
  <2>3. e # Typing!Nothing
    BY <1>6 DEF Typing!Nothing
  <2>4. TypingTypeOK'
    <3>1. typing' \in [Convs -> Event \cup {Typing!Nothing}]
      BY <1>3, <1>4, <1>5, <1>6
    <3> QED BY <1>1, <2>2, <3>1 DEF Typing!Receive
  <2>5. typing'[e.conv] = e
    BY <1>3, <1>4, <1>5, <1>6
  <2>6. TimerOf(e.conv)'
    BY <2>1, <2>3, <2>5, <1>2 DEF TimerOf
  <2>7. ASSUME NEW c \in Convs, c # e.conv PROVE TimerOf(c)'
    BY <2>1, <2>7, <1>4 DEF TimerOf
  <2> QED BY <2>4, <2>6, <2>7
<1>7. CASE ~e.isTyping
  <2>1. timer' = {t \in timer : t.conv # e.conv}
    BY <1>0, <1>7 DEF Typing!Receive, Typing!ClearTimeout
  <2>2. TypingTypeOK'
    BY <1>1, <1>3, <1>4, <1>5, <1>7, <2>1 DEF Typing!Receive
  <2>3. ASSUME NEW c \in Convs PROVE TimerOf(c)'
    BY <2>1, <1>3, <1>4, <1>5, <1>7 DEF TimerOf
  <2> QED BY <2>2, <2>3
<1> QED BY <1>6, <1>7

\* A timeout takes the indicator away that it was set for.
LEMMA TypingFire ==
    ASSUME TypingInv, NEW t \in timer, Typing!Fire(t)
    PROVE  TypingInv'
<1> USE DEF TypingInv, TypingTypeOK, Typing!Fire
<1>1. t.conv \in Convs
  BY DEF Timer
<1>2. TypingTypeOK'
  BY <1>1
<1>3. ASSUME NEW c \in Convs PROVE TimerOf(c)'
  BY <1>1 DEF TimerOf
<1> QED BY <1>2, <1>3

\* The inductive invariant of the typing indicators.
LEMMA TypingInvariant == Typing!Spec => []TypingInv
<1>1. TypingInv /\ [Typing!Next]_(Typing!vars) => TypingInv'
  <2> SUFFICES ASSUME TypingInv, [Typing!Next]_(Typing!vars) PROVE TypingInv'
    OBVIOUS
  <2>1. CASE UNCHANGED Typing!vars
    BY <2>1 DEF TypingInv, TypingTypeOK, TimerOf, Typing!vars
  <2>2. CASE Typing!Next
    BY <2>2, TypingSignals, TypingReceive, TypingFire DEF Typing!Next
  <2> QED BY <2>1, <2>2
<1> QED BY <1>1, TypingInit, PTL DEF Typing!Spec

\* An indicator on display has one timeout, and it is its own, for any number of peers
\* and conversations and however wrong the browser's clock is.
THEOREM IndicatorsExpire == Typing!Spec => []OwnTimeout
<1>1. TypingInv => OwnTimeout
  <2> SUFFICES ASSUME TypingInv PROVE OwnTimeout
    OBVIOUS
  <2>1. ASSUME NEW c \in Convs, typing[c] = Typing!Nothing
        PROVE  {t \in timer : t.conv = c} = {}
    BY <2>1 DEF TypingInv, TimerOf
  <2>2. ASSUME NEW c \in Convs, typing[c] # Typing!Nothing
        PROVE  \E t \in {t \in timer : t.conv = c} :
                 {u \in timer : u.conv = c} = {t} /\ t.due >= typing[c].expires
    <3>1. PICK t \in timer : /\ t.conv = c /\ t.due >= typing[c].expires
                             /\ \A u \in timer : u.conv = c => u = t
      BY <2>2 DEF TypingInv, TimerOf
    <3>2. {u \in timer : u.conv = c} = {t}
      BY <3>1
    <3> QED BY <3>1, <3>2
  <2> QED BY <2>1, <2>2 DEF OwnTimeout, Typing!OwnTimeout
<1> QED BY <1>1, TypingInvariant, PTL

-----------------------------------------------------------------------------
(* The searches.                                                           *)

SearchKey == [conv : Convs \cup {Search!None}, query : Queries \cup {Search!Short}]
SearchCall == [n : Search!Numbers, kind : Search!Kinds, pc : {"timer", "request"},
               cancelled : BOOLEAN, key : SearchKey]

SearchTypeOK ==
    /\ conv \in Convs \cup {Search!None}
    /\ open \in [Search!Kinds -> BOOLEAN] /\ searching \in [Search!Kinds -> BOOLEAN]
    /\ query \in [Search!Kinds -> Queries \cup {Search!Short}]
    /\ results \in [Search!Kinds -> SearchKey \cup {Search!NoKey}]
    /\ calls \subseteq SearchCall

\* A search of s that was not cancelled is for what the field says; the results, too,
\* once the spinner has stopped.
Current(s) ==
    /\ \A c \in calls : c.kind = s /\ ~c.cancelled => c.key = Search!Key(s)
    /\ ~searching[s] /\ results[s] # Search!NoKey => results[s] = Search!Key(s)

SearchInv ==
    /\ SearchTypeOK
    /\ \A s \in Search!Kinds : Current(s)
    /\ chosen # Search!NoKey => open["users"] /\ chosen = Search!Key("users")

\* Nothing is searched for at first.
LEMMA SearchInit == Search!Init => SearchInv
  BY DEF Search!Init, SearchInv, SearchTypeOK, Current, Search!Kinds

\* After a cleanup, no search of s is left that was not cancelled, and the others are
\* as they were.
LEMMA CleanedUp ==
    ASSUME SearchInv, NEW s \in Search!Kinds
    PROVE  /\ Search!CleanUp(s) \subseteq SearchCall
           /\ \A c \in Search!CleanUp(s) : c.kind = s => c.cancelled
           /\ \A c \in Search!CleanUp(s) : c.kind # s => c \in calls
<1> SUFFICES ASSUME NEW c \in Search!CleanUp(s)
             PROVE  c \in SearchCall /\ (c.kind = s => c.cancelled) /\ (c.kind # s => c \in calls)
  OBVIOUS
<1>1. CASE c \in calls /\ c.kind # s
  BY <1>1 DEF SearchInv, SearchTypeOK
<1>2. ASSUME NEW d \in calls, d.kind = s, c = [d EXCEPT !.cancelled = TRUE]
      PROVE  c \in SearchCall /\ c.kind = s /\ c.cancelled
  BY <1>2 DEF SearchInv, SearchTypeOK, SearchCall
<1> QED BY <1>1, <1>2 DEF Search!CleanUp

\* What an effect of s leaves: its searches are for what the field says now, and the
\* other kind's are untouched.
AfterEffect(s) ==
    /\ calls' \subseteq SearchCall
    /\ searching' \in [Search!Kinds -> BOOLEAN]
    /\ results' \in [Search!Kinds -> SearchKey \cup {Search!NoKey}]
    /\ \A c \in calls' : c.kind = s /\ ~c.cancelled => c.key = Search!Key(s)'
    /\ ~searching'[s] /\ results'[s] # Search!NoKey => results'[s] = Search!Key(s)'
    /\ \A k \in Search!Kinds \ {s} : /\ searching'[k] = searching[k] /\ results'[k] = results[k]
                                     /\ \A c \in calls' : c.kind = k => c \in calls

\* An effect that finds nothing to search for leaves that.
LEMMA NoSearchLeaves ==
    ASSUME SearchInv, NEW s \in Search!Kinds, Search!NoSearch(s)
    PROVE  AfterEffect(s)
  BY CleanedUp DEF Search!NoSearch, SearchInv, SearchTypeOK, AfterEffect

\* Every effect leaves that.
LEMMA EffectLeaves ==
    ASSUME SearchInv, NEW s \in Search!Kinds, Search!Effect(s),
           conv' \in Convs \cup {Search!None}, query' \in [Search!Kinds -> Queries \cup {Search!Short}]
    PROVE  AfterEffect(s)
<1>1. CASE Search!NoSearch(s)
  BY <1>1, NoSearchLeaves
<1>2. CASE Search!NewSearch(s)
  <2>1. PICK key \in SearchKey : key = Search!Key(s)'
    <3>1. (IF s = "messages" THEN conv' ELSE Search!None) \in Convs \cup {Search!None}
      OBVIOUS
    <3> QED BY <3>1 DEF Search!Key, SearchKey
  <2>2. PICK n \in Search!Numbers :
          calls' = Search!CleanUp(s) \cup
              {[n |-> n, kind |-> s, pc |-> "timer", cancelled |-> FALSE, key |-> key]}
    BY <1>2, <2>1 DEF Search!NewSearch, Search!Key
  <2> DEFINE new == [n |-> n, kind |-> s, pc |-> "timer", cancelled |-> FALSE, key |-> key]
  <2>3. new \in SearchCall /\ new.kind = s /\ new.key = key
    BY DEF SearchCall
  <2>4. \A c \in calls' : c \in Search!CleanUp(s) \/ c = new
    BY <2>2
  <2> HIDE DEF new
  <2>5. calls' \subseteq SearchCall /\ \A c \in calls' : c.kind # s => c \in calls
    BY <2>3, <2>4, CleanedUp
  <2>6. searching' = [searching EXCEPT ![s] = TRUE] /\ results' = results
    BY <1>2 DEF Search!NewSearch
  <2>7. \A c \in calls' : c.kind = s /\ ~c.cancelled => c.key = key
    BY <2>3, <2>4, CleanedUp
  <2> QED BY <2>1, <2>5, <2>6, <2>7 DEF SearchInv, SearchTypeOK, AfterEffect
<1> QED BY <1>1, <1>2 DEF Search!Effect

\* The invariant after an effect, if the other kind's key stays and so does the chosen
\* user, or is forgotten.
LEMMA AfterEffectInv ==
    ASSUME SearchInv, NEW s \in Search!Kinds, AfterEffect(s),
           conv' \in Convs \cup {Search!None},
           open' \in [Search!Kinds -> BOOLEAN],
           query' \in [Search!Kinds -> Queries \cup {Search!Short}],
           \A k \in Search!Kinds \ {s} : query'[k] = query[k] /\ (k = "messages" => conv' = conv),
           chosen' = Search!NoKey \/ (s # "users" /\ chosen' = chosen /\ open'["users"] = open["users"])
    PROVE  SearchInv'
<1>1. SearchTypeOK'
  BY DEF AfterEffect, SearchTypeOK
<1>2. \A k \in Search!Kinds \ {s} : Search!Key(k)' = Search!Key(k)
  BY DEF Search!Key
<1>3. Current(s)'
  BY DEF AfterEffect, Current
<1>4. \A k \in Search!Kinds \ {s} : Current(k)'
  BY <1>2 DEF AfterEffect, Current, SearchInv
<1>5. (chosen # Search!NoKey => open["users"] /\ chosen = Search!Key("users"))'
  BY <1>2 DEF SearchInv, Search!Kinds
<1> QED BY <1>1, <1>3, <1>4, <1>5 DEF SearchInv

\* What the user does in a field.
LEMMA SearchFields ==
    ASSUME SearchInv, NEW s \in Search!Kinds,
           \/ Search!OpenSearch(s) \/ Search!Reset(s)
           \/ \E q \in Queries \cup {Search!Short} : Search!Type(s, q)
    PROVE  SearchInv'
<1> USE DEF SearchTypeOK
<1>0. SearchTypeOK
  BY DEF SearchInv
<1>1. CASE Search!OpenSearch(s)
  <2>1. AfterEffect(s)
    BY <1>1, NoSearchLeaves DEF Search!OpenSearch
  <2> QED BY <1>0, <1>1, <2>1, AfterEffectInv DEF Search!OpenSearch, Search!Kinds, SearchInv
<1>2. CASE Search!Reset(s)
  <2>1. AfterEffect(s)
    BY <1>2, NoSearchLeaves DEF Search!Reset
  <2> QED BY <1>0, <1>2, <2>1, AfterEffectInv DEF Search!Reset, Search!Kinds
<1>3. ASSUME NEW q \in Queries \cup {Search!Short}, Search!Type(s, q)
      PROVE  SearchInv'
  <2>0. query' \in [Search!Kinds -> Queries \cup {Search!Short}] /\ conv' = conv /\ open' = open
    BY <1>0, <1>3 DEF Search!Type
  <2>1. AfterEffect(s)
    BY <1>0, <1>3, <2>0, EffectLeaves DEF Search!Type
  <2> QED BY <1>0, <1>3, <2>0, <2>1, AfterEffectInv DEF Search!Type, Search!Kinds
<1> QED BY <1>1, <1>2, <1>3

\* A conversation was started, and is selected: the search of messages starts anew,
\* unless it was selected before.
LEMMA SearchStarted ==
    ASSUME SearchInv, NEW c \in Convs, Search!Started(c)
    PROVE  SearchInv'
<1>0. /\ conv' = c /\ open' = open /\ query' = query /\ chosen' = chosen
      /\ query' \in [Search!Kinds -> Queries \cup {Search!Short}]
      /\ open' \in [Search!Kinds -> BOOLEAN]
      /\ "messages" \in Search!Kinds
  BY DEF Search!Started, Search!Kinds, SearchInv, SearchTypeOK
<1>1. CASE c = conv
  BY <1>0, <1>1 DEF Search!Started, SearchInv, SearchTypeOK, Current, Search!Key
<1>2. CASE c # conv
  <2>1. AfterEffect("messages")
    BY <1>0, <1>2, EffectLeaves DEF Search!Started
  <2> QED BY <1>0, <2>1, AfterEffectInv DEF SearchInv, Search!Kinds
<1> QED BY <1>1, <1>2

\* A timer elapses, or a request is answered.
LEMMA SearchAnswers ==
    ASSUME SearchInv, NEW c \in calls, NEW ok \in BOOLEAN, Search!Elapse(c) \/ Search!Answer(c, ok)
    PROVE  SearchInv'
<1>0. c \in SearchCall /\ c.kind \in Search!Kinds /\ c.key \in SearchKey
  BY DEF SearchInv, SearchTypeOK, SearchCall
<1>1. UNCHANGED <<conv, open, query, chosen>>
  BY DEF Search!Elapse, Search!Answer, Search!field
<1>2. \A s \in Search!Kinds : Search!Key(s)' = Search!Key(s)
  BY <1>1 DEF Search!Key
<1>3. (chosen # Search!NoKey => open["users"] /\ chosen = Search!Key("users"))'
  BY <1>1, <1>2 DEF SearchInv, Search!Kinds
<1>4. CASE Search!Elapse(c)
  <2> DEFINE d == [c EXCEPT !.pc = "request"]
  <2>1. d \in SearchCall /\ d.kind = c.kind /\ d.cancelled = c.cancelled /\ d.key = c.key
    BY <1>0 DEF SearchCall
  <2>2. \A e \in calls' : e \in calls \/ e = d
    BY <1>4 DEF Search!Elapse
  <2> HIDE DEF d
  <2>3. results' = results /\ searching' = searching
    BY <1>4 DEF Search!Elapse
  <2>4. SearchTypeOK'
    BY <1>1, <2>1, <2>2, <2>3 DEF SearchInv, SearchTypeOK
  <2>5. \A s \in Search!Kinds : Current(s)'
    BY <1>2, <2>1, <2>2, <2>3 DEF SearchInv, Current
  <2> QED BY <1>3, <2>4, <2>5 DEF SearchInv
<1>5. CASE Search!Answer(c, ok)
  <2>1. calls' \subseteq calls
    BY <1>5 DEF Search!Answer
  <2>2. CASE c.cancelled
    BY <1>1, <1>2, <1>3, <1>5, <2>1, <2>2 DEF Search!Answer, SearchInv, SearchTypeOK, Current
  <2>3. CASE ~c.cancelled
    <3>1. /\ results' = [results EXCEPT ![c.kind] = IF ok THEN c.key ELSE Search!NoKey]
          /\ searching' = [searching EXCEPT ![c.kind] = FALSE]
      BY <1>5, <2>3 DEF Search!Answer, Search!StopSpinner
    <3>2. SearchTypeOK'
      BY <1>0, <1>1, <2>1, <3>1 DEF SearchInv, SearchTypeOK
    <3>3. c.key = Search!Key(c.kind)
      BY <1>0, <2>3 DEF SearchInv, Current
    <3>4. \A s \in Search!Kinds : Current(s)'
      BY <1>0, <1>2, <2>1, <3>1, <3>3 DEF SearchInv, SearchTypeOK, Current
    <3> QED BY <1>3, <3>2, <3>4 DEF SearchInv
  <2> QED BY <2>2, <2>3
<1> QED BY <1>4, <1>5

\* A user is chosen, or the start of a conversation with it begins, or fails.
LEMMA SearchChosen ==
    ASSUME SearchInv, Search!ChooseUser \/ Search!Start \/ Search!NotStarted
    PROVE  SearchInv'
<1>1. UNCHANGED <<conv, open, query, results, searching, calls>>
  BY DEF Search!ChooseUser, Search!Start, Search!NotStarted, Search!field
<1>2. chosen' = chosen \/ (Search!Listed("users") /\ chosen' = results["users"])
  BY DEF Search!ChooseUser, Search!Start, Search!NotStarted
<1>3. \A s \in Search!Kinds : Search!Key(s)' = Search!Key(s)
  BY <1>1 DEF Search!Key
<1>4. "users" \in Search!Kinds
  BY DEF Search!Kinds
<1>5. chosen' # Search!NoKey => open["users"] /\ chosen' = Search!Key("users")
  BY <1>2, <1>4 DEF SearchInv, Current, Search!Listed
<1> QED BY <1>1, <1>3, <1>4, <1>5 DEF SearchInv, SearchTypeOK, Current

\* The inductive invariant of the searches.
LEMMA SearchInvariant == Search!Spec => []SearchInv
<1>1. SearchInv /\ [Search!Next]_(Search!vars) => SearchInv'
  <2> SUFFICES ASSUME SearchInv, [Search!Next]_(Search!vars) PROVE SearchInv'
    OBVIOUS
  <2>1. CASE UNCHANGED Search!vars
    BY <2>1 DEF SearchInv, SearchTypeOK, Current, Search!Key, Search!vars, Search!field
  <2>2. CASE Search!Next
    BY <2>2, SearchFields, SearchStarted, SearchAnswers, SearchChosen
       DEF Search!Next, Search!CloseSearch, Search!ClosedAfterStart, Search!Kinds
  <2> QED BY <2>1, <2>2
<1> QED BY <1>1, SearchInit, PTL DEF Search!Spec

\* Search results on display, and the user chosen from them, answer what the field says,
\* for any number of searches, however late and in whatever order they are answered.
THEOREM LateResultsNotShown == Search!Spec => []ResultsAnswerField
<1>1. SearchInv => ResultsAnswerField
  BY DEF SearchInv, Current, ResultsAnswerField, Search!ResultsAnswerField, Search!Listed
<1> QED BY <1>1, SearchInvariant, PTL

-----------------------------------------------------------------------------
(* The composer: what is uploaded, and what messages refer to.             *)

Place == Convs \cup {Draft!None}
Attachment == [conv : Place, file : Nat, status : {"draft", "uploaded", "attached"}]
OwnMessage == [conv : Place, att : Nat, file : Nat]
Copy == [msg : Nat, first : BOOLEAN]
SendCall == [pc : {"idle", "presign", "put", "mark", "status", "message", "ack", "unacked", "typing", "late"},
             conv : Place, file : Nat, att : Nat, msg : Nat]

ComposerTypeOK ==
    /\ atts \in Seq(Attachment) /\ msgs \in Seq(OwnMessage) /\ inbox \in Seq(Copy)
    /\ missed \subseteq 1 .. Len(msgs)
    /\ opened \in Place
    /\ draft \in [file : Nat, att : Nat, status : {Draft!None, "pending", "uploading", "uploaded", "failed"}]
    /\ files \in Nat
    /\ send \in [Slots -> SendCall]

\* A call has its attachment from presign on, for its conversation; the file is stored
\* from put on, and no message has it before the call's own, which has the call's file.
CallSound(c) ==
    /\ c.pc \in {"idle", "presign"} => c.att = 0
    /\ c.pc \in {"put", "mark", "status"} => c.att # 0
    /\ c.pc \in {"idle", "presign", "put", "mark", "status"} => c.msg = 0
    /\ c.pc \in {"ack", "unacked", "typing"} => c.msg # 0
    /\ c.pc \in {"message", "late"} /\ c.att = 0 => c.file = 0
    /\ c.att # 0 => c.att \in 1 .. Len(atts) /\ atts[c.att].conv = c.conv
    /\ c.pc \in {"mark", "status", "message", "late"} /\ c.att # 0 => atts[c.att].file = c.file
    /\ c.pc \in {"put", "mark", "status", "message", "late"} /\ c.att # 0 /\ c.msg = 0 =>
         atts[c.att].status # "attached"
    /\ c.msg # 0 => /\ c.msg \in 1 .. Len(msgs)
                    /\ msgs[c.msg].att = c.att /\ msgs[c.msg].file = c.file

MessageSound(m) ==
    /\ m.att = 0 => m.file = 0
    /\ m.att # 0 => /\ m.att \in 1 .. Len(atts)
                    /\ atts[m.att] = [conv |-> m.conv, file |-> m.file, status |-> "attached"]

UploadInv ==
    /\ ComposerTypeOK
    /\ \A s \in Slots : CallSound(send[s])
    /\ \A s, t \in Slots : s # t /\ send[s].att # 0 => send[s].att # send[t].att
    /\ \A m \in 1 .. Len(msgs) : MessageSound(msgs[m])
    /\ \A m, n \in 1 .. Len(msgs) : m # n /\ msgs[m].att # 0 => msgs[m].att # msgs[n].att

\* Nothing was chosen or sent.
LEMMA UploadInit == Draft!Init => UploadInv
<1> SUFFICES ASSUME Draft!Init PROVE UploadInv
  OBVIOUS
<1> USE DEF Draft!Init
<1>1. <<>> \in Seq(Attachment) /\ <<>> \in Seq(OwnMessage) /\ <<>> \in Seq(Copy)
  OBVIOUS
<1>2. Draft!Idle \in SendCall
  BY DEF Draft!Idle, SendCall, Place, Draft!NoFile, Draft!NoAtt, Draft!None
<1>3. ComposerTypeOK
  BY <1>1, <1>2 DEF ComposerTypeOK, Place, Draft!NoDraft, Draft!NoFile, Draft!NoAtt
<1>4. \A s \in Slots : CallSound(send[s]) /\ send[s].att = 0
  BY DEF CallSound, Draft!Idle, Draft!NoAtt
<1> QED BY <1>3, <1>4 DEF UploadInv

\* The draft that a call writes on has its type and its file still.
LEMMA OnDraftType ==
    ASSUME ComposerTypeOK, NEW status \in {"uploading", "uploaded"}, NEW att \in Nat,
           Draft!OnDraft(status, att)
    PROVE  /\ draft' \in [file : Nat, att : Nat, status : {Draft!None, "pending", "uploading", "uploaded", "failed"}]
           /\ draft'.file = draft.file
           /\ draft' = Draft!NoDraft <=> draft = Draft!NoDraft
           /\ draft # Draft!NoDraft => draft'.status = status
  BY DEF ComposerTypeOK, Draft!OnDraft, Draft!NoDraft, Draft!None

\* So has the draft of a call that fails.
LEMMA FailedType ==
    ASSUME ComposerTypeOK
    PROVE  /\ Draft!Failed \in [file : Nat, att : Nat, status : {Draft!None, "pending", "uploading", "uploaded", "failed"}]
           /\ Draft!Failed.file = draft.file
           /\ Draft!Failed = Draft!NoDraft <=> draft = Draft!NoDraft
           /\ Draft!Failed.status \in {Draft!None, "failed"}
  BY DEF ComposerTypeOK, Draft!Failed, Draft!NoDraft, Draft!None

\* What the delivery of message m puts into the inbox: a first copy, perhaps a second
\* one; or no copy, of a message that is missed.
LEMMA Delivered ==
    ASSUME ComposerTypeOK, NEW c, NEW m \in Nat, Draft!Deliver(c, m)
    PROVE  /\ inbox' \in Seq(Copy) /\ Len(inbox') >= Len(inbox)
           /\ Len(inbox) \in Nat /\ Len(inbox') \in Nat
           /\ \A k \in 1 .. Len(inbox) : inbox'[k] = inbox[k]
           /\ Len(inbox') > Len(inbox) => inbox'[Len(inbox) + 1] = [msg |-> m, first |-> TRUE]
           /\ \A k \in 1 .. Len(inbox') : k > Len(inbox) + 1 => inbox'[k] = [msg |-> m, first |-> FALSE]
           /\ missed \subseteq missed' /\ missed' \subseteq missed \cup {m}
           /\ Len(inbox') = Len(inbox) => m \in missed'
<1>1. PICK q \in Seq(Copy) : q = inbox
  BY DEF ComposerTypeOK
<1>2. PICK r : r = inbox'
  OBVIOUS
<1>3. PICK one : one = [msg |-> m, first |-> TRUE]
  OBVIOUS
<1>4. PICK two : two = [msg |-> m, first |-> FALSE]
  OBVIOUS
<1>5. one \in Copy /\ two \in Copy /\ Len(q) \in Nat
  BY <1>3, <1>4 DEF Copy
<1>6. /\ r = q \o <<>> \/ r = q \o <<one>> \/ r = q \o <<one, two>>
      /\ r = q \o <<>> => c \notin active \/ r = q \o <<one>> \/ r = q \o <<one, two>>
  BY <1>1, <1>2, <1>3, <1>4 DEF Draft!Deliver, Draft!Copies
<1>7. missed \subseteq missed' /\ missed' \subseteq missed \cup {m} /\ (c \notin active => m \in missed')
  BY DEF Draft!Deliver
<1>8. CASE r = q \o <<one>>
  <2>1. <<one>> \in Seq(Copy) /\ Len(<<one>>) = 1 /\ <<one>>[1] = one
    BY <1>5
  <2>2. r \in Seq(Copy) /\ Len(r) = Len(q) + 1
    BY <1>8, <2>1, ConcatProperties
  <2>3. \A k \in 1 .. Len(q) : r[k] = q[k]
    BY <1>8, <2>1, ConcatProperties
  <2>4. r[Len(q) + 1] = one
    BY <1>8, <2>1, ConcatProperties
  <2>5. \A k \in 1 .. Len(r) : ~(k > Len(q) + 1)
    BY <1>5, <2>2
  <2> QED BY <1>1, <1>2, <1>3, <1>5, <1>7, <2>2, <2>3, <2>4, <2>5
<1>9. CASE r = q \o <<one, two>>
  <2>1. <<one, two>> \in Seq(Copy) /\ Len(<<one, two>>) = 2 /\ <<one, two>>[1] = one /\ <<one, two>>[2] = two
    BY <1>5
  <2>2. r \in Seq(Copy) /\ Len(r) = Len(q) + 2
    BY <1>9, <2>1, ConcatProperties
  <2>3. \A k \in 1 .. Len(q) : r[k] = q[k]
    BY <1>9, <2>1, ConcatProperties
  <2>4. r[Len(q) + 1] = one /\ r[Len(q) + 2] = two
    BY <1>9, <2>1, ConcatProperties
  <2>5. \A k \in 1 .. Len(r) : k > Len(q) + 1 => k = Len(q) + 2
    BY <1>5, <2>2
  <2> QED BY <1>1, <1>2, <1>3, <1>4, <1>5, <1>7, <2>2, <2>3, <2>4, <2>5
<1>10. CASE r = q \o <<>> /\ c \notin active
  <2>1. r = q
    BY <1>10
  <2> QED BY <1>1, <1>2, <1>5, <1>7, <1>10, <2>1
<1> QED BY <1>6, <1>8, <1>9, <1>10

\* A step that stores nothing keeps the invariant, if the calls stay sound.
LEMMA UploadsKept ==
    ASSUME UploadInv, ComposerTypeOK', UNCHANGED <<atts, msgs>>,
           \A s \in Slots : CallSound(send'[s]) /\ send'[s].att \in {0, send[s].att}
    PROVE  UploadInv'
<1>1. \A s \in Slots : CallSound(send[s])'
  BY DEF CallSound
<1>2. \A s, t \in Slots : s # t /\ send'[s].att # 0 => send'[s].att # send'[t].att
  BY DEF UploadInv
<1>3. \A m \in 1 .. Len(msgs') : MessageSound(msgs[m])'
  BY DEF UploadInv, MessageSound
<1> QED BY <1>1, <1>2, <1>3 DEF UploadInv

\* What the user does, and what arrives.
LEMMA UploadPage ==
    ASSUME UploadInv,
           \/ \E c \in Place : Draft!Select(c)
           \/ \E c \in Convs : Draft!Member(c)
           \/ \E t \in BOOLEAN : Draft!Type(t)
           \/ Draft!ChooseFile \/ Draft!RemoveDraft \/ Draft!OwnDelivered \/ Draft!SocketError
           \/ \E s \in Slots : Draft!Progress(s)
    PROVE  UploadInv'
<1> USE DEF Draft!Select, Draft!Member, Draft!Type, Draft!ChooseFile, Draft!RemoveDraft, Draft!OwnDelivered,
            Draft!SocketError, Draft!Progress, Draft!serverVars, Draft!pageVars
<1>1. UNCHANGED <<atts, msgs, missed, send>>
  OBVIOUS
<1>2. opened' \in Place /\ files' \in Nat
  BY DEF UploadInv, ComposerTypeOK
<1>3. inbox' \in Seq(Copy)
  <2>1. CASE inbox' = inbox
    BY <2>1 DEF UploadInv, ComposerTypeOK
  <2>2. CASE Draft!OwnDelivered
    BY <2>2, HeadTailProperties DEF UploadInv, ComposerTypeOK
  <2> QED BY <2>1, <2>2
<1>4. draft' \in [file : Nat, att : Nat, status : {Draft!None, "pending", "uploading", "uploaded", "failed"}]
  <2>1. CASE draft' \in {draft, Draft!NoDraft}
    BY <2>1 DEF UploadInv, ComposerTypeOK, Draft!NoDraft, Draft!NoFile, Draft!NoAtt
  <2>2. CASE Draft!ChooseFile
    BY <2>2 DEF UploadInv, ComposerTypeOK, Draft!NoAtt
  <2>3. ASSUME NEW s \in Slots, Draft!Progress(s)
        PROVE  draft' \in [file : Nat, att : Nat, status : {Draft!None, "pending", "uploading", "uploaded", "failed"}]
    BY <2>3, OnDraftType DEF UploadInv, ComposerTypeOK
  <2> QED BY <2>1, <2>2, <2>3
<1>5. ComposerTypeOK'
  BY <1>1, <1>2, <1>3, <1>4 DEF UploadInv, ComposerTypeOK
<1>6. \A s \in Slots : CallSound(send'[s]) /\ send'[s].att = send[s].att
  BY <1>1 DEF UploadInv
<1> QED BY <1>1, <1>5, <1>6, UploadsKept

\* handleSend begins with the draft on display.
LEMMA UploadSend ==
    ASSUME UploadInv, NEW s \in Slots, Draft!Send(s)
    PROVE  UploadInv'
<1>0. ComposerTypeOK
  BY DEF UploadInv
<1>1. PICK c \in SendCall : /\ send' = [send EXCEPT ![s] = c]
                            /\ c.att = 0 /\ c.msg = 0 /\ c.pc \in {"message", "presign"}
                            /\ c.pc = "message" => c.file = 0
  <2> DEFINE c == [pc |-> IF draft = Draft!NoDraft THEN "message" ELSE "presign", conv |-> opened,
                   file |-> draft.file, att |-> Draft!NoAtt, msg |-> 0]
  <2>1. send' = [send EXCEPT ![s] = c]
    BY DEF Draft!Send
  <2>2. c \in SendCall
    BY <1>0 DEF SendCall, ComposerTypeOK, Draft!NoAtt
  <2>3. c.att = 0 /\ c.msg = 0 /\ c.pc \in {"message", "presign"} /\ (c.pc = "message" => c.file = 0)
    BY DEF Draft!NoDraft, Draft!NoFile, Draft!NoAtt
  <2> HIDE DEF c
  <2> QED BY <2>1, <2>2, <2>3
<1>2. UNCHANGED <<atts, msgs, missed, inbox, opened, draft, files>>
  BY DEF Draft!Send, Draft!serverVars
<1>3. ComposerTypeOK'
  BY <1>0, <1>1, <1>2 DEF ComposerTypeOK
<1>4. \A t \in Slots : CallSound(send'[t]) /\ send'[t].att \in {0, send[t].att}
  BY <1>0, <1>1 DEF UploadInv, CallSound, ComposerTypeOK
<1> QED BY <1>2, <1>3, <1>4, UploadsKept

\* A call is answered, acknowledged, or ends.
LEMMA UploadCalls ==
    ASSUME UploadInv,
           \/ Draft!Disconnect
           \/ \E s \in Slots : \/ Draft!Status(s) \/ Draft!Ack(s) \/ Draft!Done(s)
                               \/ Draft!Fail(s) \/ Draft!Timeout(s) \/ Draft!Abandon(s)
    PROVE  UploadInv'
<1>0. ComposerTypeOK
  BY DEF UploadInv
<1>1. UNCHANGED <<atts, msgs, missed, opened, files>>
  BY DEF Draft!Disconnect, Draft!Status, Draft!Ack, Draft!Done, Draft!Fail, Draft!Timeout, Draft!Abandon,
         Draft!pageVars, Draft!serverVars
<1>2. inbox' \in Seq(Copy)
  <2>1. <<>> \in Seq(Copy)
    OBVIOUS
  <2> QED BY <1>0, <2>1 DEF Draft!Disconnect, Draft!Status, Draft!Ack, Draft!Done, Draft!Fail, Draft!Timeout,
         Draft!Abandon, ComposerTypeOK
<1>3. draft' \in [file : Nat, att : Nat, status : {Draft!None, "pending", "uploading", "uploaded", "failed"}]
  <2>1. CASE draft' \in {draft, Draft!Failed}
    BY <1>0, <2>1, FailedType DEF ComposerTypeOK
  <2>2. ASSUME NEW s \in Slots, Draft!Status(s)
        PROVE  draft' \in [file : Nat, att : Nat, status : {Draft!None, "pending", "uploading", "uploaded", "failed"}]
    <3>1. send[s].att \in Nat
      BY <1>0 DEF ComposerTypeOK, SendCall
    <3> QED BY <1>0, <2>2, <3>1, OnDraftType DEF Draft!Status
  <2> QED BY <2>1, <2>2 DEF Draft!Disconnect, Draft!Ack, Draft!Done, Draft!Fail, Draft!Timeout, Draft!Abandon,
         Draft!pageVars
<1>4. Draft!Idle \in SendCall /\ CallSound(Draft!Idle) /\ Draft!Idle.att = 0
  BY DEF Draft!Idle, SendCall, CallSound, Place, Draft!NoFile, Draft!NoAtt, Draft!None
<1>5. ASSUME NEW t \in Slots
      PROVE  send'[t] \in SendCall /\ CallSound(send'[t]) /\ send'[t].att \in {0, send[t].att}
  <2>0. send[t] \in SendCall /\ CallSound(send[t])
    BY <1>0 DEF UploadInv, ComposerTypeOK
  <2>1. CASE send'[t] = send[t]
    BY <2>0, <2>1
  <2>2. CASE send'[t] = Draft!Idle
    BY <1>4, <2>2
  <2>3. CASE \/ send[t].pc = "ack" /\ send'[t] = [send[t] EXCEPT !.pc = "unacked"]
             \/ send[t].pc = "ack" /\ send'[t] = [send[t] EXCEPT !.pc = "typing"]
             \/ send[t].pc = "status" /\ send'[t] = [send[t] EXCEPT !.pc = "message"]
             \/ send[t].pc = "message" /\ send'[t] = [send[t] EXCEPT !.pc = "late"]
    <3>1. /\ send'[t] \in SendCall /\ send'[t].att = send[t].att
          /\ send'[t].conv = send[t].conv /\ send'[t].file = send[t].file /\ send'[t].msg = send[t].msg
      BY <2>0, <2>3 DEF SendCall
    <3>2. \/ send[t].pc = "ack" /\ send'[t].pc \in {"unacked", "typing"}
          \/ send[t].pc = "status" /\ send'[t].pc = "message"
          \/ send[t].pc = "message" /\ send'[t].pc = "late"
      BY <2>0, <2>3 DEF SendCall
    <3> QED BY <2>0, <3>1, <3>2 DEF CallSound
  <2>4. CASE Draft!Disconnect
    BY <2>1, <2>3, <2>4 DEF Draft!Disconnect
  <2>5. ASSUME NEW s \in Slots,
               \/ Draft!Status(s) \/ Draft!Ack(s) \/ Draft!Done(s)
               \/ Draft!Fail(s) \/ Draft!Timeout(s) \/ Draft!Abandon(s)
        PROVE  \/ send'[t] = send[t] \/ send'[t] = Draft!Idle
               \/ send[t].pc = "ack" /\ send'[t] = [send[t] EXCEPT !.pc = "typing"]
               \/ send[t].pc = "status" /\ send'[t] = [send[t] EXCEPT !.pc = "message"]
               \/ send[t].pc = "message" /\ send'[t] = [send[t] EXCEPT !.pc = "late"]
    <3> USE <1>0 DEF ComposerTypeOK
    <3>1. CASE t # s
      BY <2>5, <3>1 DEF Draft!Status, Draft!Ack, Draft!Done, Draft!Fail, Draft!Timeout, Draft!Abandon
    <3>2. CASE t = s
      <4>1. CASE Draft!Status(s)
        BY <3>2, <4>1 DEF Draft!Status
      <4>2. CASE Draft!Ack(s)
        BY <3>2, <4>2 DEF Draft!Ack
      <4>3. CASE Draft!Timeout(s)
        BY <3>2, <4>3 DEF Draft!Timeout
      <4>4. CASE Draft!Done(s) \/ Draft!Fail(s) \/ Draft!Abandon(s)
        BY <3>2, <4>4 DEF Draft!Done, Draft!Fail, Draft!Abandon
      <4> QED BY <2>5, <4>1, <4>2, <4>3, <4>4
    <3> QED BY <3>1, <3>2
  <2> QED BY <2>1, <2>2, <2>3, <2>4, <2>5
<1>6. send' \in [Slots -> SendCall]
  <2>1. \E f : send' = [s \in Slots |-> f[s]]
    <3>1. CASE Draft!Disconnect
      BY <3>1 DEF Draft!Disconnect
    <3>2. CASE \E s \in Slots : \/ Draft!Status(s) \/ Draft!Ack(s) \/ Draft!Done(s)
                                \/ Draft!Fail(s) \/ Draft!Timeout(s) \/ Draft!Abandon(s)
      BY <1>0, <3>2 DEF Draft!Status, Draft!Ack, Draft!Done, Draft!Fail, Draft!Timeout, Draft!Abandon,
         ComposerTypeOK
    <3> QED BY <3>1, <3>2
  <2> QED BY <1>5, <2>1
<1>7. ComposerTypeOK'
  BY <1>0, <1>1, <1>2, <1>3, <1>6 DEF ComposerTypeOK
<1> QED BY <1>1, <1>5, <1>7, UploadsKept

\* A new attachment is nobody else's.
LEMMA UploadPresign ==
    ASSUME UploadInv, NEW s \in Slots, Draft!Presign(s)
    PROVE  UploadInv'
<1>0. ComposerTypeOK /\ send[s] \in SendCall /\ send[s].pc = "presign"
  BY DEF UploadInv, ComposerTypeOK, Draft!Presign
<1>1. PICK new \in Attachment : new = [conv |-> send[s].conv, file |-> Draft!NoFile, status |-> "draft"]
  BY <1>0 DEF SendCall, Attachment, Draft!NoFile
<1>2. /\ atts' \in Seq(Attachment) /\ Len(atts') = Len(atts) + 1
      /\ \A k \in 1 .. Len(atts) : atts'[k] = atts[k]
      /\ atts'[Len(atts')] = new
  BY <1>0, <1>1, AppendProperties DEF Draft!Presign, ComposerTypeOK
<1>3. Len(atts) \in Nat /\ Len(atts') \in Nat
  BY <1>0, <1>2 DEF ComposerTypeOK
<1>4. PICK c \in SendCall : /\ send' = [send EXCEPT ![s] = c]
                            /\ c.pc = "put" /\ c.att = Len(atts') /\ c.conv = send[s].conv
                            /\ c.msg = send[s].msg
  <2> DEFINE c == [send[s] EXCEPT !.pc = "put", !.att = Len(atts')]
  <2>1. send' = [send EXCEPT ![s] = c]
    BY DEF Draft!Presign
  <2>2. /\ c \in SendCall /\ c.pc = "put" /\ c.att = Len(atts') /\ c.conv = send[s].conv
        /\ c.msg = send[s].msg
    BY <1>0, <1>3 DEF SendCall
  <2> HIDE DEF c
  <2> QED BY <2>1, <2>2
<1>5. UNCHANGED <<msgs, missed, inbox, opened, files>>
  BY DEF Draft!Presign
<1>6. ComposerTypeOK'
  <2>1. draft' \in [file : Nat, att : Nat, status : {Draft!None, "pending", "uploading", "uploaded", "failed"}]
    BY <1>0, <1>3, OnDraftType DEF Draft!Presign
  <2> QED BY <1>0, <1>2, <1>4, <1>5, <2>1 DEF ComposerTypeOK
<1>7. ASSUME NEW t \in Slots PROVE CallSound(send[t])'
  <2>1. CASE t = s
    <3>1. CallSound(send[s]) /\ send'[t] = c
      BY <1>0, <1>4, <2>1 DEF UploadInv, ComposerTypeOK
    <3> QED BY <1>0, <1>1, <1>2, <1>3, <1>4, <3>1 DEF CallSound
  <2>2. CASE t # s
    <3>1. CallSound(send[t]) /\ send'[t] = send[t]
      BY <1>0, <1>4, <2>2 DEF UploadInv, ComposerTypeOK
    <3> QED BY <1>2, <1>3, <1>5, <3>1 DEF CallSound
  <2> QED BY <2>1, <2>2
<1>8. \A t, u \in Slots : t # u /\ send'[t].att # 0 => send'[t].att # send'[u].att
  <2>1. \A t \in Slots : send[t].att = 0 \/ send[t].att \in 1 .. Len(atts)
    BY DEF UploadInv, CallSound
  <2>2. \A t \in Slots : send'[t] = IF t = s THEN c ELSE send[t]
    BY <1>0, <1>4 DEF ComposerTypeOK
  <2> QED BY <1>2, <1>3, <1>4, <2>1, <2>2 DEF UploadInv
<1>9. ASSUME NEW m \in 1 .. Len(msgs') PROVE MessageSound(msgs[m])'
  <2>1. MessageSound(msgs[m]) /\ msgs'[m] = msgs[m]
    BY <1>5 DEF UploadInv
  <2> QED BY <1>2, <1>3, <2>1 DEF MessageSound
<1> QED BY <1>5, <1>6, <1>7, <1>8, <1>9 DEF UploadInv

\* The object, or the status, of a call's own attachment changes: nobody else's.
LEMMA UploadOwn ==
    ASSUME UploadInv, NEW s \in Slots, Draft!Put(s) \/ Draft!Mark(s)
    PROVE  UploadInv'
<1> DEFINE k == send[s].att
<1>0. ComposerTypeOK /\ send[s] \in SendCall /\ send[s].pc \in {"put", "mark"} /\ CallSound(send[s])
  BY DEF UploadInv, ComposerTypeOK, Draft!Put, Draft!Mark
<1>1. /\ k \in 1 .. Len(atts) /\ atts[k] \in Attachment /\ atts[k].status # "attached"
      /\ send[s].msg = 0
  BY <1>0 DEF CallSound, ComposerTypeOK
<1>2. PICK new \in Attachment : /\ atts' = [atts EXCEPT ![k] = new]
                                /\ new.conv = send[s].conv /\ new.file = send[s].file
                                /\ new.status # "attached"
  <2>1. CASE Draft!Put(s)
    <3> DEFINE new == [atts[k] EXCEPT !.file = send[s].file]
    <3>1. new \in Attachment /\ new.conv = atts[k].conv /\ new.file = send[s].file /\ new.status = atts[k].status
      BY <1>0, <1>1 DEF Attachment, SendCall
    <3>2. atts' = [atts EXCEPT ![k] = new]
      BY <2>1 DEF Draft!Put
    <3> HIDE DEF new
    <3> QED BY <1>0, <1>1, <3>1, <3>2 DEF CallSound
  <2>2. CASE Draft!Mark(s)
    <3> DEFINE new == [atts[k] EXCEPT !.status = "uploaded"]
    <3>1. new \in Attachment /\ new.conv = atts[k].conv /\ new.file = atts[k].file /\ new.status = "uploaded"
      BY <1>0, <1>1 DEF Attachment, SendCall
    <3>2. atts' = [atts EXCEPT ![k] = new]
      BY <2>2 DEF Draft!Mark
    <3>3. atts[k].file = send[s].file
      BY <1>0, <1>1, <2>2 DEF Draft!Mark, CallSound
    <3> HIDE DEF new
    <3> QED BY <1>0, <1>1, <3>1, <3>2, <3>3 DEF CallSound
  <2> QED BY <2>1, <2>2
<1>3. /\ atts' \in Seq(Attachment) /\ Len(atts') = Len(atts)
      /\ \A j \in 1 .. Len(atts) : atts'[j] = IF j = k THEN new ELSE atts[j]
  BY <1>0, <1>1, <1>2, ExceptSeq DEF ComposerTypeOK
<1>4. PICK c \in SendCall : /\ send' = [send EXCEPT ![s] = c]
                            /\ c.pc \in {"mark", "status"} /\ c.att = k /\ c.conv = send[s].conv
                            /\ c.file = send[s].file /\ c.msg = send[s].msg
  <2>1. CASE Draft!Put(s)
    <3> DEFINE c == [send[s] EXCEPT !.pc = "mark"]
    <3>1. send' = [send EXCEPT ![s] = c]
      BY <2>1 DEF Draft!Put
    <3>2. /\ c \in SendCall /\ c.pc = "mark" /\ c.att = k /\ c.conv = send[s].conv
          /\ c.file = send[s].file /\ c.msg = send[s].msg
      BY <1>0 DEF SendCall
    <3> HIDE DEF c
    <3> QED BY <3>1, <3>2
  <2>2. CASE Draft!Mark(s)
    <3> DEFINE c == [send[s] EXCEPT !.pc = "status"]
    <3>1. send' = [send EXCEPT ![s] = c]
      BY <2>2 DEF Draft!Mark
    <3>2. /\ c \in SendCall /\ c.pc = "status" /\ c.att = k /\ c.conv = send[s].conv
          /\ c.file = send[s].file /\ c.msg = send[s].msg
      BY <1>0 DEF SendCall
    <3> HIDE DEF c
    <3> QED BY <3>1, <3>2
  <2> QED BY <2>1, <2>2
<1>5. UNCHANGED <<msgs, missed, inbox, opened, draft, files>>
  BY DEF Draft!Put, Draft!Mark, Draft!pageVars
<1>6. ComposerTypeOK'
  BY <1>0, <1>3, <1>4, <1>5 DEF ComposerTypeOK
<1>7. ASSUME NEW t \in Slots PROVE CallSound(send[t])'
  <2>1. CASE t = s
    <3>1. send'[t] = c
      BY <1>0, <1>4, <2>1 DEF ComposerTypeOK
    <3>2. c.att \in 1 .. Len(atts') /\ atts'[c.att] = new /\ c.att # 0
      BY <1>1, <1>3, <1>4
    <3> QED BY <1>0, <1>2, <1>4, <1>5, <3>1, <3>2 DEF CallSound
  <2>2. CASE t # s
    <3>1. CallSound(send[t]) /\ send'[t] = send[t]
      BY <1>0, <1>4, <2>2 DEF UploadInv, ComposerTypeOK
    <3>2. send[t].att # k
      BY <1>1, <2>2 DEF UploadInv
    <3> QED BY <1>3, <1>5, <3>1, <3>2 DEF CallSound
  <2> QED BY <2>1, <2>2
<1>8. \A t, u \in Slots : t # u /\ send'[t].att # 0 => send'[t].att # send'[u].att
  <2>1. \A t \in Slots : send'[t].att = send[t].att
    BY <1>0, <1>4 DEF ComposerTypeOK
  <2> QED BY <2>1 DEF UploadInv
<1>9. ASSUME NEW m \in 1 .. Len(msgs') PROVE MessageSound(msgs[m])'
  <2>1. MessageSound(msgs[m]) /\ msgs'[m] = msgs[m]
    BY <1>5 DEF UploadInv
  <2>2. msgs[m].att # k
    BY <1>1, <2>1 DEF MessageSound
  <2> QED BY <1>3, <2>1, <2>2 DEF MessageSound
<1> QED BY <1>5, <1>6, <1>7, <1>8, <1>9 DEF UploadInv

\* A message is appended whose attachment, if it has one, was uploaded and is attached.
LEMMA MessageAppended ==
    ASSUME UploadInv, NEW new \in OwnMessage, msgs' = Append(msgs, new),
           MessageSound(new)', \A m \in 1 .. Len(msgs) : MessageSound(msgs[m]) => MessageSound(msgs[m])',
           \A m \in 1 .. Len(msgs) : new.att # 0 => msgs[m].att # new.att
    PROVE  /\ msgs' \in Seq(OwnMessage) /\ Len(msgs') = Len(msgs) + 1
           /\ \A m \in 1 .. Len(msgs) : msgs'[m] = msgs[m]
           /\ msgs'[Len(msgs')] = new
           /\ \A m \in 1 .. Len(msgs') : MessageSound(msgs[m])'
           /\ \A m, n \in 1 .. Len(msgs') : m # n /\ msgs'[m].att # 0 => msgs'[m].att # msgs'[n].att
<1>1. /\ msgs' \in Seq(OwnMessage) /\ Len(msgs') = Len(msgs) + 1
      /\ \A m \in 1 .. Len(msgs) : msgs'[m] = msgs[m]
      /\ msgs'[Len(msgs')] = new
  BY AppendProperties DEF UploadInv, ComposerTypeOK
<1>2. Len(msgs) \in Nat
  BY DEF UploadInv, ComposerTypeOK
<1>3. \A m \in 1 .. Len(msgs') : m \in 1 .. Len(msgs) \/ m = Len(msgs')
  BY <1>1, <1>2
<1>4. \A m \in 1 .. Len(msgs') : MessageSound(msgs[m])'
  BY <1>1, <1>3 DEF UploadInv, MessageSound
<1>5. \A m, n \in 1 .. Len(msgs') : m # n /\ msgs'[m].att # 0 => msgs'[m].att # msgs'[n].att
  BY <1>1, <1>3 DEF UploadInv
<1> QED BY <1>1, <1>4, <1>5

\* What the backend stores for a call.
LEMMA UploadStore ==
    ASSUME UploadInv, NEW s \in Slots, Draft!Store(s)
    PROVE  UploadInv'
<1> DEFINE id == send[s].att
<1>0. /\ ComposerTypeOK /\ send[s] \in SendCall /\ CallSound(send[s])
      /\ send[s].pc \in {"message", "late"} /\ send[s].msg = 0
  BY DEF UploadInv, ComposerTypeOK, Draft!Store, Draft!Asked
<1>1. PICK new \in OwnMessage : /\ msgs' = Append(msgs, new)
                                /\ new.conv = send[s].conv /\ new.att = id /\ new.file = send[s].file
  <2> DEFINE new == [conv |-> send[s].conv, att |-> id, file |-> send[s].file]
  <2>1. new \in OwnMessage /\ new.conv = send[s].conv /\ new.att = id /\ new.file = send[s].file
    BY <1>0 DEF OwnMessage, SendCall
  <2>2. msgs' = Append(msgs, new)
    BY DEF Draft!Store, Draft!AttachmentId
  <2> HIDE DEF new
  <2> QED BY <2>1, <2>2
<1>2. /\ msgs' \in Seq(OwnMessage) /\ Len(msgs) \in Nat /\ Len(msgs') = Len(msgs) + 1
      /\ \A m \in 1 .. Len(msgs) : msgs'[m] = msgs[m]
      /\ msgs'[Len(msgs')] = new
  BY <1>0, <1>1, AppendProperties DEF ComposerTypeOK
<1>3. PICK c \in SendCall : /\ send' = [send EXCEPT ![s] = c]
                            /\ c.pc = send[s].pc /\ c.att = id /\ c.conv = send[s].conv
                            /\ c.file = send[s].file /\ c.msg = Len(msgs')
  <2> DEFINE c == [send[s] EXCEPT !.msg = Len(msgs')]
  <2>1. send' = [send EXCEPT ![s] = c]
    BY DEF Draft!Store
  <2>2. /\ c \in SendCall /\ c.pc = send[s].pc /\ c.att = id /\ c.conv = send[s].conv
        /\ c.file = send[s].file /\ c.msg = Len(msgs')
    BY <1>0, <1>2 DEF SendCall
  <2> HIDE DEF c
  <2> QED BY <2>1, <2>2
<1>4. UNCHANGED <<missed, inbox, opened, draft, files>>
  BY DEF Draft!Store, Draft!pageVars
<1>5. ASSUME NEW t \in Slots, t # s
      PROVE  send'[t] = send[t] /\ CallSound(send[t]) /\ (id # 0 => send[t].att # id)
  BY <1>0, <1>3, <1>5 DEF UploadInv, ComposerTypeOK
<1>6. send'[s] = c /\ send' \in [Slots -> SendCall]
  BY <1>0, <1>3 DEF ComposerTypeOK
<1>7. \A t, u \in Slots : t # u /\ send'[t].att # 0 => send'[t].att # send'[u].att
  <2>1. \A t \in Slots : send'[t].att = send[t].att
    BY <1>3, <1>5, <1>6
  <2> QED BY <2>1 DEF UploadInv
<1>8. ASSUME atts' \in Seq(Attachment) PROVE ComposerTypeOK'
  <2>1. missed' \subseteq 1 .. Len(msgs')
    BY <1>0, <1>2, <1>4 DEF ComposerTypeOK
  <2> QED BY <1>0, <1>2, <1>4, <1>6, <1>8, <2>1 DEF ComposerTypeOK
<1>9. CASE id = 0
  <2>1. atts' = atts
    BY <1>9 DEF Draft!Store, Draft!AttachmentId, Draft!NoAtt
  <2>2. MessageSound(new)' /\ \A m \in 1 .. Len(msgs) : MessageSound(msgs[m]) => MessageSound(msgs[m])'
    <3>1. new.att = 0 /\ new.file = 0
      BY <1>0, <1>1, <1>9 DEF CallSound
    <3> QED BY <1>2, <2>1, <3>1 DEF MessageSound
  <2>3. ASSUME NEW t \in Slots PROVE CallSound(send[t])'
    <3>1. CASE t = s
      BY <1>0, <1>1, <1>2, <1>3, <1>6, <1>9, <2>1, <3>1 DEF CallSound
    <3>2. CASE t # s
      BY <1>2, <1>5, <2>1, <3>2 DEF CallSound
    <3> QED BY <3>1, <3>2
  <2>4. ComposerTypeOK'
    BY <1>0, <1>8, <2>1 DEF ComposerTypeOK
  <2> QED BY <1>1, <1>7, <1>9, <2>2, <2>3, <2>4, MessageAppended DEF UploadInv
<1>10. CASE id # 0
  <2>1. /\ id \in 1 .. Len(atts) /\ atts[id] \in Attachment
        /\ atts[id].conv = send[s].conv /\ atts[id].file = send[s].file /\ atts[id].status # "attached"
    BY <1>0, <1>10 DEF CallSound, ComposerTypeOK
  <2>2. PICK a \in Attachment : /\ atts' = [atts EXCEPT ![id] = a]
                                /\ a = [conv |-> send[s].conv, file |-> send[s].file, status |-> "attached"]
    <3> DEFINE a == [atts[id] EXCEPT !.status = "attached"]
    <3>1. a \in Attachment /\ a = [conv |-> atts[id].conv, file |-> atts[id].file, status |-> "attached"]
      BY <2>1 DEF Attachment
    <3>2. atts' = [atts EXCEPT ![id] = a]
      BY <1>10 DEF Draft!Store, Draft!AttachmentId, Draft!NoAtt
    <3> HIDE DEF a
    <3> QED BY <2>1, <3>1, <3>2
  <2>3. /\ atts' \in Seq(Attachment) /\ Len(atts') = Len(atts)
        /\ \A j \in 1 .. Len(atts) : atts'[j] = IF j = id THEN a ELSE atts[j]
    BY <1>0, <2>1, <2>2, ExceptSeq DEF ComposerTypeOK
  <2>4. ASSUME NEW m \in 1 .. Len(msgs) PROVE msgs[m].att # id
    <3>1. MessageSound(msgs[m])
      BY DEF UploadInv
    <3>2. msgs[m].att = id => atts[id].status = "attached"
      BY <1>10, <3>1 DEF MessageSound
    <3> QED BY <2>1, <3>2
  <2>5. MessageSound(new)'
    BY <1>1, <1>10, <2>1, <2>2, <2>3 DEF MessageSound
  <2>6. \A m \in 1 .. Len(msgs) : MessageSound(msgs[m]) => MessageSound(msgs[m])'
    BY <1>2, <2>3, <2>4 DEF MessageSound
  <2>7. ASSUME NEW t \in Slots PROVE CallSound(send[t])'
    <3>1. CASE t = s
      <4>1. /\ c.att \in 1 .. Len(atts') /\ atts'[c.att].conv = c.conv /\ atts'[c.att].file = c.file
            /\ c.att # 0 /\ c.msg # 0 /\ c.msg \in 1 .. Len(msgs')
            /\ msgs'[c.msg].att = c.att /\ msgs'[c.msg].file = c.file
        BY <1>1, <1>2, <1>3, <1>10, <2>1, <2>2, <2>3
      <4> QED BY <1>0, <1>3, <1>6, <3>1, <4>1 DEF CallSound
    <3>2. CASE t # s
      <4>1. CallSound(send[t]) /\ send'[t] = send[t] /\ send[t].att # id
        BY <1>5, <1>10, <3>2
      <4>2. send[t].msg # 0 => send[t].msg \in 1 .. Len(msgs') /\ msgs'[send[t].msg] = msgs[send[t].msg]
        BY <1>2, <4>1 DEF CallSound
      <4>3. send[t].att # 0 => send[t].att \in 1 .. Len(atts') /\ atts'[send[t].att] = atts[send[t].att]
        BY <2>3, <4>1 DEF CallSound
      <4> QED BY <4>1, <4>2, <4>3 DEF CallSound
    <3> QED BY <3>1, <3>2
  <2>8. ComposerTypeOK'
    BY <1>8, <2>3
  <2> QED BY <1>1, <1>7, <2>4, <2>5, <2>6, <2>7, <2>8, MessageAppended DEF UploadInv
<1> QED BY <1>9, <1>10

\* A message is delivered, in time or late.
LEMMA UploadPublish ==
    ASSUME UploadInv, NEW s \in Slots, Draft!Publish(s)
    PROVE  UploadInv'
<1>0. /\ ComposerTypeOK /\ send[s] \in SendCall /\ CallSound(send[s]) /\ send[s].msg # 0
      /\ send[s].pc \in {"message", "late"}
  BY DEF UploadInv, ComposerTypeOK, Draft!Publish, Draft!Asked
<1>1. send[s].msg \in 1 .. Len(msgs) /\ send[s].msg \in Nat
  BY <1>0 DEF CallSound, SendCall
<1>2. inbox' \in Seq(Copy) /\ missed' \subseteq missed \cup {send[s].msg}
  BY <1>0, <1>1, Delivered DEF Draft!Publish
<1>3. UNCHANGED <<atts, msgs, opened, draft, files>>
  BY DEF Draft!Publish, Draft!pageVars
<1>4. PICK c \in SendCall : send' = [send EXCEPT ![s] = c] /\ CallSound(c) /\ c.att \in {0, send[s].att}
  <2>1. CASE send[s].pc = "late"
    <3>1. Draft!Idle \in SendCall /\ CallSound(Draft!Idle) /\ Draft!Idle.att = 0
      BY DEF Draft!Idle, SendCall, CallSound, Place, Draft!NoFile, Draft!NoAtt, Draft!None
    <3> QED BY <1>0, <2>1, <3>1 DEF Draft!Publish, ComposerTypeOK
  <2>2. CASE send[s].pc # "late"
    <3> DEFINE c == [send[s] EXCEPT !.pc = "ack"]
    <3>1. send' = [send EXCEPT ![s] = c]
      BY <1>0, <2>2 DEF Draft!Publish, ComposerTypeOK
    <3>2. /\ c \in SendCall /\ c.pc = "ack" /\ c.att = send[s].att /\ c.conv = send[s].conv
          /\ c.file = send[s].file /\ c.msg = send[s].msg
      BY <1>0 DEF SendCall
    <3> HIDE DEF c
    <3> QED BY <1>0, <3>1, <3>2 DEF CallSound
  <2> QED BY <2>1, <2>2
<1>5. ComposerTypeOK'
  <2>1. missed' \subseteq 1 .. Len(msgs')
    BY <1>0, <1>1, <1>2, <1>3, Zenon DEF ComposerTypeOK
  <2> QED BY <1>0, <1>2, <1>3, <1>4, <2>1 DEF ComposerTypeOK
<1>6. \A t \in Slots : CallSound(send'[t]) /\ send'[t].att \in {0, send[t].att}
  BY <1>0, <1>4 DEF UploadInv, ComposerTypeOK
<1> QED BY <1>3, <1>5, <1>6, UploadsKept

\* A message of Me from elsewhere has no attachment of this page.
LEMMA UploadElsewhere ==
    ASSUME UploadInv, NEW c \in Convs, Draft!Elsewhere(c)
    PROVE  UploadInv'
<1>0. ComposerTypeOK
  BY DEF UploadInv
<1>1. PICK new \in OwnMessage : msgs' = Append(msgs, new) /\ new.att = 0 /\ new.file = 0
  <2> DEFINE new == [conv |-> c, att |-> Draft!NoAtt, file |-> Draft!NoFile]
  <2>1. new \in OwnMessage /\ new.att = 0 /\ new.file = 0
    BY DEF OwnMessage, Place, Draft!NoAtt, Draft!NoFile
  <2>2. msgs' = Append(msgs, new)
    BY DEF Draft!Elsewhere
  <2> HIDE DEF new
  <2> QED BY <2>1, <2>2
<1>2. /\ msgs' \in Seq(OwnMessage) /\ Len(msgs') \in Nat /\ Len(msgs) \in Nat
      /\ Len(msgs') = Len(msgs) + 1 /\ \A m \in 1 .. Len(msgs) : msgs'[m] = msgs[m]
  BY <1>0, <1>1, AppendProperties DEF ComposerTypeOK
<1>3. inbox' \in Seq(Copy) /\ missed' \subseteq missed \cup {Len(msgs')}
  BY <1>0, <1>2, Delivered DEF Draft!Elsewhere
<1>4. UNCHANGED <<atts, opened, draft, files, send>>
  BY DEF Draft!Elsewhere, Draft!pageVars
<1>5. ComposerTypeOK'
  <2>1. missed' \subseteq 1 .. Len(msgs')
    <3>1. 1 .. Len(msgs) \subseteq 1 .. Len(msgs') /\ Len(msgs') \in 1 .. Len(msgs')
      BY <1>2
    <3> QED BY <1>0, <1>3, <3>1 DEF ComposerTypeOK
  <2> QED BY <1>0, <1>2, <1>3, <1>4, <2>1 DEF ComposerTypeOK
<1>6. \A s \in Slots : CallSound(send[s])'
  BY <1>2, <1>4 DEF UploadInv, CallSound
<1>7. MessageSound(new)' /\ \A m \in 1 .. Len(msgs) : MessageSound(msgs[m]) => MessageSound(msgs[m])'
  BY <1>1, <1>2, <1>4 DEF MessageSound
<1> QED BY <1>1, <1>4, <1>5, <1>6, <1>7, MessageAppended DEF UploadInv

\* The inductive invariant of the uploads.
LEMMA UploadStep == UploadInv /\ [Draft!Next]_(Draft!vars) => UploadInv'
<1> SUFFICES ASSUME UploadInv, [Draft!Next]_(Draft!vars) PROVE UploadInv'
  OBVIOUS
<1>1. CASE UNCHANGED Draft!vars
  <2>1. UNCHANGED <<atts, msgs, missed, inbox, opened, draft, files, send>>
    BY <1>1 DEF Draft!vars, Draft!serverVars, Draft!pageVars
  <2> QED BY <2>1 DEF UploadInv, ComposerTypeOK, CallSound, MessageSound
<1>2. CASE Draft!Next
  BY <1>2, UploadPage, UploadSend, UploadCalls, UploadPresign, UploadOwn, UploadStore, UploadPublish,
     UploadElsewhere DEF Draft!Next, Place
<1> QED BY <1>1, <1>2

\* The invariant of the composer's upload holds throughout.
LEMMA UploadInvariant == Draft!Spec => []UploadInv
  BY UploadInit, UploadStep, PTL DEF Draft!Spec

\* Every message has the file that was the draft when it was sent, for its own
\* conversation, and no two the same attachment, for any number of files, calls and
\* conversations.
THEOREM FilesAsChosen == Draft!Spec => []FileAsChosen
<1>1. UploadInv => FileAsChosen
  <2> SUFFICES ASSUME UploadInv PROVE FileAsChosen
    OBVIOUS
  <2>1. DOMAIN msgs = 1 .. Len(msgs)
    BY DEF UploadInv, ComposerTypeOK
  <2>2. ASSUME NEW m \in 1 .. Len(msgs)
        PROVE  IF msgs[m].att = 0 THEN msgs[m].file = 0
               ELSE atts[msgs[m].att].file = msgs[m].file /\ atts[msgs[m].att].conv = msgs[m].conv
    <3>1. MessageSound(msgs[m])
      BY DEF UploadInv
    <3> QED BY <3>1 DEF MessageSound
  <2>3. \A m, n \in 1 .. Len(msgs) : m # n /\ msgs[m].att # 0 => msgs[m].att # msgs[n].att
    BY DEF UploadInv
  <2> QED BY <2>1, <2>2, <2>3 DEF FileAsChosen, Draft!FileAsChosen, Draft!NoAtt, Draft!NoFile
<1> QED BY <1>1, UploadInvariant, PTL

-----------------------------------------------------------------------------
(* The composer: a draft that is being uploaded.                           *)

\* A call that uploads, which will write on the draft again.
Uploading(s) == send[s].pc \in {"put", "mark", "status"}

\* A call that uploaded the draft, and has yet to fail, or its message to arrive.
Behind(s) ==
    /\ send[s].att = draft.att
    /\ \/ send[s].pc \in {"message", "unacked"}
       \/ send[s].pc = "ack" /\ \E k \in 1 .. Len(inbox) : inbox[k].msg = send[s].msg

\* Or its message was delivered when its sender had left.
WentMissing == \E m \in missed : msgs[m].att = draft.att

UploadBehind ==
    /\ draft.status = "uploading" => \E s \in Slots : Uploading(s)
    /\ draft.status = "uploaded" => WentMissing \/ \E s \in Slots : Behind(s)

\* No message is lost or changed, and none that went missing is found.
LEMMA MissingKept ==
    ASSUME UploadInv, Draft!Next
    PROVE  missed \subseteq missed' /\ \A m \in missed : msgs'[m] = msgs[m]
<1>0. ComposerTypeOK
  BY DEF UploadInv
<1>1. CASE UNCHANGED <<msgs, missed>>
  BY <1>1
<1>2. ASSUME NEW s \in Slots, Draft!Store(s)
      PROVE  missed \subseteq missed' /\ \A m \in missed : msgs'[m] = msgs[m]
  <2>1. \A m \in 1 .. Len(msgs) : msgs'[m] = msgs[m]
    <3> DEFINE new == [conv |-> send[s].conv, att |-> send[s].att, file |-> send[s].file]
    <3>1. msgs' = Append(msgs, new) /\ new \in OwnMessage
      BY <1>0, <1>2 DEF Draft!Store, Draft!AttachmentId, ComposerTypeOK, SendCall, OwnMessage
    <3> HIDE DEF new
    <3> QED BY <1>0, <3>1, AppendProperties DEF ComposerTypeOK
  <2>2. missed' = missed
    BY <1>2 DEF Draft!Store
  <2> QED BY <1>0, <2>1, <2>2 DEF ComposerTypeOK
<1>3. ASSUME NEW s \in Slots, Draft!Publish(s)
      PROVE  missed \subseteq missed' /\ \A m \in missed : msgs'[m] = msgs[m]
  BY <1>3 DEF Draft!Publish, Draft!Deliver
<1>4. ASSUME NEW c \in Convs, Draft!Elsewhere(c)
      PROVE  missed \subseteq missed' /\ \A m \in missed : msgs'[m] = msgs[m]
  <2>1. \A m \in 1 .. Len(msgs) : msgs'[m] = msgs[m]
    <3> DEFINE new == [conv |-> c, att |-> Draft!NoAtt, file |-> Draft!NoFile]
    <3>1. msgs' = Append(msgs, new) /\ new \in OwnMessage
      BY <1>4 DEF Draft!Elsewhere, OwnMessage, Place, Draft!NoAtt, Draft!NoFile
    <3> HIDE DEF new
    <3> QED BY <1>0, <3>1, AppendProperties DEF ComposerTypeOK
  <2>2. missed \subseteq missed'
    BY <1>4 DEF Draft!Elsewhere, Draft!Deliver
  <2> QED BY <1>0, <2>1, <2>2 DEF ComposerTypeOK
<1> QED BY <1>1, <1>2, <1>3, <1>4 DEF Draft!Next, Draft!Select, Draft!Member, Draft!Type, Draft!ChooseFile,
     Draft!RemoveDraft, Draft!OwnDelivered, Draft!Disconnect, Draft!SocketError, Draft!Send, Draft!Presign,
     Draft!Progress, Draft!Put, Draft!Mark, Draft!Status, Draft!Ack, Draft!Done, Draft!Fail, Draft!Timeout,
     Draft!Abandon, Draft!serverVars

\* A step that leaves a draft alone that is being uploaded leaves a call that uploads.
LEMMA UploadingKept ==
    ASSUME UploadInv, NEW w \in Slots, Uploading(w), Draft!Next, draft' = draft, draft.status = "uploading"
    PROVE  Uploading(w)'
<1>0. ComposerTypeOK /\ draft # Draft!NoDraft
  BY DEF UploadInv, Draft!NoDraft, Draft!None
<1>1. CASE send'[w] = send[w]
  BY <1>1 DEF Uploading
<1>2. CASE Draft!Disconnect
  BY <1>0, <1>2 DEF Draft!Disconnect, Uploading, ComposerTypeOK
<1>3. ASSUME NEW s \in Slots, Draft!Fail(s) \/ Draft!Timeout(s) PROVE FALSE
  <2>1. draft' = Draft!Failed
    BY <1>3 DEF Draft!Fail, Draft!Timeout
  <2> QED BY <1>0, <2>1, FailedType DEF Draft!None
<1>4. ASSUME NEW s \in Slots,
             \/ Draft!Send(s) \/ Draft!Presign(s) \/ Draft!Progress(s) \/ Draft!Put(s) \/ Draft!Mark(s)
             \/ Draft!Status(s) \/ Draft!Store(s) \/ Draft!Publish(s) \/ Draft!Ack(s) \/ Draft!Done(s)
             \/ Draft!Abandon(s)
      PROVE  Uploading(w)'
  <2>1. CASE w # s
    <3>1. send'[w] = send[w]
      BY <1>0, <1>4, <2>1 DEF Draft!Send, Draft!Presign, Draft!Progress, Draft!Put, Draft!Mark, Draft!Status,
         Draft!Store, Draft!Publish, Draft!Ack, Draft!Done, Draft!Abandon, ComposerTypeOK
    <3> QED BY <1>1, <3>1
  <2>2. CASE w = s
    <3>1. ~Draft!Status(s)
      <4>1. ASSUME Draft!Status(s) PROVE draft'.status = "uploaded"
        <5>1. send[s].att \in Nat
          BY <1>0 DEF ComposerTypeOK, SendCall
        <5> QED BY <1>0, <4>1, <5>1, OnDraftType DEF Draft!Status
      <4> QED BY <4>1
    <3>2. ~Draft!Send(s) /\ ~Draft!Presign(s) /\ ~Draft!Store(s) /\ ~Draft!Publish(s) /\ ~Draft!Ack(s)
          /\ ~Draft!Done(s) /\ ~Draft!Abandon(s)
      BY <2>2 DEF Uploading, Draft!Send, Draft!Presign, Draft!Store, Draft!Publish, Draft!Asked, Draft!Ack,
         Draft!Done, Draft!Abandon, Draft!Idle
    <3>3. CASE Draft!Progress(s)
      BY <1>1, <2>2, <3>3 DEF Draft!Progress
    <3>4. CASE Draft!Put(s) \/ Draft!Mark(s)
      <4>1. send'[s].pc \in {"mark", "status"}
        BY <1>0, <3>4 DEF Draft!Put, Draft!Mark, ComposerTypeOK, SendCall
      <4> QED BY <2>2, <4>1 DEF Uploading
    <3> QED BY <1>4, <3>1, <3>2, <3>3, <3>4
  <2> QED BY <2>1, <2>2
<1> QED BY <1>1, <1>2, <1>3, <1>4 DEF Draft!Next, Draft!Select, Draft!Elsewhere, Draft!Member, Draft!Type,
     Draft!ChooseFile, Draft!RemoveDraft, Draft!OwnDelivered, Draft!SocketError

\* A step that leaves a draft alone that was uploaded leaves the call that uploaded it
\* behind it, or its message was delivered to nobody.
LEMMA UploadedKept ==
    ASSUME UploadInv, NEW w \in Slots, Behind(w), Draft!Next, draft' = draft, draft.status = "uploaded"
    PROVE  Behind(w)' \/ WentMissing'
<1>0. ComposerTypeOK /\ draft # Draft!NoDraft
  BY DEF UploadInv, Draft!NoDraft, Draft!None
<1>1. ASSUME send'[w] = send[w], inbox' = inbox PROVE Behind(w)'
  BY <1>1 DEF Behind
<1>2. CASE Draft!OwnDelivered
  BY <1>0, <1>2 DEF Draft!OwnDelivered
<1>3. CASE Draft!Disconnect
  <2>1. send'[w].pc \in {"message", "unacked"} /\ send'[w].att = send[w].att
    BY <1>0, <1>3 DEF Draft!Disconnect, Behind, ComposerTypeOK, SendCall
  <2> QED BY <2>1 DEF Behind
<1>4. ASSUME NEW c, NEW m \in Nat, Draft!Deliver(c, m), send'[w] = send[w] PROVE Behind(w)'
  <2>1. /\ Len(inbox) \in Nat /\ Len(inbox') \in Nat /\ Len(inbox') >= Len(inbox)
        /\ \A k \in 1 .. Len(inbox) : inbox'[k] = inbox[k]
    BY <1>0, <1>4, Delivered
  <2> QED BY <1>4, <2>1 DEF Behind
<1>5. ASSUME NEW c \in Convs, Draft!Elsewhere(c) PROVE Behind(w)'
  <2>1. Len(msgs') \in Nat
    BY <1>5, UploadElsewhere DEF UploadInv, ComposerTypeOK
  <2> QED BY <1>4, <1>5, <2>1 DEF Draft!Elsewhere
<1>6. ASSUME NEW s \in Slots, Draft!Publish(s) PROVE Behind(w)' \/ WentMissing'
  <2>1. send[s] \in SendCall /\ CallSound(send[s]) /\ send[s].msg # 0
    BY <1>0, <1>6 DEF UploadInv, ComposerTypeOK, Draft!Publish
  <2>2. send[s].msg \in Nat /\ Draft!Deliver(send[s].conv, send[s].msg)
    BY <1>6, <2>1 DEF SendCall, Draft!Publish
  <2>3. CASE w # s
    <3>1. send'[w] = send[w]
      BY <1>0, <1>6, <2>3 DEF Draft!Publish, ComposerTypeOK
    <3> QED BY <1>4, <2>2, <3>1
  <2>4. CASE w = s
    <3>1. send[s].pc = "message" /\ send[s].att = draft.att
      BY <1>6, <2>4 DEF Behind, Draft!Publish, Draft!Asked
    <3>2. send'[s].pc = "ack" /\ send'[s].att = send[s].att /\ send'[s].msg = send[s].msg
      BY <1>0, <1>6, <2>1, <3>1 DEF Draft!Publish, ComposerTypeOK, SendCall
    <3>3. CASE Len(inbox') > Len(inbox)
      <4>1. Len(inbox) \in Nat /\ Len(inbox') \in Nat /\ inbox'[Len(inbox) + 1] = [msg |-> send[s].msg, first |-> TRUE]
        BY <1>0, <2>2, <3>3, Delivered
      <4>2. Len(inbox) + 1 \in 1 .. Len(inbox') /\ inbox'[Len(inbox) + 1].msg = send'[s].msg
        BY <3>2, <3>3, <4>1
      <4> QED BY <2>4, <3>1, <3>2, <4>2 DEF Behind
    <3>4. CASE Len(inbox') = Len(inbox)
      <4>1. send[s].msg \in missed'
        BY <1>0, <2>2, <3>4, Delivered
      <4>2. msgs'[send[s].msg].att = draft'.att
        BY <1>6, <2>1, <3>1 DEF CallSound, Draft!Publish
      <4> QED BY <4>1, <4>2 DEF WentMissing
    <3>5. Len(inbox) \in Nat /\ Len(inbox') \in Nat /\ Len(inbox') >= Len(inbox)
      BY <1>0, <2>2, Delivered
    <3> QED BY <3>3, <3>4, <3>5
  <2> QED BY <2>3, <2>4
<1>7. ASSUME NEW s \in Slots, Draft!Fail(s) \/ Draft!Timeout(s) PROVE FALSE
  <2>1. draft' = Draft!Failed
    BY <1>7 DEF Draft!Fail, Draft!Timeout
  <2> QED BY <1>0, <2>1, FailedType DEF Draft!None
<1>8. ASSUME NEW s \in Slots,
             \/ Draft!Send(s) \/ Draft!Presign(s) \/ Draft!Progress(s) \/ Draft!Put(s) \/ Draft!Mark(s)
             \/ Draft!Status(s) \/ Draft!Store(s) \/ Draft!Ack(s) \/ Draft!Done(s) \/ Draft!Abandon(s)
      PROVE  Behind(w)'
  <2>1. inbox' = inbox
    BY <1>8 DEF Draft!Send, Draft!Presign, Draft!Progress, Draft!Put, Draft!Mark, Draft!Status, Draft!Store,
       Draft!Ack, Draft!Done, Draft!Abandon
  <2>2. CASE w # s
    <3>1. send'[w] = send[w]
      BY <1>0, <1>8, <2>2 DEF Draft!Send, Draft!Presign, Draft!Progress, Draft!Put, Draft!Mark, Draft!Status,
         Draft!Store, Draft!Ack, Draft!Done, Draft!Abandon, ComposerTypeOK
    <3> QED BY <1>1, <2>1, <3>1
  <2>3. CASE w = s
    <3>1. ~Draft!Send(s) /\ ~Draft!Presign(s) /\ ~Draft!Progress(s) /\ ~Draft!Put(s) /\ ~Draft!Mark(s)
          /\ ~Draft!Status(s) /\ ~Draft!Done(s) /\ ~Draft!Abandon(s)
      BY <2>3 DEF Behind, Draft!Send, Draft!Presign, Draft!Progress, Draft!Put, Draft!Mark, Draft!Status,
         Draft!Done, Draft!Abandon, Draft!Idle
    <3>2. ~Draft!Ack(s)
      BY <1>0, <2>3 DEF Behind, Draft!Ack, ComposerTypeOK
    <3>3. send[s].pc = "message" /\ send'[s].pc = "message" /\ send'[s].att = send[s].att
      BY <1>0, <1>8, <2>3, <3>1, <3>2 DEF Behind, Draft!Store, Draft!Asked, ComposerTypeOK, SendCall
    <3> QED BY <2>3, <3>3 DEF Behind
  <2> QED BY <2>2, <2>3
<1> QED BY <1>1, <1>2, <1>3, <1>5, <1>6, <1>7, <1>8 DEF Draft!Next, Draft!Select, Draft!Member, Draft!Type,
     Draft!ChooseFile, Draft!RemoveDraft, Draft!SocketError

\* Every step keeps somebody behind an upload, or its message went missing.
LEMMA BehindStep ==
    ASSUME UploadInv, UploadBehind, [Draft!Next]_(Draft!vars)
    PROVE  UploadBehind'
<1>0. ComposerTypeOK
  BY DEF UploadInv
<1>1. CASE UNCHANGED Draft!vars
  BY <1>1 DEF UploadBehind, Uploading, Behind, WentMissing, Draft!vars, Draft!serverVars, Draft!pageVars
<1>2. CASE Draft!Next /\ draft' = draft
  <2>1. WentMissing => WentMissing'
    BY <1>2, MissingKept DEF WentMissing
  <2>2. draft.status = "uploading" => \E s \in Slots : Uploading(s)'
    BY <1>2, UploadingKept DEF UploadBehind
  <2>3. draft.status = "uploaded" => WentMissing' \/ \E s \in Slots : Behind(s)'
    BY <1>2, <2>1, UploadedKept DEF UploadBehind
  <2> QED BY <1>2, <2>2, <2>3 DEF UploadBehind
<1>3. CASE draft'.status \notin {"uploading", "uploaded"}
  BY <1>3 DEF UploadBehind
<1>4. ASSUME NEW s \in Slots, Draft!Presign(s) \/ Draft!Progress(s), draft # Draft!NoDraft
      PROVE  UploadBehind'
  <2>1. send'[s].pc = "put"
    BY <1>0, <1>4 DEF Draft!Presign, Draft!Progress, ComposerTypeOK, SendCall
  <2>2. draft'.status = "uploading"
    BY <1>0, <1>4 DEF Draft!Presign, Draft!Progress, Draft!OnDraft, ComposerTypeOK
  <2> QED BY <2>1, <2>2 DEF UploadBehind, Uploading
<1>5. ASSUME NEW s \in Slots, Draft!Status(s), draft # Draft!NoDraft PROVE UploadBehind'
  <2>1. send'[s].pc = "message" /\ send'[s].att = send[s].att
    BY <1>0, <1>5 DEF Draft!Status, ComposerTypeOK, SendCall
  <2>2. draft'.status = "uploaded" /\ draft'.att = send[s].att
    BY <1>0, <1>5 DEF Draft!Status, Draft!OnDraft, ComposerTypeOK
  <2> QED BY <2>1, <2>2 DEF UploadBehind, Behind
<1>6. Draft!Next => \/ draft' = draft \/ draft'.status \notin {"uploading", "uploaded"}
                    \/ \E s \in Slots : Draft!Presign(s) \/ Draft!Progress(s) \/ Draft!Status(s)
  <2>1. CASE draft' \in {draft, Draft!NoDraft, Draft!Failed}
    BY <1>0, <2>1, FailedType DEF Draft!NoDraft, Draft!None
  <2>2. CASE Draft!ChooseFile
    BY <2>2 DEF Draft!ChooseFile
  <2>3. CASE \E s \in Slots : \/ Draft!Send(s) \/ Draft!Put(s) \/ Draft!Mark(s) \/ Draft!Store(s)
                              \/ Draft!Publish(s) \/ Draft!Ack(s) \/ Draft!Done(s) \/ Draft!Fail(s)
                              \/ Draft!Timeout(s) \/ Draft!Abandon(s)
    BY <2>1, <2>3 DEF Draft!Send, Draft!Put, Draft!Mark, Draft!Store, Draft!Publish, Draft!Ack, Draft!Done,
       Draft!Fail, Draft!Timeout, Draft!Abandon, Draft!pageVars
  <2>4. CASE \/ \E c \in Convs \cup {Draft!None} : Draft!Select(c)
             \/ \E c \in Convs : Draft!Elsewhere(c) \/ Draft!Member(c)
             \/ \E t \in BOOLEAN : Draft!Type(t)
             \/ Draft!RemoveDraft \/ Draft!OwnDelivered \/ Draft!Disconnect \/ Draft!SocketError
    BY <2>1, <2>4 DEF Draft!Select, Draft!Elsewhere, Draft!Member, Draft!Type, Draft!RemoveDraft,
       Draft!OwnDelivered, Draft!Disconnect, Draft!SocketError, Draft!pageVars
  <2> QED BY <2>2, <2>3, <2>4 DEF Draft!Next
<1>7. draft = Draft!NoDraft => \A s \in Slots : Draft!Presign(s) \/ Draft!Progress(s) \/ Draft!Status(s) => draft' = draft
  BY DEF Draft!Presign, Draft!Progress, Draft!Status, Draft!OnDraft
<1> QED BY <1>1, <1>2, <1>3, <1>4, <1>5, <1>6, <1>7

\* A draft that is shown as being uploaded has a call of handleSend behind it, or a
\* message in the inbox, or went out with a message that was delivered after its sender
\* had left or been removed: for any number of calls, files and conversations, however
\* often Me is removed and added again, nothing else leaves the composer stuck.
THEOREM DraftNeverStuck == Draft!Spec => []DraftNotStuck
<1>1. Draft!Init => UploadBehind
  BY DEF Draft!Init, UploadBehind, Draft!NoDraft, Draft!None
<1>2. UploadInv /\ UploadBehind => DraftNotStuck
  <2> SUFFICES ASSUME UploadInv, UploadBehind, draft.status \in {"uploading", "uploaded"}
               PROVE  \/ inbox # <<>> \/ \E s \in Slots : Draft!Running(s)
                      \/ \E m \in missed : msgs[m].att = draft.att
    BY DEF DraftNotStuck, Draft!DraftNotStuck
  <2>1. ASSUME NEW s \in Slots, Uploading(s) \/ Behind(s) PROVE Draft!Running(s)
    BY <2>1 DEF Uploading, Behind, Draft!Running
  <2> QED BY <2>1 DEF UploadBehind, WentMissing
<1> QED BY <1>1, <1>2, BehindStep, UploadInvariant, PTL DEF Draft!Spec

-----------------------------------------------------------------------------
(* The composer: the draft that a message clears.                          *)

Early(s) == send[s].pc \in {"presign", "put", "mark", "status", "message"}
OwnDraft(file) == draft = Draft!NoDraft \/ draft.file = file
CopyStored(k) == inbox[k].msg \in 1 .. Len(msgs)

\* While nothing disturbs the page, one call at most is under way up to its message, and
\* from then on one first copy is: until it arrives, the composer is locked with the
\* call's draft, or with none.
Undisturbed ==
    /\ \A s \in Slots : send[s].pc # "late"
    /\ \A s \in Slots : Early(s) => sending /\ OwnDraft(send[s].file)
    /\ \A s, t \in Slots : Early(s) /\ Early(t) => s = t
    /\ \A k \in 1 .. Len(inbox) :
         inbox[k].first => sending /\ OwnDraft(msgs[inbox[k].msg].file) /\ \A s \in Slots : ~Early(s)
    /\ \A k, l \in 1 .. Len(inbox) : inbox[k].first /\ inbox[l].first => k = l

KeptInv ==
    /\ \A k \in 1 .. Len(inbox) : CopyStored(k)
    /\ alone => Undisturbed

\* A copy in the inbox is of a message that is stored.
LEMMA CopiesStored ==
    ASSUME UploadInv, UploadInv', KeptInv, Draft!Next
    PROVE  \A k \in 1 .. Len(inbox') : CopyStored(k)'
<1>0. ComposerTypeOK /\ ComposerTypeOK' /\ Len(inbox) \in Nat /\ Len(inbox') \in Nat
  BY DEF UploadInv, ComposerTypeOK
<1>1. Len(msgs) \in Nat /\ Len(msgs') \in Nat
  BY <1>0 DEF ComposerTypeOK
<1>2. CASE UNCHANGED <<inbox, msgs>>
  BY <1>2 DEF KeptInv, CopyStored
<1>3. CASE Draft!OwnDelivered
  BY <1>0, <1>3, HeadTailProperties DEF Draft!OwnDelivered, Draft!serverVars, KeptInv, CopyStored, ComposerTypeOK
<1>4. CASE Draft!Disconnect
  BY <1>4 DEF Draft!Disconnect
<1>5. ASSUME NEW c, NEW m \in 1 .. Len(msgs'), Draft!Deliver(c, m), Len(msgs) <= Len(msgs')
      PROVE  \A k \in 1 .. Len(inbox') : CopyStored(k)'
  <2>1. /\ \A k \in 1 .. Len(inbox) : inbox'[k] = inbox[k]
        /\ Len(inbox') > Len(inbox) => inbox'[Len(inbox) + 1] = [msg |-> m, first |-> TRUE]
        /\ \A k \in 1 .. Len(inbox') : k > Len(inbox) + 1 => inbox'[k] = [msg |-> m, first |-> FALSE]
    BY <1>0, <1>1, <1>5, Delivered
  <2>2. ASSUME NEW k \in 1 .. Len(inbox') PROVE inbox'[k].msg \in 1 .. Len(msgs')
    <3>1. CASE k <= Len(inbox)
      BY <1>0, <1>1, <1>5, <2>1, <3>1 DEF KeptInv, CopyStored
    <3>2. CASE k > Len(inbox)
      <4>1. inbox'[k].msg = m
        BY <1>0, <2>1, <3>2
      <4> QED BY <4>1
    <3> QED BY <1>0, <3>1, <3>2
  <2> QED BY <2>2 DEF CopyStored
<1>6. ASSUME NEW s \in Slots, Draft!Store(s)
      PROVE  \A k \in 1 .. Len(inbox') : CopyStored(k)'
  <2>1. inbox' = inbox /\ Len(msgs') = Len(msgs) + 1
    BY <1>0, <1>1, <1>6 DEF Draft!Store, ComposerTypeOK
  <2> QED BY <1>1, <2>1 DEF KeptInv, CopyStored
<1>7. ASSUME NEW s \in Slots, Draft!Publish(s)
      PROVE  \A k \in 1 .. Len(inbox') : CopyStored(k)'
  <2>1. msgs' = msgs /\ send[s].msg \in 1 .. Len(msgs) /\ Draft!Deliver(send[s].conv, send[s].msg)
    BY <1>7 DEF Draft!Publish, UploadInv, CallSound
  <2> QED BY <1>1, <1>5, <2>1
<1>8. ASSUME NEW c \in Convs, Draft!Elsewhere(c)
      PROVE  \A k \in 1 .. Len(inbox') : CopyStored(k)'
  <2>1. Len(msgs') = Len(msgs) + 1 /\ Draft!Deliver(c, Len(msgs'))
    BY <1>0, <1>1, <1>8 DEF Draft!Elsewhere, ComposerTypeOK
  <2>2. Len(msgs') \in 1 .. Len(msgs') /\ Len(msgs) <= Len(msgs')
    BY <1>1, <2>1
  <2> QED BY <1>5, <2>1, <2>2
<1> QED BY <1>2, <1>3, <1>4, <1>6, <1>7, <1>8 DEF Draft!Next, Draft!Select, Draft!Member, Draft!Type,
     Draft!ChooseFile, Draft!RemoveDraft, Draft!SocketError, Draft!Progress, Draft!Send, Draft!Presign, Draft!Put,
     Draft!Mark, Draft!Status, Draft!Ack, Draft!Done, Draft!Fail, Draft!Timeout, Draft!Abandon, Draft!serverVars

\* A step that starts no call, sends no message and chooses no draft disturbs nothing.
LEMMA QuietStep ==
    ASSUME Undisturbed, sending' = sending, msgs' = msgs, inbox' = inbox \/ inbox' = <<>>,
           \A file : OwnDraft(file) => OwnDraft(file)',
           \A s \in Slots : send'[s].pc # "late",
           \A s \in Slots : Early(s)' => Early(s) /\ send'[s].file = send[s].file
    PROVE  Undisturbed'
<1>1. CASE inbox' = inbox
  BY <1>1 DEF Undisturbed
<1>2. CASE inbox' = <<>>
  BY <1>2 DEF Undisturbed
<1> QED BY <1>1, <1>2

\* No step disturbs a page that stays undisturbed.
LEMMA UndisturbedStep ==
    ASSUME UploadInv, UploadInv', KeptInv, Draft!Next, alone, alone'
    PROVE  Undisturbed'
<1>0. ComposerTypeOK /\ Undisturbed /\ Len(inbox) \in Nat /\ Len(inbox') \in Nat
  BY DEF UploadInv, KeptInv, ComposerTypeOK
<1>1. CASE \/ \E c \in Place : Draft!Select(c)
           \/ \E t \in BOOLEAN : Draft!Type(t)
           \/ Draft!RemoveDraft
           \/ \E c \in Convs : Draft!Member(c)
  <2>1. UNCHANGED <<send, sending, inbox, msgs>> /\ draft' \in {draft, Draft!NoDraft}
    BY <1>1 DEF Draft!Select, Draft!Type, Draft!RemoveDraft, Draft!Member, Draft!serverVars, Draft!pageVars
  <2>2. \A file : OwnDraft(file) => OwnDraft(file)'
    BY <2>1 DEF OwnDraft
  <2> QED BY <1>0, <2>1, <2>2, QuietStep DEF Undisturbed, Early
<1>2. ASSUME NEW s \in Slots, Draft!Presign(s) \/ Draft!Progress(s) \/ Draft!Status(s)
      PROVE  Undisturbed'
  <2>1. UNCHANGED <<sending, inbox, msgs>>
    BY <1>2 DEF Draft!Presign, Draft!Progress, Draft!Status, Draft!serverVars
  <2>2. \A t \in Slots : send'[t].pc # "late" /\ (Early(t)' => Early(t) /\ send'[t].file = send[t].file)
    BY <1>0, <1>2, SMTT(30) DEF Draft!Presign, Draft!Progress, Draft!Status, ComposerTypeOK, SendCall, Early, Undisturbed
  <2>3. draft'.file = draft.file /\ (draft' = Draft!NoDraft <=> draft = Draft!NoDraft)
    <3>1. send[s].att \in Nat /\ draft.att \in Nat /\ Len(atts') \in Nat
      BY <1>0, SMTT(30) DEF UploadInv, ComposerTypeOK, SendCall
    <3> QED BY <1>0, <1>2, <3>1, OnDraftType DEF Draft!Presign, Draft!Progress, Draft!Status
  <2>4. \A file : OwnDraft(file) => OwnDraft(file)'
    BY <2>3 DEF OwnDraft
  <2> QED BY <1>0, <2>1, <2>2, <2>4, QuietStep
<1>3. ASSUME NEW s \in Slots, Draft!Put(s) \/ Draft!Mark(s) \/ Draft!Ack(s) \/ Draft!Done(s)
      PROVE  Undisturbed'
  <2>1. UNCHANGED <<sending, inbox, msgs, draft>>
    BY <1>3 DEF Draft!Put, Draft!Mark, Draft!Ack, Draft!Done, Draft!pageVars, Draft!serverVars
  <2>2. \A t \in Slots : send'[t].pc # "late" /\ (Early(t)' => Early(t) /\ send'[t].file = send[t].file)
    <3>1. \A t \in Slots : t # s => send'[t] = send[t]
      BY <1>0, <1>3 DEF Draft!Put, Draft!Mark, Draft!Ack, Draft!Done, ComposerTypeOK
    <3>2. CASE Draft!Put(s)
      BY <1>0, <3>1, <3>2 DEF Draft!Put, ComposerTypeOK, SendCall, Early, Undisturbed
    <3>3. CASE Draft!Mark(s)
      BY <1>0, <3>1, <3>3 DEF Draft!Mark, ComposerTypeOK, SendCall, Early, Undisturbed
    <3>4. CASE Draft!Ack(s)
      BY <1>0, <3>1, <3>4 DEF Draft!Ack, ComposerTypeOK, SendCall, Early, Undisturbed
    <3>5. CASE Draft!Done(s)
      BY <1>0, <3>1, <3>5 DEF Draft!Done, Draft!Idle, ComposerTypeOK, SendCall, Early, Undisturbed
    <3> QED BY <1>3, <3>2, <3>3, <3>4, <3>5
  <2>3. \A file : OwnDraft(file) => OwnDraft(file)'
    BY <2>1 DEF OwnDraft
  <2> QED BY <1>0, <2>1, <2>2, <2>3, QuietStep
<1>4. CASE Draft!Disconnect
  <2>1. UNCHANGED <<sending, msgs, draft>> /\ inbox' = <<>>
    BY <1>4 DEF Draft!Disconnect, Draft!pageVars, Draft!serverVars
  <2>2. \A t \in Slots : send'[t].pc # "late" /\ (Early(t)' => Early(t) /\ send'[t].file = send[t].file)
    BY <1>0, <1>4 DEF Draft!Disconnect, ComposerTypeOK, SendCall, Early, Undisturbed
  <2>3. \A file : OwnDraft(file) => OwnDraft(file)'
    BY <2>1 DEF OwnDraft
  <2> QED BY <1>0, <2>1, <2>2, <2>3, QuietStep
<1>5. CASE Draft!ChooseFile
  <2>1. ~sending /\ UNCHANGED <<inbox, send>>
    BY <1>5 DEF Draft!ChooseFile
  <2> QED BY <1>0, <2>1 DEF Undisturbed, Early
<1>6. ASSUME NEW s \in Slots, Draft!Send(s) PROVE Undisturbed'
  <2>1. /\ ~sending /\ sending' /\ UNCHANGED <<inbox, draft, msgs>>
        /\ \A t \in Slots : t # s => send'[t] = send[t]
        /\ send'[s].file = draft.file /\ send'[s].pc \in {"message", "presign"}
    BY <1>0, <1>6 DEF Draft!Send, Draft!serverVars, ComposerTypeOK
  <2>2. (\A t \in Slots : ~Early(t)) /\ \A k \in 1 .. Len(inbox) : ~inbox[k].first
    BY <1>0, <2>1 DEF Undisturbed
  <2>3. \A t \in Slots : Early(t)' => t = s
    BY <2>1, <2>2 DEF Early
  <2>4. OwnDraft(send[s].file)'
    BY <2>1 DEF OwnDraft
  <2> QED BY <1>0, <2>1, <2>2, <2>3, <2>4 DEF Undisturbed
<1>7. ASSUME NEW s \in Slots, Draft!Fail(s) PROVE Undisturbed'
  <2>1. Early(s)
    <3>1. send[s] \in SendCall /\ CallSound(send[s])
      BY <1>0 DEF ComposerTypeOK, UploadInv
    <3>2. send[s].msg = 0 /\ send[s].pc \notin {"idle", "late"}
      BY <1>7 DEF Draft!Fail, Draft!Running
    <3>3. send[s].pc \notin {"ack", "unacked", "typing"}
      BY <3>1, <3>2 DEF CallSound
    <3> QED BY <3>1, <3>2, <3>3 DEF SendCall, Early
  <2>2. inbox' = inbox /\ \A t \in Slots : send'[t] = IF t = s THEN Draft!Idle ELSE send[t]
    BY <1>0, <1>7 DEF Draft!Fail, ComposerTypeOK
  <2>3. \A t \in Slots : ~Early(t)' /\ send'[t].pc # "late"
    BY <1>0, <2>1, <2>2 DEF Early, Undisturbed, Draft!Idle
  <2>4. \A k \in 1 .. Len(inbox') : ~inbox'[k].first
    BY <1>0, <2>1, <2>2 DEF Undisturbed
  <2> QED BY <2>3, <2>4 DEF Undisturbed
<1>8. ASSUME NEW s \in Slots, Draft!Store(s) PROVE Undisturbed'
  <2>1. UNCHANGED <<sending, draft, inbox>>
    BY <1>8 DEF Draft!Store, Draft!pageVars
  <2>2. \A m \in 1 .. Len(msgs) : msgs'[m] = msgs[m]
    <3> DEFINE new == [conv |-> send[s].conv, att |-> send[s].att, file |-> send[s].file]
    <3>1. msgs' = Append(msgs, new) /\ new \in OwnMessage
      BY <1>0, <1>8 DEF Draft!Store, Draft!AttachmentId, ComposerTypeOK, SendCall, OwnMessage
    <3> HIDE DEF new
    <3> QED BY <1>0, <3>1, AppendProperties DEF ComposerTypeOK
  <2>3. \A t \in Slots : send'[t].pc = send[t].pc /\ send'[t].file = send[t].file
    BY <1>0, <1>8 DEF Draft!Store, ComposerTypeOK, SendCall
  <2>4. \A t \in Slots : Early(t)' <=> Early(t)
    BY <2>3 DEF Early
  <2>5. \A k \in 1 .. Len(inbox) : msgs'[inbox[k].msg] = msgs[inbox[k].msg]
    BY <2>2 DEF KeptInv, CopyStored
  <2>6. \A file : OwnDraft(file)' <=> OwnDraft(file)
    BY <2>1 DEF OwnDraft
  <2>7. /\ \A t \in Slots : send'[t].pc # "late"
        /\ \A t \in Slots : Early(t)' => sending' /\ OwnDraft(send[t].file)'
    BY <1>0, <2>1, <2>3, <2>4, <2>6 DEF Undisturbed
  <2>8. \A k \in 1 .. Len(inbox') :
          inbox'[k].first => sending' /\ OwnDraft(msgs[inbox[k].msg].file)' /\ \A t \in Slots : ~Early(t)'
    BY <1>0, <2>1, <2>4, <2>5, <2>6 DEF Undisturbed
  <2> QED BY <1>0, <2>1, <2>4, <2>7, <2>8 DEF Undisturbed, OwnDraft
<1>12. ASSUME NEW s \in Slots, Draft!Publish(s) PROVE Undisturbed'
  <2>1. send[s].pc = "message" /\ Early(s) /\ UNCHANGED <<sending, draft, msgs>>
    BY <1>0, <1>12 DEF Draft!Publish, Draft!Asked, Undisturbed, Early, Draft!pageVars
  <2>2. /\ send[s].msg \in 1 .. Len(msgs) /\ send[s].msg \in Nat /\ msgs[send[s].msg].file = send[s].file
        /\ Draft!Deliver(send[s].conv, send[s].msg)
    BY <1>0, <1>12 DEF Draft!Publish, UploadInv, CallSound, ComposerTypeOK, SendCall
  <2>3. /\ \A k \in 1 .. Len(inbox) : inbox'[k] = inbox[k]
        /\ Len(inbox') > Len(inbox) => inbox'[Len(inbox) + 1] = [msg |-> send[s].msg, first |-> TRUE]
        /\ \A k \in 1 .. Len(inbox') : k > Len(inbox) + 1 => inbox'[k] = [msg |-> send[s].msg, first |-> FALSE]
    BY <1>0, <2>2, Delivered
  <2>4. \A k \in 1 .. Len(inbox') : inbox'[k].first => k = Len(inbox) + 1 /\ inbox'[k].msg = send[s].msg
    <3>1. \A k \in 1 .. Len(inbox) : ~inbox'[k].first
      BY <1>0, <2>1, <2>3 DEF Undisturbed
    <3>2. \A k \in 1 .. Len(inbox') : k > Len(inbox) + 1 => ~inbox'[k].first
      BY <2>3
    <3>3. Len(inbox') > Len(inbox) => inbox'[Len(inbox) + 1].msg = send[s].msg
      BY <2>3
    <3>4. \A k \in 1 .. Len(inbox') : \/ k \in 1 .. Len(inbox) \/ k > Len(inbox) + 1
                                      \/ k = Len(inbox) + 1 /\ Len(inbox') > Len(inbox)
      BY <1>0
    <3> QED BY <3>1, <3>2, <3>3, <3>4
  <2>5. \A t \in Slots : ~Early(t)' /\ send'[t].pc # "late"
    <3>1. \A t \in Slots : send'[t].pc = IF t = s THEN "ack" ELSE send[t].pc
      BY <1>0, <1>12, <2>1 DEF Draft!Publish, ComposerTypeOK, SendCall
    <3> QED BY <1>0, <2>1, <3>1 DEF Early, Undisturbed
  <2>6. sending' /\ OwnDraft(send[s].file)
    BY <1>0, <2>1 DEF Undisturbed
  <2>7. \A k \in 1 .. Len(inbox') : inbox'[k].first => OwnDraft(msgs[inbox[k].msg].file)'
    BY <2>1, <2>2, <2>4, <2>6 DEF OwnDraft
  <2> QED BY <2>4, <2>5, <2>6, <2>7 DEF Undisturbed
<1>9. CASE Draft!OwnDelivered
  <2>1. /\ inbox # <<>> /\ inbox \in Seq(Copy) /\ inbox' = Tail(inbox) /\ send' = send
        /\ Head(inbox).first \/ ~sending
    BY <1>0, <1>9 DEF Draft!OwnDelivered, ComposerTypeOK
  <2>2. /\ Len(inbox') = Len(inbox) - 1 /\ Len(inbox) > 0 /\ Head(inbox) = inbox[1]
        /\ \A k \in 1 .. Len(inbox') : inbox'[k] = inbox[k + 1]
    BY <2>1, HeadTailProperties
  <2>3. 1 \in 1 .. Len(inbox) /\ \A k \in 1 .. Len(inbox') : k + 1 \in 1 .. Len(inbox) /\ k + 1 # 1
    BY <1>0, <2>2
  <2>4. \A s \in Slots : ~Early(s)
    BY <1>0, <2>1, <2>2, <2>3 DEF Undisturbed
  <2>5. \A k \in 1 .. Len(inbox') : ~inbox'[k].first
    BY <1>0, <2>1, <2>2, <2>3 DEF Undisturbed
  <2>6. \A s \in Slots : ~Early(s)' /\ send'[s].pc # "late"
    BY <1>0, <2>1, <2>4 DEF Undisturbed, Early
  <2> QED BY <2>5, <2>6 DEF Undisturbed
<1>10. ASSUME NEW s \in Slots, Draft!Timeout(s) \/ Draft!Abandon(s) PROVE FALSE
  BY <1>0, <1>10 DEF Draft!Timeout, Draft!Abandon, Undisturbed
<1>11. ~Draft!SocketError /\ \A c \in Convs : ~Draft!Elsewhere(c)
  BY DEF Draft!SocketError, Draft!Elsewhere
<1> QED BY <1>1, <1>2, <1>3, <1>4, <1>5, <1>6, <1>7, <1>8, <1>9, <1>10, <1>11, <1>12 DEF Draft!Next, Place

\* The inductive invariant of what DraftKept is about.
LEMMA KeptStep ==
    ASSUME UploadInv, UploadInv', KeptInv, [Draft!Next]_(Draft!vars)
    PROVE  KeptInv'
<1>1. CASE UNCHANGED Draft!vars
  <2>1. UNCHANGED <<msgs, inbox, draft, sending, send, alone>>
    BY <1>1 DEF Draft!vars, Draft!serverVars, Draft!pageVars
  <2> QED BY <2>1 DEF KeptInv, CopyStored, Undisturbed, Early, OwnDraft
<1>2. CASE Draft!Next
  <2>1. alone' => alone
    <3>1. CASE UNCHANGED alone
      BY <3>1
    <3>2. CASE \/ \E s \in Slots : Draft!Fail(s) \/ Draft!Timeout(s)
               \/ \E c \in Convs : Draft!Elsewhere(c)
               \/ Draft!SocketError \/ Draft!OwnDelivered
      BY <3>2 DEF Draft!Fail, Draft!Timeout, Draft!Elsewhere, Draft!SocketError, Draft!OwnDelivered
    <3>3. CASE \E s \in Slots : \/ Draft!Send(s) \/ Draft!Presign(s) \/ Draft!Progress(s) \/ Draft!Put(s)
                                \/ Draft!Mark(s) \/ Draft!Status(s) \/ Draft!Store(s) \/ Draft!Publish(s)
                                \/ Draft!Ack(s) \/ Draft!Done(s) \/ Draft!Abandon(s)
      BY <3>3 DEF Draft!Send, Draft!Presign, Draft!Progress, Draft!Put, Draft!Mark, Draft!Status, Draft!Store,
         Draft!Publish, Draft!Ack, Draft!Done, Draft!Abandon
    <3>4. CASE \/ \E c \in Convs \cup {Draft!None} : Draft!Select(c)
               \/ \E c \in Convs : Draft!Member(c)
               \/ \E t \in BOOLEAN : Draft!Type(t)
               \/ Draft!ChooseFile \/ Draft!RemoveDraft \/ Draft!Disconnect
      BY <3>4 DEF Draft!Select, Draft!Member, Draft!Type, Draft!ChooseFile, Draft!RemoveDraft, Draft!Disconnect
    <3> QED BY <1>2, <3>1, <3>2, <3>3, <3>4 DEF Draft!Next
  <2> QED BY <1>2, <2>1, CopiesStored, UndisturbedStep DEF KeptInv
<1> QED BY <1>1, <1>2

\* The two invariants of the composer, together.
LEMMA KeptInvariant == Draft!Spec => [](UploadInv /\ KeptInv)
<1>1. Draft!Init => KeptInv
  BY DEF Draft!Init, KeptInv, Undisturbed, Early, Draft!Idle
<1> QED BY <1>1, UploadInit, UploadStep, KeptStep, PTL DEF Draft!Spec

\* While nothing disturbs the page, a message that arrives clears no draft but its own.
THEOREM DraftsAreKept == Draft!Spec => DraftKept
<1>1. ASSUME UploadInv, KeptInv, [Draft!Next]_(Draft!vars)
      PROVE  [alone' /\ inbox # <<>> /\ inbox' = Tail(inbox) /\ draft # Draft!NoDraft /\ draft' = Draft!NoDraft
                => draft.file = msgs[Head(inbox).msg].file]_(Draft!vars)
  <2> SUFFICES ASSUME Draft!Next, alone', inbox # <<>>, inbox' = Tail(inbox),
                      draft # Draft!NoDraft, draft' = Draft!NoDraft
               PROVE  draft.file = msgs[Head(inbox).msg].file
    BY <1>1
  <2>1. inbox \in Seq(Copy) /\ Len(inbox') # Len(inbox) /\ Head(inbox) = inbox[1] /\ 1 \in 1 .. Len(inbox)
    BY <1>1, HeadTailProperties DEF UploadInv, ComposerTypeOK
  <2>2. inbox' # inbox
    BY <2>1
  <2>3. Draft!OwnDelivered
    BY <2>2 DEF Draft!Next, Draft!Select, Draft!Elsewhere, Draft!Type, Draft!ChooseFile, Draft!RemoveDraft,
       Draft!Disconnect, Draft!SocketError, Draft!Send, Draft!Presign, Draft!Progress, Draft!Put,
       Draft!Mark, Draft!Status, Draft!Store, Draft!Publish, Draft!Ack, Draft!Done, Draft!Fail, Draft!Timeout,
       Draft!Abandon, Draft!Member, Draft!pageVars
  <2>4. alone /\ inbox[1].first
    BY <2>1, <2>3 DEF Draft!OwnDelivered
  <2> QED BY <1>1, <2>1, <2>4 DEF KeptInv, Undisturbed, OwnDraft
<1> QED BY <1>1, KeptInvariant, PTL DEF Draft!Spec, DraftKept, Draft!DraftKept

-----------------------------------------------------------------------------
(* The blocks of SHA-1.                                                    *)

\* Multiples of a number are in the order of their factors.
LEMMA FactorOrder ==
    ASSUME NEW a \in Int, NEW b \in Int, NEW B \in Nat, B > 0, a * B < b * B
    PROVE  a < b
<1> SUFFICES ASSUME b <= a PROVE FALSE
  OBVIOUS
<1>1. a - b \in Int /\ a - b >= 0
  OBVIOUS
<1>2. (a - b) * B >= 0
  BY <1>1
<1>3. a * B = b * B + (a - b) * B
  OBVIOUS
<1> QED BY <1>2, <1>3

Byte == Nat \cup {Sha1!CountByte(k) : k \in 1 .. 8}
Base == Len(blocks) * Block

Sha1TypeOK ==
    /\ len \in Nat /\ i \in Nat /\ index \in 0 .. Block
    /\ buffer \in [1 .. Block -> Byte] /\ blocks \in Seq([1 .. Block -> Byte])
    /\ pc \in {"update", "fill", "pad", "done"}

\* The blocks that were hashed, and the buffer up to its index, are the padded input.
Hashed == \A b \in 1 .. Len(blocks), n \in 1 .. Block : blocks[b][n] = Sha1!Padded((b - 1) * Block + n)
Buffered == pc # "done" => \A n \in 1 .. index : buffer[n] = Sha1!Padded(Base + n)

\* How far the input and the padding have come.
Reached ==
    /\ pc = "update" => Base + index = i /\ i <= len /\ index < Block
    /\ pc = "fill" => Base + index = len + 1 /\ index > Block - 8
    /\ pc = "pad" => Base + index > len /\ index <= Block - 8 /\ Sha1!Total = Base + Block
    /\ pc = "done" => Base = Sha1!Total

Sha1Inv == Sha1TypeOK /\ Hashed /\ Buffered /\ Reached

\* Nothing was taken yet.
LEMMA Sha1Start == Sha1!Init => Sha1Inv
<1> SUFFICES ASSUME Sha1!Init PROVE Sha1Inv
  OBVIOUS
<1> USE BlockAssumption DEF Sha1!Init
<1>1. <<>> \in Seq([1 .. Block -> Byte]) /\ Len(<<>>) = 0
  OBVIOUS
<1>2. Sha1!Zero \in Byte
  BY DEF Sha1!Zero, Sha1!Const, Byte
<1>3. Sha1TypeOK
  BY <1>1, <1>2 DEF Sha1TypeOK
<1>4. Base = 0
  BY <1>1 DEF Base
<1> QED BY <1>1, <1>3, <1>4 DEF Sha1Inv, Hashed, Buffered, Reached

\* A block is hashed that holds the next bytes of the padded input.
LEMMA BlockHashed ==
    ASSUME Sha1Inv, NEW block \in [1 .. Block -> Byte], blocks' = Append(blocks, block), len' = len,
           \A n \in 1 .. Block : block[n] = Sha1!Padded(Base + n)
    PROVE  /\ blocks' \in Seq([1 .. Block -> Byte]) /\ Hashed'
           /\ Base' = Base + Block
<1>0. Len(blocks) \in Nat /\ blocks \in Seq([1 .. Block -> Byte])
  BY DEF Sha1Inv, Sha1TypeOK
<1>1. /\ blocks' \in Seq([1 .. Block -> Byte]) /\ Len(blocks') = Len(blocks) + 1
      /\ \A b \in 1 .. Len(blocks) : blocks'[b] = blocks[b]
      /\ blocks'[Len(blocks) + 1] = block
  BY <1>0, AppendProperties
<1>2. Base' = Base + Block
  BY <1>0, <1>1, BlockAssumption DEF Base
<1>3. \A x : Sha1!Padded(x)' = Sha1!Padded(x)
  BY DEF Sha1!Padded, Sha1!Total, Sha1!CountByte
<1>4. ASSUME NEW b \in 1 .. Len(blocks'), NEW n \in 1 .. Block
      PROVE  blocks'[b][n] = Sha1!Padded((b - 1) * Block + n)
  <2>1. CASE b \in 1 .. Len(blocks)
    BY <1>1, <2>1 DEF Sha1Inv, Hashed
  <2>2. CASE b = Len(blocks) + 1
    <3>1. (b - 1) * Block = Base
      BY <1>0, <2>2 DEF Base
    <3> QED BY <1>1, <2>2, <3>1
  <2> QED BY <1>0, <1>1, <2>1, <2>2
<1>5. Hashed'
  BY <1>3, <1>4 DEF Hashed
<1> QED BY <1>1, <1>2, <1>5

\* Values that depend on the length only.
LEMMA SameLength ==
    ASSUME len' = len
    PROVE  (\A x : Sha1!Padded(x)' = Sha1!Padded(x)) /\ Sha1!Total' = Sha1!Total /\ Byte' = Byte
  BY DEF Sha1!Padded, Sha1!Total, Sha1!CountByte, Byte

\* The end of the padding, when it is in block q.
LEMMA TotalIs ==
    ASSUME len \in Nat, NEW q \in Nat, len + 9 <= q * Block, q * Block < len + 9 + Block
    PROVE  Sha1!Total = q * Block
<1>1. PICK d \in Int : d = (len + 9 + Block - 1) \div Block
  BY BlockAssumption
<1>2. d * Block <= len + 9 + Block - 1 /\ len + 9 + Block - 1 < d * Block + Block
  BY <1>1, BlockAssumption
<1>3. d * Block < (q + 1) * Block /\ q * Block < (d + 1) * Block
  BY <1>2, BlockAssumption
<1>4. d < q + 1 /\ q < d + 1
  BY <1>3, FactorOrder, BlockAssumption
<1>5. d = q
  BY <1>4
<1> QED BY <1>1, <1>5 DEF Sha1!Total

\* sha1_update.
LEMMA Sha1Update ==
    ASSUME Sha1Inv, Sha1!Update
    PROVE  Sha1Inv'
<1> USE BlockAssumption
<1>0. /\ Sha1TypeOK /\ pc = "update" /\ i < len /\ Base + index = i /\ index < Block /\ Len(blocks) \in Nat
      /\ Base \in Nat
  BY DEF Sha1Inv, Reached, Sha1!Update, Sha1TypeOK, Base
<1>1. PICK next \in Nat : next = IF len - i < Block - index THEN index + len - i ELSE Block
  <2>1. index \in Nat /\ i \in Nat /\ len \in Nat /\ Block \in Nat
    BY <1>0 DEF Sha1TypeOK
  <2>2. index + len - i \in Nat
    BY <1>0, <2>1
  <2> QED BY <2>1, <2>2
<1>2. next > index /\ next <= Block /\ Base + next <= len /\ index \in Nat /\ i \in Nat /\ len \in Nat
  BY <1>0, <1>1 DEF Sha1TypeOK
<1>3. PICK taken : taken = [n \in 1 .. Block |-> IF n \in index + 1 .. next THEN Sha1!Data(i + n - index) ELSE buffer[n]]
  OBVIOUS
<1>4. /\ len' = len /\ pc' = pc /\ i' = i + next - index /\ buffer' = taken /\ index' = next % Block
      /\ blocks' = IF next = Block THEN Append(blocks, taken) ELSE blocks
  BY <1>1, <1>3 DEF Sha1!Update
<1>5. taken \in [1 .. Block -> Byte]
  <2>1. \A n \in index + 1 .. next : Sha1!Data(i + n - index) \in Byte
    BY <1>2 DEF Sha1!Data, Byte
  <2> QED BY <1>0, <1>3, <2>1 DEF Sha1TypeOK
<1>6. ASSUME NEW n \in 1 .. next PROVE taken[n] = Sha1!Padded(Base + n)
  <2>1. n \in 1 .. Block
    BY <1>2
  <2>2. CASE n \in index + 1 .. next
    <3>1. i + n - index = Base + n /\ Base + n <= len
      BY <1>0, <1>2, <2>2
    <3>2. taken[n] = Sha1!Data(Base + n)
      BY <1>3, <2>1, <2>2, <3>1
    <3> QED BY <3>1, <3>2 DEF Sha1!Padded
  <2>3. CASE n \in 1 .. index
    <3>1. n \notin index + 1 .. next
      BY <1>2, <2>3
    <3>2. taken[n] = buffer[n]
      BY <1>3, <2>1, <3>1
    <3> QED BY <1>0, <2>3, <3>2 DEF Sha1Inv, Buffered
  <2> QED BY <1>2, <2>2, <2>3
<1>7. CASE next = Block
  <2>1. blocks' \in Seq([1 .. Block -> Byte]) /\ Hashed' /\ Base' = Base + Block
    BY <1>4, <1>5, <1>6, <1>7, BlockHashed
  <2>2. index' = 0
    BY <1>4, <1>7
  <2>3. i' = Base' /\ i' <= len
    BY <1>0, <1>2, <1>4, <1>7, <2>1
  <2>4. Sha1TypeOK'
    BY <1>0, <1>2, <1>4, <1>5, <2>1, <2>2, <2>3, SameLength DEF Sha1TypeOK
  <2>5. Reached'
    BY <1>0, <1>4, <2>1, <2>2, <2>3 DEF Reached
  <2>6. Buffered'
    BY <2>2 DEF Buffered
  <2> QED BY <2>1, <2>4, <2>5, <2>6 DEF Sha1Inv
<1>8. CASE next # Block
  <2>1. index' = next /\ blocks' = blocks /\ Base' = Base
    BY <1>2, <1>4, <1>8 DEF Base
  <2>2. i' = Base + next
    BY <1>0, <1>2, <1>4
  <2>3. Sha1TypeOK'
    BY <1>0, <1>2, <1>4, <1>5, <2>1, <2>2, SameLength DEF Sha1TypeOK
  <2>4. Reached'
    BY <1>0, <1>2, <1>4, <1>8, <2>1, <2>2 DEF Reached
  <2>5. Buffered'
    BY <1>4, <1>6, <2>1, SameLength DEF Buffered
  <2>6. Hashed'
    BY <1>4, <2>1, SameLength DEF Sha1Inv, Hashed
  <2> QED BY <2>3, <2>4, <2>5, <2>6 DEF Sha1Inv
<1> QED BY <1>7, <1>8

\* sha1_final up to its decision: the mark is put behind the input.
LEMMA Sha1PutMark ==
    ASSUME Sha1Inv, Sha1!PutMark
    PROVE  Sha1Inv'
<1> USE BlockAssumption
<1>0. /\ Sha1TypeOK /\ pc = "update" /\ i = len /\ Base + index = len /\ index < Block /\ Len(blocks) \in Nat
      /\ Base \in Nat /\ index \in Nat /\ len \in Nat
  BY DEF Sha1Inv, Reached, Sha1!PutMark, Sha1TypeOK, Base
<1>1. /\ len' = len /\ i' = i /\ blocks' = blocks /\ Base' = Base /\ index' = index + 1
      /\ buffer' = [buffer EXCEPT ![index + 1] = Sha1!Mark]
      /\ pc' = IF index + 1 > Block - 8 THEN "fill" ELSE "pad"
  BY DEF Sha1!PutMark, Sha1!NoRoom, Base
<1>2. Sha1!Mark \in Byte
  BY DEF Sha1!Mark, Sha1!Const, Byte
<1>3. Sha1TypeOK'
  BY <1>0, <1>1, <1>2, SameLength DEF Sha1TypeOK
<1>4. Hashed'
  BY <1>1, SameLength DEF Sha1Inv, Hashed
<1>5. ASSUME NEW n \in 1 .. index + 1 PROVE buffer'[n] = Sha1!Padded(Base + n)
  <2>1. CASE n = index + 1
    <3>1. buffer'[n] = Sha1!Mark
      BY <1>0, <1>1, <2>1 DEF Sha1TypeOK
    <3>2. Base + n = len + 1
      BY <1>0, <2>1
    <3> QED BY <1>0, <3>1, <3>2 DEF Sha1!Padded
  <2>2. CASE n \in 1 .. index
    <3>1. buffer'[n] = buffer[n]
      BY <1>0, <1>1, <2>2 DEF Sha1TypeOK
    <3> QED BY <1>0, <2>2, <3>1 DEF Sha1Inv, Buffered
  <2> QED BY <1>0, <2>1, <2>2
<1>6. Buffered'
  BY <1>1, <1>5, SameLength DEF Buffered
<1>7. CASE index + 1 > Block - 8
  <2>1. Reached'
    BY <1>0, <1>1, <1>7 DEF Reached
  <2> QED BY <1>3, <1>4, <1>6, <2>1 DEF Sha1Inv
<1>8. CASE ~(index + 1 > Block - 8)
  <2>1. PICK q \in Nat : q = Len(blocks) + 1
    BY <1>0
  <2>2. q * Block = Base + Block
    BY <1>0, <2>1 DEF Base
  <2>3. len + 9 <= q * Block /\ q * Block < len + 9 + Block
    BY <1>0, <1>8, <2>2
  <2>4. Sha1!Total = Base + Block
    BY <1>0, <2>2, <2>3, TotalIs
  <2> QED BY <1>0, <1>1, <1>3, <1>4, <1>6, <1>8, <2>4, SameLength DEF Sha1Inv, Reached
<1> QED BY <1>3, <1>4, <1>6, <1>7, <1>8 DEF Sha1Inv

\* The count does not fit: the block is filled with zeros, and another one started.
LEMMA Sha1Fill ==
    ASSUME Sha1Inv, Sha1!Fill
    PROVE  Sha1Inv'
<1> USE BlockAssumption
<1>0. /\ Sha1TypeOK /\ pc = "fill" /\ Base + index = len + 1 /\ index > Block - 8 /\ Len(blocks) \in Nat
      /\ Base \in Nat /\ index \in Nat /\ len \in Nat /\ index <= Block
  BY DEF Sha1Inv, Reached, Sha1!Fill, Sha1TypeOK, Base
<1>1. PICK block : block = Sha1!ZeroTo(Block)
  OBVIOUS
<1>2. /\ len' = len /\ i' = i /\ pc' = "pad" /\ index' = 0
      /\ buffer' = block /\ blocks' = Append(blocks, block)
  BY <1>1 DEF Sha1!Fill
<1>3. block = [n \in 1 .. Block |-> IF n \in index + 1 .. Block THEN Sha1!Zero ELSE buffer[n]]
  BY <1>1 DEF Sha1!ZeroTo
<1>4. block \in [1 .. Block -> Byte]
  <2>1. Sha1!Zero \in Byte
    BY DEF Sha1!Zero, Sha1!Const, Byte
  <2> QED BY <1>0, <1>3, <2>1 DEF Sha1TypeOK
<1>5. Sha1!Total = Base + 2 * Block
  <2>1. PICK q \in Nat : q = Len(blocks) + 2
    BY <1>0
  <2>2. q * Block = Base + 2 * Block
    BY <1>0, <2>1 DEF Base
  <2>3. len + 9 <= q * Block /\ q * Block < len + 9 + Block
    BY <1>0, <2>2
  <2> QED BY <1>0, <2>2, <2>3, TotalIs
<1>6. ASSUME NEW n \in 1 .. Block PROVE block[n] = Sha1!Padded(Base + n)
  <2>1. CASE n \in index + 1 .. Block
    <3>1. Base + n > len + 1 /\ Base + n <= Sha1!Total - 8
      BY <1>0, <1>5, <2>1
    <3> QED BY <1>0, <1>3, <2>1, <3>1 DEF Sha1!Padded
  <2>2. CASE n \in 1 .. index
    <3>1. n \notin index + 1 .. Block
      BY <1>0, <2>2
    <3> QED BY <1>0, <1>3, <2>2, <3>1 DEF Sha1Inv, Buffered
  <2> QED BY <1>0, <2>1, <2>2
<1>7. blocks' \in Seq([1 .. Block -> Byte]) /\ Hashed' /\ Base' = Base + Block
  BY <1>2, <1>4, <1>6, BlockHashed
<1>8. Sha1TypeOK'
  BY <1>0, <1>2, <1>4, <1>7, SameLength DEF Sha1TypeOK
<1>9. Buffered'
  BY <1>2 DEF Buffered
<1>10. Reached'
  BY <1>0, <1>2, <1>5, <1>7, SameLength DEF Reached
<1> QED BY <1>7, <1>8, <1>9, <1>10 DEF Sha1Inv

\* The last block: zeros, and the count of bits.
LEMMA Sha1Finish ==
    ASSUME Sha1Inv, Sha1!Finish
    PROVE  Sha1Inv'
<1> USE BlockAssumption
<1>0. /\ Sha1TypeOK /\ pc = "pad" /\ Base + index > len /\ index <= Block - 8 /\ Len(blocks) \in Nat
      /\ Sha1!Total = Base + Block /\ Base \in Nat /\ index \in Nat /\ len \in Nat
  BY DEF Sha1Inv, Reached, Sha1!Finish, Sha1TypeOK, Base
<1>1. PICK block : block = [n \in 1 .. Block |-> IF n > Block - 8 THEN Sha1!CountByte(n - (Block - 8))
                                                 ELSE Sha1!ZeroTo(Block - 8)[n]]
  OBVIOUS
<1>2. /\ len' = len /\ i' = i /\ pc' = "done" /\ index' = Block
      /\ buffer' = block /\ blocks' = Append(blocks, block)
  BY <1>1 DEF Sha1!Finish
<1>3. ASSUME NEW n \in 1 .. Block PROVE block[n] \in Byte /\ block[n] = Sha1!Padded(Base + n)
  <2>1. CASE n > Block - 8
    <3>1. n - (Block - 8) \in 1 .. 8
      BY <2>1
    <3>2. block[n] = Sha1!CountByte(n - (Block - 8))
      BY <1>1, <2>1
    <3>3. /\ Base + n > len + 1 /\ Base + n > Sha1!Total - 8
          /\ (Base + n) - (Sha1!Total - 8) = n - (Block - 8)
      BY <1>0, <2>1
    <3>4. Sha1!Padded(Base + n) = Sha1!CountByte((Base + n) - (Sha1!Total - 8))
      BY <1>0, <3>3 DEF Sha1!Padded
    <3> QED BY <3>1, <3>2, <3>3, <3>4 DEF Byte
  <2>2. CASE n \in index + 1 .. Block - 8
    <3>1. block[n] = Sha1!Zero
      BY <1>0, <1>1, <2>2 DEF Sha1!ZeroTo
    <3>2. Base + n > len + 1 /\ Base + n <= Sha1!Total - 8
      BY <1>0, <2>2
    <3>3. Sha1!Zero \in Byte
      BY DEF Sha1!Zero, Sha1!Const, Byte
    <3> QED BY <1>0, <3>1, <3>2, <3>3 DEF Sha1!Padded
  <2>3. CASE n \in 1 .. index
    <3>1. block[n] = buffer[n]
      BY <1>0, <1>1, <2>3 DEF Sha1!ZeroTo
    <3> QED BY <1>0, <2>3, <3>1 DEF Sha1Inv, Buffered, Sha1TypeOK
  <2> QED BY <1>0, <2>1, <2>2, <2>3
<1>4. block \in [1 .. Block -> Byte]
  BY <1>1, <1>3
<1>5. blocks' \in Seq([1 .. Block -> Byte]) /\ Hashed' /\ Base' = Base + Block
  BY <1>2, <1>3, <1>4, BlockHashed
<1>6. Sha1TypeOK'
  BY <1>0, <1>2, <1>4, <1>5, SameLength DEF Sha1TypeOK
<1>7. Buffered' /\ Reached'
  BY <1>0, <1>2, <1>5, SameLength DEF Buffered, Reached
<1> QED BY <1>5, <1>6, <1>7 DEF Sha1Inv

\* The inductive invariant of the driver's SHA-1.
LEMMA Sha1Invariant == Sha1!Spec => []Sha1Inv
<1>1. Sha1Inv /\ [Sha1!Next]_(Sha1!vars) => Sha1Inv'
  <2> SUFFICES ASSUME Sha1Inv, [Sha1!Next]_(Sha1!vars) PROVE Sha1Inv'
    OBVIOUS
  <2>1. CASE UNCHANGED Sha1!vars
    <3>1. UNCHANGED <<len, pc, i, index, buffer, blocks>>
      BY <2>1 DEF Sha1!vars
    <3>2. Base' = Base
      BY <3>1 DEF Base
    <3>3. Sha1TypeOK'
      BY <3>1, SameLength DEF Sha1Inv, Sha1TypeOK
    <3>4. Hashed' /\ Buffered' /\ Reached'
      BY <3>1, <3>2, SameLength DEF Sha1Inv, Hashed, Buffered, Reached
    <3> QED BY <3>3, <3>4 DEF Sha1Inv
  <2>2. CASE Sha1!Next
    BY <2>1, <2>2, Sha1Update, Sha1PutMark, Sha1Fill, Sha1Finish DEF Sha1!Next, Sha1!Done
  <2> QED BY <2>1, <2>2
<1> QED BY <1>1, Sha1Start, PTL DEF Sha1!Spec

\* The blocks that the driver's SHA-1 hashes are the padded input, for every length of
\* the input and every size of a block.
THEOREM HashOfPaddedInput == Sha1!Spec => []BlocksArePadded
<1>1. Sha1Inv => BlocksArePadded
  BY DEF Sha1Inv, Hashed, Reached, Base, BlocksArePadded, Sha1!BlocksArePadded
<1> QED BY <1>1, Sha1Invariant, PTL

-----------------------------------------------------------------------------
(* The text of a message: its bytes, what a field leaves of them, and the  *)
(* substitution.                                                           *)

\* The first characters of t and of u are of the same widths.
Alike(t, u, n) ==
    \A m \in 1 .. n : /\ t[m] >= Stored!TwoBytes <=> u[m] >= Stored!TwoBytes
                      /\ t[m] >= Stored!ThreeBytes <=> u[m] >= Stored!ThreeBytes

LEMMA SameCardinality == \A S : Stored!Cardinality(S) = Cardinality(S)
BY Zenon DEF Stored!Cardinality, Cardinality

\* How many characters are from c on, among the first n and one more.
LEMMA FromStep ==
    ASSUME NEW t \in Seq(Nat), NEW c \in Nat, NEW n \in 0 .. Len(t)
    PROVE  /\ IsFiniteSet(Stored!From(t, n, c)) /\ Cardinality(Stored!From(t, n, c)) \in Nat
           /\ Stored!From(t, 0, c) = {}
           /\ n # 0 => Cardinality(Stored!From(t, n, c)) =
                       Cardinality(Stored!From(t, n - 1, c)) + (IF t[n] >= c THEN 1 ELSE 0)
           /\ \A m \in 0 .. n : Cardinality(Stored!From(t, m, c)) <= Cardinality(Stored!From(t, n, c))
<1>1. ASSUME NEW m \in 0 .. n
      PROVE IsFiniteSet(Stored!From(t, m, c)) /\ Cardinality(Stored!From(t, m, c)) \in Nat
  <2>1. IsFiniteSet(1 .. m) /\ Stored!From(t, m, c) \in SUBSET (1 .. m)
    BY FS_Interval DEF Stored!From
  <2> QED BY <2>1, FS_Subset, FS_CardinalityType
<1>2. Stored!From(t, 0, c) = {}
  BY DEF Stored!From
<1>3. ASSUME n # 0
      PROVE  Cardinality(Stored!From(t, n, c)) =
             Cardinality(Stored!From(t, n - 1, c)) + (IF t[n] >= c THEN 1 ELSE 0)
  <2>1. n - 1 \in 0 .. n /\ t[n] \in Nat /\ n \notin Stored!From(t, n - 1, c)
    BY <1>3 DEF Stored!From
  <2>2. /\ t[n] >= c => Stored!From(t, n, c) = Stored!From(t, n - 1, c) \cup {n}
        /\ ~(t[n] >= c) => Stored!From(t, n, c) = Stored!From(t, n - 1, c)
    BY <1>3, SMTT(30) DEF Stored!From
  <2>3. IsFiniteSet(Stored!From(t, n - 1, c)) /\ Cardinality(Stored!From(t, n - 1, c)) \in Nat
    BY <1>1, <2>1
  <2>4. Cardinality(Stored!From(t, n - 1, c) \cup {n}) = Cardinality(Stored!From(t, n - 1, c)) + 1
    BY <2>1, <2>3, FS_AddElement
  <2>5. t[n] >= c => Cardinality(Stored!From(t, n, c)) = Cardinality(Stored!From(t, n - 1, c)) + 1
    BY <2>2, <2>4, Zenon
  <2>6. ~(t[n] >= c) => Cardinality(Stored!From(t, n, c)) = Cardinality(Stored!From(t, n - 1, c))
    BY <2>2, Zenon
  <2> QED BY <2>3, <2>5, <2>6
<1>4. ASSUME NEW m \in 0 .. n
      PROVE  Cardinality(Stored!From(t, m, c)) <= Cardinality(Stored!From(t, n, c))
  <2>1. Stored!From(t, m, c) \in SUBSET Stored!From(t, n, c) /\ n \in 0 .. n
    BY DEF Stored!From
  <2> QED BY <1>1, <2>1, FS_Subset
<1> QED BY <1>1, <1>2, <1>3, <1>4

\* How the bytes of a text are counted.
LEMMA ExtentFacts ==
    ASSUME NEW t \in Seq(Nat), NEW n \in 0 .. Len(t)
    PROVE  /\ Stored!Extent(t, n) \in Nat
           /\ Stored!Extent(t, 0) = 0
           /\ n # 0 => Stored!Extent(t, n) = Stored!Extent(t, n - 1) + Stored!Width(t[n])
           /\ \A m \in 0 .. n : Stored!Extent(t, m) + (n - m) <= Stored!Extent(t, n)
<1> DEFINE x == Stored!TwoBytes  y == Stored!ThreeBytes
<1>0. x \in Nat /\ y \in Nat /\ x <= y
  BY DEF Stored!TwoBytes, Stored!ThreeBytes
<1> DEFINE C(c, m) == Cardinality(Stored!From(t, m, c))
<1>1. \A m \in Nat : Stored!Extent(t, m) = m + C(x, m) + C(y, m)
  BY SameCardinality, Zenon DEF Stored!Extent
<1>2. ASSUME NEW c \in Nat, NEW m \in 0 .. n PROVE C(c, m) \in Nat /\ C(c, m) <= C(c, n)
  <2>1. m \in 0 .. Len(t)
    OBVIOUS
  <2> QED BY <2>1, FromStep, Zenon
<1>3. ASSUME NEW c \in Nat PROVE C(c, 0) = 0
  <2>1. Stored!From(t, 0, c) = {}
    BY FromStep, Zenon
  <2> QED BY <2>1, FS_EmptySet, Zenon
<1>4. ASSUME NEW c \in Nat, n # 0 PROVE C(c, n) = C(c, n - 1) + (IF t[n] >= c THEN 1 ELSE 0)
  BY <1>4, FromStep, Zenon
<1> HIDE DEF C, x, y
<1>5. ASSUME n # 0 PROVE Stored!Extent(t, n) = Stored!Extent(t, n - 1) + Stored!Width(t[n])
  <2>1. n - 1 \in 0 .. n /\ n \in 0 .. n /\ t[n] \in Nat
    BY <1>5
  <2>2. C(x, n - 1) \in Nat /\ C(y, n - 1) \in Nat
    BY <1>0, <1>2, <2>1, Zenon
  <2>3. /\ Stored!Extent(t, n) = n + C(x, n) + C(y, n)
        /\ Stored!Extent(t, n - 1) = n - 1 + C(x, n - 1) + C(y, n - 1)
    BY <1>1, <2>1
  <2>4. /\ C(x, n) = C(x, n - 1) + (IF t[n] >= x THEN 1 ELSE 0)
        /\ C(y, n) = C(y, n - 1) + (IF t[n] >= y THEN 1 ELSE 0)
    BY <1>0, <1>4, <1>5
  <2>5. Stored!Width(t[n]) = 1 + (IF t[n] >= x THEN 1 ELSE 0) + (IF t[n] >= y THEN 1 ELSE 0)
    BY <1>0, <2>1 DEF Stored!Width, x, y
  <2>6. PICK d \in Nat, e \in Nat : /\ d = IF t[n] >= x THEN 1 ELSE 0
                                    /\ e = IF t[n] >= y THEN 1 ELSE 0
    OBVIOUS
  <2>7. C(x, n) = C(x, n - 1) + d /\ C(y, n) = C(y, n - 1) + e /\ Stored!Width(t[n]) = 1 + d + e
    BY ONLY <2>4, <2>5, <2>6
  <2> QED BY ONLY <2>1, <2>2, <2>3, <2>7, d \in Nat, e \in Nat, SMTT(30)
<1>6. ASSUME NEW m \in 0 .. n PROVE Stored!Extent(t, m) + (n - m) <= Stored!Extent(t, n)
  <2>1. /\ C(x, m) \in Nat /\ C(y, m) \in Nat /\ C(x, n) \in Nat /\ C(y, n) \in Nat
        /\ C(x, m) <= C(x, n) /\ C(y, m) <= C(y, n)
    BY <1>0, <1>2, n \in 0 .. n, Zenon
  <2>2. /\ Stored!Extent(t, n) = n + C(x, n) + C(y, n)
        /\ Stored!Extent(t, m) = m + C(x, m) + C(y, m)
    BY <1>1
  <2> QED BY <2>1, <2>2, SMTT(30)
<1>7. Stored!Extent(t, n) \in Nat /\ Stored!Extent(t, 0) = 0
  <2>1. C(x, n) \in Nat /\ C(y, n) \in Nat /\ C(x, 0) = 0 /\ C(y, 0) = 0
    BY <1>0, <1>2, <1>3, SMTT(30)
  <2> QED BY <1>1, <2>1
<1> QED BY <1>5, <1>6, <1>7

\* Texts of the same widths have the same bytes' places.
LEMMA ExtentAlike ==
    ASSUME NEW t \in Seq(Nat), NEW u \in Seq(Nat), NEW n \in Nat, n <= Len(t), n <= Len(u), Alike(t, u, n),
           NEW m \in 0 .. n
    PROVE  Stored!Extent(u, m) = Stored!Extent(t, m)
<1>1. \A j \in 1 .. m : j \in 1 .. n /\ t[j] \in Nat /\ u[j] \in Nat
  BY SMTT(30)
<1>2. \A j \in 1 .. m : /\ t[j] >= Stored!TwoBytes <=> u[j] >= Stored!TwoBytes
                        /\ t[j] >= Stored!ThreeBytes <=> u[j] >= Stored!ThreeBytes
  BY <1>1 DEF Alike
<1>3. /\ Stored!From(t, m, Stored!TwoBytes) = Stored!From(u, m, Stored!TwoBytes)
      /\ Stored!From(t, m, Stored!ThreeBytes) = Stored!From(u, m, Stored!ThreeBytes)
  BY <1>2 DEF Stored!From
<1> QED BY <1>3, Zenon DEF Stored!Extent

\* Every byte belongs to a character, and to one only.
LEMMA BytePlace ==
    ASSUME NEW t \in Seq(Nat), NEW p \in 1 .. Stored!Extent(t, Len(t))
    PROVE  \E n \in 1 .. Len(t) : /\ Stored!Extent(t, n - 1) < p /\ p <= Stored!Extent(t, n)
                                  /\ \A m \in 1 .. Len(t) :
                                       Stored!Extent(t, m - 1) < p /\ p <= Stored!Extent(t, m) => m = n
<1> DEFINE E(n) == Stored!Extent(t, n)
<1>1. \A n \in 0 .. Len(t) : E(n) \in Nat /\ E(0) = 0 /\ \A m \in 0 .. n : E(m) + (n - m) <= E(n)
  BY ExtentFacts
<1>2. Len(t) \in Nat
  OBVIOUS
<1> HIDE DEF E
<1> DEFINE T == {n \in 0 .. Len(t) : p <= E(n)}
<1>3. PICK n \in T : \A m \in T : n <= m
  <2>1. T \subseteq Nat /\ Len(t) \in T
    BY <1>1, <1>2 DEF E
  <2> QED BY <2>1, LeastNat
<1>4. n \in 1 .. Len(t) /\ n - 1 \in 0 .. Len(t) /\ E(n - 1) < p /\ p <= E(n)
  <2>1. n \in 0 .. Len(t) /\ p <= E(n) /\ p >= 1
    BY <1>3
  <2>2. n # 0
    BY <1>1, <2>1
  <2>3. n - 1 \in 0 .. Len(t) /\ ~(n <= n - 1)
    BY <1>2, <2>1, <2>2
  <2>4. E(n - 1) \in Nat /\ ~(p <= E(n - 1))
    BY <1>1, <1>3, <2>3
  <2> QED BY <1>2, <2>1, <2>2, <2>3, <2>4
<1>5. ASSUME NEW m \in 1 .. Len(t), E(m - 1) < p, p <= E(m) PROVE m = n
  <2>1. m \in T /\ n <= m
    BY <1>2, <1>3, <1>5
  <2>0. m - 1 \in 0 .. Len(t) /\ n \in 0 .. Len(t)
    BY <1>2, <1>4, <1>5
  <2>2. E(n) \in Nat /\ E(m - 1) \in Nat
    BY <1>1, <2>0
  <2>3. ASSUME n <= m - 1 PROVE FALSE
    <3>1. n \in 0 .. (m - 1) /\ (m - 1) - n \in Nat
      BY <1>2, <1>4, <1>5, <2>3
    <3>2. E(n) + ((m - 1) - n) <= E(m - 1)
      BY <1>1, <2>0, <3>1
    <3> QED BY <1>4, <1>5, <2>2, <3>1, <3>2, SMTT(30)
  <2> QED BY <1>2, <1>4, <2>1, <2>3
<1> QED BY <1>4, <1>5 DEF E

\* What Encode makes of a text.
LEMMA EncodeFacts ==
    ASSUME NEW t \in Seq(Nat)
    PROVE  /\ Stored!Extent(t, Len(t)) \in Nat
           /\ Stored!Encode(t) \in Seq([code : Nat, k : Nat])
           /\ Len(Stored!Encode(t)) = Stored!Extent(t, Len(t))
           /\ \A n \in 1 .. Len(t), p \in 1 .. Stored!Extent(t, Len(t)) :
                Stored!Extent(t, n - 1) < p /\ p <= Stored!Extent(t, n) =>
                  Stored!Encode(t)[p] = [code |-> t[n], k |-> p - Stored!Extent(t, n - 1)]
<1> DEFINE E(n) == Stored!Extent(t, n)
<1>0. Len(t) \in Nat /\ \A n \in 1 .. Len(t) : n \in 0 .. Len(t) /\ n - 1 \in 0 .. Len(t)
  OBVIOUS
<1>1. \A n \in 0 .. Len(t) : E(n) \in Nat
  BY ExtentFacts
<1>2. E(Len(t)) \in Nat
  BY <1>0, <1>1
<1> DEFINE N(p) == CHOOSE n \in DOMAIN t : Stored!Extent(t, n - 1) < p /\ p <= Stored!Extent(t, n)
<1>3. ASSUME NEW p \in 1 .. E(Len(t)) PROVE N(p) \in 1 .. Len(t) /\ E(N(p) - 1) < p /\ p <= E(N(p))
  <2>1. \E n \in DOMAIN t : Stored!Extent(t, n - 1) < p /\ p <= Stored!Extent(t, n)
    BY BytePlace
  <2> QED BY <2>1
<1>4. ASSUME NEW n \in 1 .. Len(t), NEW p \in 1 .. E(Len(t)), E(n - 1) < p, p <= E(n) PROVE N(p) = n
  BY <1>3, <1>4, BytePlace
<1>5. Stored!Encode(t) = [p \in 1 .. E(Len(t)) |-> [code |-> t[N(p)], k |-> p - E(N(p) - 1)]]
  BY Zenon DEF Stored!Encode
<1> HIDE DEF E, N
<1>6. ASSUME NEW p \in 1 .. E(Len(t)) PROVE [code |-> t[N(p)], k |-> p - E(N(p) - 1)] \in [code : Nat, k : Nat]
  <2>1. E(N(p) - 1) \in Nat /\ t[N(p)] \in Nat
    BY <1>0, <1>1, <1>3, SMTT(30)
  <2>2. p - E(N(p) - 1) \in Nat
    BY <1>2, <1>3, <2>1, SMTT(30)
  <2> QED BY <2>1, <2>2
<1>7. Stored!Encode(t) \in [1 .. E(Len(t)) -> [code : Nat, k : Nat]]
  BY <1>5, <1>6
<1>8. Stored!Encode(t) \in Seq([code : Nat, k : Nat]) /\ Len(Stored!Encode(t)) = E(Len(t))
  <2> DEFINE x == E(Len(t))  B == [code : Nat, k : Nat]  e == Stored!Encode(t)
  <2>1. x \in Nat /\ e \in [1 .. x -> B]
    BY <1>2, <1>7
  <2> HIDE DEF x, B, e
  <2>2. e \in Seq(B)
    BY <2>1, SeqDef
  <2>3. Len(e) = x
    <3>1. DOMAIN e = 1 .. x /\ DOMAIN e = 1 .. Len(e) /\ Len(e) \in Nat
      BY <2>1, <2>2, LenProperties
    <3> QED BY <2>1, <3>1
  <2> QED BY <2>2, <2>3 DEF x, B, e
<1>9. ASSUME NEW n \in 1 .. Len(t), NEW p \in 1 .. E(Len(t)), E(n - 1) < p, p <= E(n)
      PROVE  Stored!Encode(t)[p] = [code |-> t[n], k |-> p - E(n - 1)]
  BY <1>4, <1>5, <1>9
<1> QED BY <1>2, <1>8, <1>9 DEF E

\* What is left of t when its bytes are cut after L, within the n-th character or at its end.
Left(t, n, L) == [m \in 1 .. n |-> IF m = n /\ L < Stored!Extent(t, n) THEN Stored!Replacement ELSE t[m]]

\* The first L bytes of b are those of t.
SameStart(b, L, t) == L <= Stored!Extent(t, Len(t)) /\ \A p \in 1 .. L : b[p] = Stored!Encode(t)[p]

\* The n-th character is begun when one of its bytes is reached.
LEMMA BegunFacts ==
    ASSUME NEW t \in Seq(Nat), NEW b, NEW L \in Nat, SameStart(b, L, t),
           NEW n \in 1 .. Len(t), NEW p \in 1 .. L,
           Stored!Extent(t, n - 1) < p, p <= Stored!Extent(t, n)
    PROVE  Stored!Begun(b, p) = n
<1> DEFINE E(m) == Stored!Extent(t, m)
           S == {q \in 1 .. p : b[q].k = 1}
           f == [m \in 1 .. n |-> E(m - 1) + 1]
<1>0. Len(t) \in Nat /\ \A m \in 1 .. Len(t) : m \in 0 .. Len(t) /\ m - 1 \in 0 .. Len(t)
  OBVIOUS
<1>1. \A m \in 0 .. Len(t) : E(m) \in Nat
  BY ExtentFacts
<1>a. L \in Nat /\ E(Len(t)) \in Nat /\ L <= E(Len(t))
  BY <1>0, <1>1 DEF SameStart
<1>b. \A q \in 1 .. L : q \in 1 .. E(Len(t))
  BY ONLY <1>a
<1>2. \A m \in 0 .. Len(t) : \A j \in 0 .. m : E(j) + (m - j) <= E(m)
  BY ExtentFacts
<1>3. \A q \in 1 .. L, m \in 1 .. Len(t) : E(m - 1) < q /\ q <= E(m) => b[q].k = q - E(m - 1)
  <2> SUFFICES ASSUME NEW q \in 1 .. L, NEW m \in 1 .. Len(t), E(m - 1) < q, q <= E(m)
               PROVE  b[q].k = q - E(m - 1)
    OBVIOUS
  <2>1. q \in 1 .. E(Len(t))
    BY <1>b
  <2>2. Stored!Encode(t)[q] = [code |-> t[m], k |-> q - E(m - 1)]
    BY <2>1, EncodeFacts
  <2>3. b[q] = Stored!Encode(t)[q]
    BY DEF SameStart
  <2> QED BY <2>2, <2>3
<1>4. \A q \in 1 .. L : \E m \in 1 .. Len(t) : E(m - 1) < q /\ q <= E(m)
  <2> SUFFICES ASSUME NEW q \in 1 .. L PROVE \E m \in 1 .. Len(t) : E(m - 1) < q /\ q <= E(m)
    OBVIOUS
  <2>1. q \in 1 .. E(Len(t))
    BY <1>b
  <2> QED BY <2>1, BytePlace
<1>5. E(n - 1) < p /\ p <= E(n)
  OBVIOUS
<1> HIDE DEF E
<1>6. ASSUME NEW m \in 1 .. n PROVE E(m - 1) + 1 \in S
  <2>1. m - 1 \in 0 .. Len(t) /\ n - 1 \in 0 .. Len(t) /\ m - 1 \in 0 .. (n - 1) /\ m \in 0 .. Len(t) /\ m - 1 \in 0 .. m
    BY <1>0
  <2>2. E(m - 1) \in Nat /\ E(m) \in Nat /\ E(n - 1) \in Nat
    BY <1>1, <2>1
  <2>3. E(m - 1) + ((n - 1) - (m - 1)) <= E(n - 1) /\ E(m - 1) + (m - (m - 1)) <= E(m)
    BY <1>2, <2>1
  <2>4. E(m - 1) + 1 \in 1 .. p /\ E(m - 1) < E(m - 1) + 1 /\ E(m - 1) + 1 <= E(m)
    BY <1>0, <1>5, <2>2, <2>3, SMTT(30)
  <2>5. E(m - 1) + 1 \in 1 .. L /\ m \in 1 .. Len(t)
    BY <1>0, <2>4, SMTT(30)
  <2>6. b[E(m - 1) + 1].k = (E(m - 1) + 1) - E(m - 1)
    BY <1>3, <2>4, <2>5
  <2> QED BY <2>2, <2>4, <2>6, SMTT(30)
<1>7. ASSUME NEW q \in S PROVE \E m \in 1 .. n : E(m - 1) + 1 = q
  <2>1. q \in 1 .. L /\ q \in 1 .. p /\ b[q].k = 1
    OBVIOUS
  <2>2. PICK m \in 1 .. Len(t) : E(m - 1) < q /\ q <= E(m)
    BY <1>4, <2>1
  <2>3. b[q].k = q - E(m - 1) /\ E(m - 1) \in Nat
    BY <1>0, <1>1, <1>3, <2>1, <2>2
  <2>4. E(m - 1) + 1 = q
    BY <2>1, <2>3, SMTT(30)
  <2>5. ASSUME m > n PROVE FALSE
    <3>1. m - 1 \in 0 .. Len(t) /\ n \in 0 .. (m - 1) /\ n \in 0 .. Len(t)
      BY <1>0, <2>5
    <3>2. E(n) + ((m - 1) - n) <= E(m - 1) /\ E(n) \in Nat
      BY <1>1, <1>2, <3>1
    <3> QED BY <1>0, <1>5, <2>1, <2>2, <2>3, <2>5, <3>1, <3>2, SMTT(30)
  <2> QED BY <1>0, <2>4, <2>5
<1>8. ASSUME NEW m \in 1 .. n, NEW j \in 1 .. n, j < m PROVE E(j - 1) + 1 # E(m - 1) + 1
  <2>1. m - 1 \in 0 .. Len(t) /\ j - 1 \in 0 .. (m - 1) /\ j - 1 \in 0 .. Len(t)
    BY <1>0, <1>8, SMTT(30)
  <2>2. E(j - 1) + ((m - 1) - (j - 1)) <= E(m - 1) /\ E(j - 1) \in Nat /\ E(m - 1) \in Nat
    BY <1>1, <1>2, <2>1
  <2> QED BY <1>0, <1>8, <2>2, SMTT(30)
<1>9. f \in Bijection(1 .. n, S)
  <2>1. f \in [1 .. n -> S]
    BY <1>6
  <2>2. \A m, j \in 1 .. n : f[j] = f[m] => j = m
    BY <1>0, <1>8
  <2>3. \A q \in S : \E m \in 1 .. n : f[m] = q
    BY <1>7
  <2> HIDE DEF f, S
  <2>4. DOMAIN f = 1 .. n
    BY <2>1
  <2> QED BY <2>1, <2>2, <2>3, <2>4 DEF Bijection, Injection, Surjection, IsInjective
<1>10. ExistsBijection(1 .. n, S)
  BY <1>9, Zenon DEF ExistsBijection
<1>11. IsFiniteSet(1 .. n) /\ Cardinality(1 .. n) = n
  BY <1>0, FS_Interval
<1>12. Cardinality(S) = n
  BY <1>10, <1>11, FS_Bijection, Zenon
<1> QED BY <1>12, SameCardinality, Zenon DEF Stored!Begun

\* The bytes of a text up to L are decoded to what is left of it.
LEMMA DecodeFacts ==
    ASSUME NEW t \in Seq(Nat), NEW b \in Seq([code : Nat, k : Nat]), SameStart(b, Len(b), t),
           NEW n \in 1 .. Len(t), Stored!Extent(t, n - 1) < Len(b), Len(b) <= Stored!Extent(t, n)
    PROVE  Stored!Decode(b) = Left(t, n, Len(b))
<1> DEFINE L == Len(b)
           E(m) == Stored!Extent(t, m)
           begin(m) == CHOOSE p \in DOMAIN b : b[p].k = 1 /\ Stored!Begun(b, p) = m
           cut(m) == m = Stored!Begun(b, L) /\ b[L].k < Stored!Width(b[L].code)
<1>0. Len(t) \in Nat /\ Len(t) \in 0 .. Len(t) /\ L \in Nat /\ n \in 0 .. Len(t) /\ n - 1 \in 0 .. Len(t) /\ n # 0
  BY SMTT(30)
<1>1. \A m \in 0 .. Len(t) : E(m) \in Nat
  BY ExtentFacts
<1>2. \A m \in 0 .. Len(t) : \A j \in 0 .. m : E(j) + (m - j) <= E(m)
  BY ExtentFacts
<1>3. E(n) = E(n - 1) + Stored!Width(t[n])
  BY <1>0, ExtentFacts
<1>4. L <= E(Len(t)) /\ E(n - 1) < L /\ L <= E(n) /\ E(n) \in Nat /\ E(n - 1) \in Nat /\ L \in 1 .. L
  <2>1. E(n) \in Nat /\ E(n - 1) \in Nat /\ L <= E(Len(t))
    BY <1>0, <1>1 DEF SameStart
  <2> QED BY <1>0, <2>1
<1>5. ASSUME NEW m \in 1 .. Len(t), NEW p \in 1 .. L, E(m - 1) < p, p <= E(m)
      PROVE  b[p] = [code |-> t[m], k |-> p - E(m - 1)] /\ Stored!Begun(b, p) = m
  <2>1. p \in 1 .. E(Len(t))
    <3>1. E(Len(t)) \in Nat
      BY <1>0, <1>1
    <3> QED BY <1>0, <1>4, <3>1
  <2>2. b[p] = [code |-> t[m], k |-> p - E(m - 1)]
    BY <1>5, <2>1, EncodeFacts DEF SameStart
  <2>3. Stored!Begun(b, p) = m
    BY <1>0, <1>5, BegunFacts
  <2> QED BY <2>2, <2>3
<1>6. ASSUME NEW p \in 1 .. L
      PROVE  \E m \in 1 .. Len(t) : E(m - 1) < p /\ p <= E(m)
  <2>1. p \in 1 .. E(Len(t))
    <3>1. E(Len(t)) \in Nat
      BY <1>0, <1>1
    <3> QED BY <1>0, <1>4, <3>1
  <2> QED BY <2>1, BytePlace
<1>7. Stored!Decode(b) =
        [m \in 1 .. Stored!Begun(b, L) |-> IF cut(m) THEN Stored!Replacement ELSE b[begin(m)].code]
  BY Zenon DEF Stored!Decode
<1> HIDE DEF E, L
<1>8. Stored!Begun(b, L) = n /\ b[L] = [code |-> t[n], k |-> L - E(n - 1)]
  BY <1>4, <1>5
<1>9. b[L].k < Stored!Width(b[L].code) <=> L < E(n)
  <2>1. b[L].k = L - E(n - 1) /\ b[L].code = t[n]
    BY <1>8
  <2>2. Stored!Width(t[n]) \in Nat
    BY DEF Stored!Width
  <2>3. L - E(n - 1) < Stored!Width(t[n]) <=> L < E(n - 1) + Stored!Width(t[n])
    BY <1>0, <1>4, <2>2, SMTT(30)
  <2> QED BY <1>3, <2>1, <2>3, Zenon
<1>10. ASSUME NEW m \in 1 .. n PROVE b[begin(m)].code = t[m]
  <2>1. m \in 1 .. Len(t) /\ m \in 0 .. Len(t) /\ m - 1 \in 0 .. Len(t) /\ m - 1 \in 0 .. (n - 1) /\ m - 1 \in 0 .. m
    BY <1>0
  <2>2. E(m - 1) \in Nat /\ E(m) \in Nat
    BY <1>1, <2>1
  <2>3. E(m - 1) + ((n - 1) - (m - 1)) <= E(n - 1) /\ E(m - 1) + (m - (m - 1)) <= E(m)
    BY <1>0, <1>2, <2>1
  <2> DEFINE q == E(m - 1) + 1
  <2>a. E(m - 1) <= E(n - 1) /\ E(m - 1) + 1 <= E(m)
    <3>1. (n - 1) - (m - 1) \in Nat /\ m - (m - 1) = 1
      BY <1>0, <2>1
    <3> QED BY <1>4, <2>2, <2>3, <3>1, SMTT(30)
  <2>4. q \in 1 .. L /\ E(m - 1) < q /\ q <= E(m)
    BY <1>0, <1>4, <2>2, <2>a, SMTT(30)
  <2>5. b[q] = [code |-> t[m], k |-> q - E(m - 1)] /\ Stored!Begun(b, q) = m
    BY <1>5, <2>1, <2>4
  <2>6. b[q].k = 1
    BY <2>2, <2>5
  <2>7. DOMAIN b = 1 .. L
    BY DEF L
  <2> HIDE DEF q
  <2>8. \E p \in DOMAIN b : b[p].k = 1 /\ Stored!Begun(b, p) = m
    BY <2>4, <2>5, <2>6, <2>7
  <2>9. begin(m) \in 1 .. L /\ Stored!Begun(b, begin(m)) = m
    BY <2>7, <2>8
  <2> HIDE DEF begin
  <2>10. PICK j \in 1 .. Len(t) : E(j - 1) < begin(m) /\ begin(m) <= E(j)
    BY <1>6, <2>9
  <2>11. b[begin(m)] = [code |-> t[j], k |-> begin(m) - E(j - 1)] /\ Stored!Begun(b, begin(m)) = j
    BY <1>5, <2>9, <2>10
  <2> QED BY <2>9, <2>11
<1> HIDE DEF begin
<1>11. Stored!Decode(b) = [m \in 1 .. n |-> IF m = n /\ L < E(n) THEN Stored!Replacement ELSE t[m]]
  <2>1. \A m \in 1 .. n : (IF cut(m) THEN Stored!Replacement ELSE b[begin(m)].code) =
                          (IF m = n /\ L < E(n) THEN Stored!Replacement ELSE t[m])
    BY <1>8, <1>9, <1>10
  <2> HIDE DEF cut
  <2> QED BY <1>7, <1>8, <2>1
<1> QED BY <1>11 DEF Left, E, L

\* How many bytes of t the field holds.
Held(t) == IF Stored!Extent(t, Len(t)) < Size THEN Stored!Extent(t, Len(t)) ELSE Size - 1

\* The character that the last byte held is of.
Cut(t, n) == n \in 1 .. Len(t) /\ Stored!Extent(t, n - 1) < Held(t) /\ Held(t) <= Stored!Extent(t, n)

\* What the field leaves of t.
Rest(t) == LET n == CHOOSE n \in 1 .. Len(t) : Cut(t, n) IN Left(t, n, Held(t))

\* A field holds a part of a text that is not empty, and the text ends there if it is cut.
LEMMA HeldFacts ==
    ASSUME NEW t \in Seq(Nat), t # <<>>
    PROVE  /\ Held(t) \in Nat /\ Held(t) \in 1 .. Stored!Extent(t, Len(t)) /\ Held(t) < Size
           /\ Stored!CString(t) \in Seq([code : Nat, k : Nat]) /\ Len(Stored!CString(t)) = Held(t)
           /\ \A p \in 1 .. Held(t) : Stored!CString(t)[p] = Stored!Encode(t)[p]
           /\ \E n \in 1 .. Len(t) : Cut(t, n) /\ Rest(t) = Left(t, n, Held(t)) /\ \A m : Cut(t, m) => m = n
<1> DEFINE X == Stored!Extent(t, Len(t))
           e == Stored!Encode(t)
           B == [code : Nat, k : Nat]
<1>0. Len(t) \in Nat /\ Len(t) >= 1 /\ 0 \in 0 .. Len(t) /\ Len(t) \in 0 .. Len(t)
  BY EmptySeq
<1>1. X \in Nat /\ X >= 1
  <2>1. Stored!Extent(t, 0) = 0 /\ X \in Nat /\ Stored!Extent(t, 0) + (Len(t) - 0) <= X
    BY <1>0, ExtentFacts
  <2> QED BY <1>0, <2>1
<1>2. Size \in Nat /\ Size > 1
  BY TextAssumption
<1>3. e \in Seq(B) /\ Len(e) = X
  BY EncodeFacts
<1>a. Held(t) = IF X < Size THEN X ELSE Size - 1
  BY DEF Held
<1>b. Stored!CString(t) = IF Len(e) < Size THEN e ELSE SubSeq(e, 1, Size - 1)
  BY DEF Stored!CString
<1>6. \A p \in 1 .. X : \E n \in 1 .. Len(t) : /\ Stored!Extent(t, n - 1) < p /\ p <= Stored!Extent(t, n)
                                                /\ \A m \in 1 .. Len(t) :
                                                     Stored!Extent(t, m - 1) < p /\ p <= Stored!Extent(t, m) => m = n
  BY BytePlace
<1> HIDE DEF X, e, B
<1>4. Held(t) \in Nat /\ Held(t) \in 1 .. X /\ Held(t) < Size
  BY <1>1, <1>2, <1>a
<1>5. /\ Stored!CString(t) \in Seq(B) /\ Len(Stored!CString(t)) = Held(t)
      /\ \A p \in 1 .. Held(t) : Stored!CString(t)[p] = e[p]
  <2>1. CASE X < Size
    BY <1>3, <1>a, <1>b, <2>1
  <2>2. CASE ~(X < Size)
    <3>1. Stored!CString(t) = SubSeq(e, 1, Size - 1) /\ Held(t) = Size - 1 /\ Size - 1 \in 1 .. Len(e)
      BY <1>1, <1>2, <1>3, <1>a, <1>b, <2>2
    <3>2. /\ SubSeq(e, 1, Size - 1) \in Seq(B) /\ Len(SubSeq(e, 1, Size - 1)) = Size - 1
          /\ \A p \in 1 .. Size - 1 : SubSeq(e, 1, Size - 1)[p] = e[p]
      BY <1>2, <1>3, <3>1
    <3> QED BY <3>1, <3>2
  <2> QED BY <2>1, <2>2
<1>7. PICK n \in 1 .. Len(t) : Cut(t, n) /\ \A m \in 1 .. Len(t) : Cut(t, m) => m = n
  BY <1>4, <1>6 DEF Cut
<1>8. (CHOOSE m \in 1 .. Len(t) : Cut(t, m)) = n
  BY <1>7
<1>9. Rest(t) = Left(t, n, Held(t)) /\ \A m : Cut(t, m) => m = n
  BY <1>7, <1>8 DEF Rest, Cut
<1> QED BY <1>4, <1>5, <1>7, <1>9 DEF X, e, B

\* The ciphers are permutations of the letters and of the digits.
LEMMA Ciphers ==
    /\ Stored!k_lower_cipher \in [1 .. 26 -> 97 .. 122]
    /\ \A x, y \in 1 .. 26 : Stored!k_lower_cipher[x] = Stored!k_lower_cipher[y] => x = y
    /\ Stored!k_digit_cipher \in [1 .. 10 -> 48 .. 57]
    /\ \A x, y \in 1 .. 10 : Stored!k_digit_cipher[x] = Stored!k_digit_cipher[y] => x = y
<1>1. Stored!k_lower_cipher \in [1 .. 26 -> 97 .. 122]
  BY DEF Stored!k_lower_cipher
<1>2. \A x, y \in 1 .. 26 : Stored!k_lower_cipher[x] = Stored!k_lower_cipher[y] => x = y
  BY SMTT(60) DEF Stored!k_lower_cipher
<1>3. /\ Stored!k_digit_cipher \in [1 .. 10 -> 48 .. 57]
      /\ \A x, y \in 1 .. 10 : Stored!k_digit_cipher[x] = Stored!k_digit_cipher[y] => x = y
  BY DEF Stored!k_digit_cipher
<1> QED BY <1>1, <1>2, <1>3

\* A table of N different characters.
Table(source, N) == DOMAIN source = 1 .. N /\ \A x, y \in 1 .. N : source[x] = source[y] => x = y

\* map_char takes the place of a character in one table to the other table.
LEMMA CharFacts ==
    ASSUME NEW N \in Nat, NEW source, Table(source, N), NEW target, NEW x \in 1 .. N
    PROVE  Stored!map_char(source[x], source, target) = target[x]
<1> DEFINE ch == source[x]
           P(y) == source[y] = ch /\ \A z \in 1 .. y - 1 : source[z] # ch
<1>1. DOMAIN source = 1 .. N
  BY DEF Table
<1>2. P(x)
  <2>1. \A z \in 1 .. x - 1 : z \in 1 .. N /\ z # x
    OBVIOUS
  <2> QED BY <2>1 DEF Table
<1>3. \A y \in 1 .. N : P(y) => y = x
  BY DEF Table
<1> HIDE DEF P
<1>4. (CHOOSE y \in DOMAIN source : P(y)) = x
  BY <1>1, <1>2, <1>3
<1>5. \E y \in DOMAIN source : source[y] = ch
  BY <1>1
<1> QED BY <1>4, <1>5 DEF Stored!map_char, P

\* Each table of a cipher is taken to the other and back: plain lists the characters
\* from low to high.
Cipher(plain, cipher, N, low, high) ==
    /\ N \in Nat /\ low \in Nat /\ high = low + N - 1
    /\ DOMAIN plain = 1 .. N /\ \A x \in 1 .. N : plain[x] = low - 1 + x
    /\ cipher \in [1 .. N -> low .. high]
    /\ \A x, y \in 1 .. N : cipher[x] = cipher[y] => x = y

LEMMA ThereAndBack ==
    ASSUME NEW N, NEW low, NEW high, NEW plain, NEW cipher, Cipher(plain, cipher, N, low, high),
           NEW ch \in low .. high
    PROVE  /\ Stored!map_char(ch, plain, cipher) \in low .. high
           /\ Stored!map_char(Stored!map_char(ch, plain, cipher), cipher, plain) = ch
<1>0. N \in Nat /\ low \in Nat /\ high = low + N - 1
  BY DEF Cipher
<1>1. PICK x \in 1 .. N : low - 1 + x = ch
  <2>1. ch - low + 1 \in 1 .. N /\ low - 1 + (ch - low + 1) = ch
    BY <1>0
  <2> QED BY <2>1
<1>2. plain[x] = ch /\ cipher[x] \in low .. high
  BY <1>1 DEF Cipher
<1>3. Table(plain, N)
  <2>1. ASSUME NEW y \in 1 .. N, NEW z \in 1 .. N, plain[y] = plain[z] PROVE y = z
    <3>1. plain[y] = low - 1 + y /\ plain[z] = low - 1 + z
      BY DEF Cipher
    <3>2. low - 1 + y = low - 1 + z
      BY <2>1, <3>1, Zenon
    <3> QED BY <1>0, <3>2
  <2> QED BY <2>1 DEF Table, Cipher
<1>4. Table(cipher, N)
  BY DEF Table, Cipher
<1>5. Stored!map_char(plain[x], plain, cipher) = cipher[x]
  BY <1>0, <1>3, CharFacts
<1>6. Stored!map_char(cipher[x], cipher, plain) = plain[x]
  BY <1>0, <1>4, CharFacts
<1> QED BY <1>2, <1>5, <1>6, Zenon

\* The substitution keeps what is no ASCII character, and is undone by its reverse.
LEMMA MapFacts ==
    ASSUME NEW ch \in Nat
    PROVE  /\ Stored!map_forward(ch) \in Nat
           /\ Stored!map_reverse(Stored!map_forward(ch)) = ch
           /\ ch < 128 <=> Stored!map_forward(ch) < 128
           /\ ch >= 128 => Stored!map_forward(ch) = ch
<1> DEFINE F == Stored!map_forward(ch)
<1>1. CASE ch \in 97 .. 122
  <2> DEFINE M == Stored!map_char(ch, Stored!k_lower_alphabet, Stored!k_lower_cipher)
  <2>1. /\ M \in 97 .. 122
        /\ Stored!map_char(M, Stored!k_lower_cipher, Stored!k_lower_alphabet) = ch
    <3>1. /\ DOMAIN Stored!k_lower_alphabet = 1 .. 26 /\ 122 = 97 + 26 - 1 /\ 26 \in Nat /\ 97 \in Nat
          /\ \A x \in 1 .. 26 : Stored!k_lower_alphabet[x] = 97 - 1 + x
      BY DEF Stored!k_lower_alphabet
    <3>3. Cipher(Stored!k_lower_alphabet, Stored!k_lower_cipher, 26, 97, 122)
      BY <3>1, Ciphers, SMTT(30) DEF Cipher
    <3> QED BY <1>1, <3>3, ThereAndBack
  <2> HIDE DEF M
  <2>2. F = M
    BY <1>1 DEF Stored!map_forward, M
  <2>3. Stored!map_reverse(M) = ch
    BY <2>1 DEF Stored!map_reverse
  <2> QED BY <1>1, <2>1, <2>2, <2>3
<1>2. CASE ch \in 65 .. 90
  <2> DEFINE M == Stored!map_char(ch, Stored!k_upper_alphabet, Stored!k_upper_cipher)
  <2>1. /\ M \in 65 .. 90
        /\ Stored!map_char(M, Stored!k_upper_cipher, Stored!k_upper_alphabet) = ch
    <3>1. /\ DOMAIN Stored!k_upper_alphabet = 1 .. 26 /\ 90 = 65 + 26 - 1 /\ 26 \in Nat /\ 65 \in Nat
          /\ \A x \in 1 .. 26 : Stored!k_upper_alphabet[x] = 65 - 1 + x
      BY DEF Stored!k_upper_alphabet
    <3>2. /\ Stored!k_upper_cipher \in [1 .. 26 -> 65 .. 90]
          /\ \A x, y \in 1 .. 26 : Stored!k_upper_cipher[x] = Stored!k_upper_cipher[y] => x = y
      <4>1. \A x \in 1 .. 26 : /\ Stored!k_lower_cipher[x] \in 97 .. 122
                               /\ Stored!k_upper_cipher[x] = Stored!k_lower_cipher[x] - 32
        BY Ciphers DEF Stored!k_upper_cipher
      <4>2. \A x \in 1 .. 26 : Stored!k_upper_cipher[x] \in 65 .. 90
        BY <4>1
      <4>3. Stored!k_upper_cipher = [x \in 1 .. 26 |-> Stored!k_upper_cipher[x]]
        BY DEF Stored!k_upper_cipher
      <4>4. Stored!k_upper_cipher \in [1 .. 26 -> 65 .. 90]
        BY <4>2, <4>3
      <4>5. ASSUME NEW x \in 1 .. 26, NEW y \in 1 .. 26, Stored!k_upper_cipher[x] = Stored!k_upper_cipher[y]
            PROVE  x = y
        <5>1. Stored!k_lower_cipher[x] = Stored!k_lower_cipher[y]
          <6> DEFINE a == Stored!k_lower_cipher[x]  b == Stored!k_lower_cipher[y]
          <6>1. a \in Nat /\ b \in Nat
            BY <4>1, SMTT(30)
          <6>2. a - 32 = b - 32
            BY <4>1, <4>5, Zenon
          <6> HIDE DEF a, b
          <6>3. a = b
            BY <6>1, <6>2
          <6> QED BY <6>3 DEF a, b
        <5> QED BY <5>1, Ciphers
      <4> QED BY <4>4, <4>5
    <3>3. Cipher(Stored!k_upper_alphabet, Stored!k_upper_cipher, 26, 65, 90)
      BY <3>1, <3>2, SMTT(30) DEF Cipher
    <3> QED BY <1>2, <3>3, ThereAndBack
  <2> HIDE DEF M
  <2>2. F = M
    BY <1>2 DEF Stored!map_forward, M
  <2>3. Stored!map_reverse(M) = ch
    BY <2>1 DEF Stored!map_reverse
  <2> QED BY <1>2, <2>1, <2>2, <2>3
<1>3. CASE ch \in 48 .. 57
  <2> DEFINE M == Stored!map_char(ch, Stored!k_digits, Stored!k_digit_cipher)
  <2>1. /\ M \in 48 .. 57
        /\ Stored!map_char(M, Stored!k_digit_cipher, Stored!k_digits) = ch
    <3>1. /\ DOMAIN Stored!k_digits = 1 .. 10 /\ 57 = 48 + 10 - 1 /\ 10 \in Nat /\ 48 \in Nat
          /\ \A x \in 1 .. 10 : Stored!k_digits[x] = 48 - 1 + x
      BY DEF Stored!k_digits
    <3>3. Cipher(Stored!k_digits, Stored!k_digit_cipher, 10, 48, 57)
      BY <3>1, Ciphers, SMTT(30) DEF Cipher
    <3>4. PICK N, low, high : N = 10 /\ low = 48 /\ high = 57
      OBVIOUS
    <3>5. Cipher(Stored!k_digits, Stored!k_digit_cipher, N, low, high) /\ ch \in low .. high
      BY <1>3, <3>3, <3>4
    <3>6. /\ M \in low .. high
          /\ Stored!map_char(M, Stored!k_digit_cipher, Stored!k_digits) = ch
      BY <3>5, ThereAndBack
    <3> QED BY <3>4, <3>6
  <2> HIDE DEF M
  <2>2. F = M
    BY <1>3 DEF Stored!map_forward, M
  <2>3. Stored!map_reverse(M) = ch
    BY <2>1 DEF Stored!map_reverse
  <2> QED BY <1>3, <2>1, <2>2, <2>3
<1>4. CASE ch \notin 97 .. 122 /\ ch \notin 65 .. 90 /\ ch \notin 48 .. 57
  <2>1. F = ch
    BY <1>4 DEF Stored!map_forward
  <2>2. Stored!map_reverse(ch) = ch
    BY <1>4 DEF Stored!map_reverse
  <2> QED BY <2>1, <2>2
<1> QED BY <1>1, <1>2, <1>3, <1>4

\* What Rest(t) is, of a text that is not empty: it ends within or after the n-th
\* character, and leaving some of it again changes nothing.
LEMMA RestFacts ==
    ASSUME NEW t \in Seq(Nat), t # <<>>, NEW n, Cut(t, n)
    PROVE  /\ n \in 1 .. Len(t) /\ Rest(t) = Left(t, n, Held(t))
           /\ Rest(t) \in Seq(Nat) /\ Len(Rest(t)) = n /\ Rest(t) # <<>>
           /\ Held(Rest(t)) = Held(t) /\ Cut(Rest(t), n) /\ Rest(Rest(t)) = Rest(t)
<1> DEFINE r == Rest(t)
           E(u, m) == Stored!Extent(u, m)
           L == Held(t)
<1>1. PICK j \in 1 .. Len(t) : Cut(t, j) /\ Rest(t) = Left(t, j, Held(t)) /\ \A m : Cut(t, m) => m = j
  BY HeldFacts
<1>2. n = j
  BY <1>1
<1>3. n \in 1 .. Len(t) /\ r = Left(t, n, L) /\ Len(t) \in Nat
  BY <1>1, <1>2
<1>4. E(t, n - 1) < L /\ L <= E(t, n)
  BY DEF Cut
<1>5. /\ r \in Seq(Nat) /\ Len(r) = n /\ r # <<>>
      /\ \A m \in 1 .. n : r[m] = IF m = n /\ L < E(t, n) THEN Stored!Replacement ELSE t[m]
  <2>1. \A m \in 1 .. n : (IF m = n /\ L < E(t, n) THEN Stored!Replacement ELSE t[m]) \in Nat
    BY <1>3 DEF Stored!Replacement
  <2>2. r \in [1 .. n -> Nat] /\ \A m \in 1 .. n : r[m] = IF m = n /\ L < E(t, n) THEN Stored!Replacement ELSE t[m]
    BY <1>3, <2>1 DEF Left
  <2>3. n \in Nat /\ n # 0
    BY <1>3
  <2> HIDE DEF r
  <2>4. r \in Seq(Nat) /\ DOMAIN r = 1 .. n
    BY <2>2, <2>3, SeqDef
  <2>5. Len(r) = n
    BY <2>3, <2>4, LenProperties
  <2> QED BY <2>2, <2>3, <2>4, <2>5, EmptySeq
<1>a. n - 1 \in Nat /\ n - 1 \in 0 .. n - 1 /\ n - 1 <= Len(t) /\ n \in 0 .. Len(t) /\ n - 1 \in 0 .. Len(t) /\ n # 0 /\ n \in Nat
  BY <1>3
<1>6. E(r, n - 1) = E(t, n - 1)
  <2>1. n - 1 <= Len(r) /\ Alike(t, r, n - 1)
    <3>1. \A m \in 1 .. n - 1 : m \in 1 .. n /\ m # n
      BY <1>a
    <3>2. \A m \in 1 .. n - 1 : r[m] = t[m]
      BY <1>5, <3>1
    <3> QED BY <1>5, <1>a, <3>2, SMTT(30) DEF Alike
  <2> QED BY <1>5, <1>a, <2>1, ExtentAlike
<1>7. /\ E(t, n) = E(t, n - 1) + Stored!Width(t[n]) /\ E(t, n - 1) \in Nat /\ E(t, n) \in Nat
      /\ E(r, n) = E(r, n - 1) + Stored!Width(r[n]) /\ E(r, n) \in Nat
  <2>1. E(t, n) = E(t, n - 1) + Stored!Width(t[n]) /\ E(t, n) \in Nat
    BY <1>a, ExtentFacts
  <2>2. n \in 0 .. Len(r)
    BY <1>5, <1>a
  <2>3. E(r, n) = E(r, n - 1) + Stored!Width(r[n]) /\ E(r, n) \in Nat
    BY <1>5, <1>a, <2>2, ExtentFacts
  <2>4. E(t, n - 1) \in Nat
    BY <1>a, ExtentFacts
  <2> QED BY <2>1, <2>3, <2>4
<1>8. L \in Nat /\ L < Size /\ L \in 1 .. E(t, Len(t)) /\ Size \in Nat
  <2>1. L \in Nat /\ L < Size /\ L \in 1 .. E(t, Len(t))
    BY HeldFacts
  <2>2. Size \in Nat
    BY TextAssumption
  <2> QED BY <2>1, <2>2
<1>9. L = IF E(t, Len(t)) < Size THEN E(t, Len(t)) ELSE Size - 1
  BY DEF Held
<1>10. Held(r) = IF E(r, n) < Size THEN E(r, n) ELSE Size - 1
  BY <1>5 DEF Held
<1>11. E(t, n) + (Len(t) - n) <= E(t, Len(t)) /\ E(t, Len(t)) \in Nat
  <2>1. Len(t) \in 0 .. Len(t)
    BY <1>3
  <2> QED BY <1>a, <2>1, ExtentFacts
<1> HIDE DEF r, E, L
<1>12. /\ L < E(t, n) => E(r, n) = E(t, n - 1) + 3 /\ L = Size - 1 /\ L < E(r, n)
       /\ ~(L < E(t, n)) => E(r, n) = E(t, n) /\ L = E(r, n)
  <2>1. ASSUME L < E(t, n) PROVE E(r, n) = E(t, n - 1) + 3 /\ L = Size - 1 /\ L < E(r, n)
    <3>1. r[n] = Stored!Replacement
      BY <1>5, <1>a, <2>1
    <3>2. Stored!Width(r[n]) = 3
      BY <3>1 DEF Stored!Width, Stored!Replacement, Stored!TwoBytes, Stored!ThreeBytes
    <3>3. Stored!Width(t[n]) \in 1 .. 3
      BY DEF Stored!Width
    <3>4. PICK w \in 1 .. 3 : w = Stored!Width(t[n])
      BY <3>3
    <3>5. E(t, n) = E(t, n - 1) + w /\ E(r, n) = E(t, n - 1) + 3
      BY <1>6, <1>7, <3>2, <3>4
    <3>6. L = Size - 1
      BY <1>3, <1>7, <1>8, <1>9, <1>11, <2>1, SMTT(30)
    <3> QED BY <1>7, <1>8, <2>1, <3>5, <3>6, SMTT(30)
  <2>2. ASSUME ~(L < E(t, n)) PROVE E(r, n) = E(t, n) /\ L = E(r, n)
    <3>1. r[n] = t[n]
      BY <1>5, <1>a, <2>2
    <3> QED BY <1>4, <1>6, <1>7, <1>8, <2>2, <3>1
  <2> QED BY <2>1, <2>2
<1>13. Held(r) = L
  BY <1>7, <1>8, <1>10, <1>12, SMTT(30)
<1>14. Cut(r, n)
  <2>1. n \in 1 .. Len(r) /\ E(r, n - 1) < L /\ L <= E(r, n)
    BY <1>4, <1>5, <1>6, <1>7, <1>8, <1>a, <1>12
  <2> QED BY <1>13, <2>1 DEF Cut, E
<1>15. Rest(r) = r
  <2>1. PICK k \in 1 .. Len(r) : Cut(r, k) /\ Rest(r) = Left(r, k, Held(r)) /\ \A m : Cut(r, m) => m = k
    BY <1>5, HeldFacts
  <2>2. k = n
    BY <1>14, <2>1
  <2>3. Rest(r) = [m \in 1 .. n |-> IF m = n /\ L < E(r, n) THEN Stored!Replacement ELSE r[m]]
    BY <1>13, <2>1, <2>2 DEF Left, E
  <2>4. \A m \in 1 .. n : (IF m = n /\ L < E(r, n) THEN Stored!Replacement ELSE r[m]) = r[m]
    BY <1>5, <1>7, <1>8, <1>12
  <2>5. Rest(r) = [m \in 1 .. n |-> r[m]]
    BY <2>3, <2>4
  <2>6. r = [m \in 1 .. n |-> r[m]]
    BY <1>5
  <2> QED BY <2>5, <2>6
<1> QED BY <1>3, <1>5, <1>13, <1>14, <1>15 DEF r, L

\* What is shown of a text that had to pass the field: all of it, if it fits.
LEMMA RestIsPrefix ==
    ASSUME NEW t \in Seq(Nat), t # <<>>
    PROVE  \/ Rest(t) = t
           \/ /\ Len(Stored!Encode(t)) >= Size
              /\ \/ Stored!IsPrefix(Rest(t), t)
                 \/ /\ Rest(t)[Len(Rest(t))] = Stored!Replacement
                    /\ Stored!IsPrefix(Stored!Front(Rest(t)), t)
<1> DEFINE r == Rest(t)
           X == Stored!Extent(t, Len(t))
           L == Held(t)
<1>1. PICK n \in 1 .. Len(t) : Cut(t, n)
  BY HeldFacts
<1>2. r \in Seq(Nat) /\ Len(r) = n /\ r = Left(t, n, L)
  BY <1>1, RestFacts
<1>3. n \in Nat /\ n >= 1 /\ n <= Len(t) /\ Len(t) \in Nat
  OBVIOUS
<1>4. \A m \in 1 .. n : r[m] = IF m = n /\ L < Stored!Extent(t, n) THEN Stored!Replacement ELSE t[m]
  BY <1>2 DEF Left
<1>5. L = IF X < Size THEN X ELSE Size - 1
  BY DEF Held
<1>6. X \in Nat /\ Len(Stored!Encode(t)) = X /\ Size \in Nat
  <2>1. X \in Nat /\ Len(Stored!Encode(t)) = X
    BY EncodeFacts
  <2>2. Size \in Nat
    BY TextAssumption
  <2> QED BY <2>1, <2>2
<1>7. Stored!Extent(t, n) + (Len(t) - n) <= X /\ Stored!Extent(t, n) \in Nat
  <2>1. Len(t) \in 0 .. Len(t) /\ n \in 0 .. Len(t)
    BY <1>3
  <2> QED BY <2>1, ExtentFacts
<1>8. L <= Stored!Extent(t, n) /\ L \in Nat
  BY <1>1, HeldFacts DEF Cut
<1> HIDE DEF r, X, L
<1>9. CASE X < Size
  <2>1. n = Len(t) /\ ~(L < Stored!Extent(t, n))
    BY <1>3, <1>5, <1>6, <1>7, <1>8, <1>9
  <2>2. \A m \in 1 .. n : r[m] = t[m]
    BY <1>4, <2>1
  <2>3. r = t
    BY <1>2, <2>1, <2>2, SeqEqual
  <2> QED BY <2>3 DEF r
<1>10. CASE ~(X < Size) /\ ~(L < Stored!Extent(t, n))
  <2>1. \A m \in 1 .. n : r[m] = t[m]
    BY <1>4, <1>10
  <2>2. SubSeq(r, 1, n) = SubSeq(t, 1, n)
    BY <1>2, <1>3, <2>1
  <2>3. Stored!IsPrefix(r, t)
    BY <1>2, <1>3, <2>2 DEF Stored!IsPrefix
  <2> QED BY <1>6, <1>10, <2>3 DEF r
<1>11. CASE ~(X < Size) /\ L < Stored!Extent(t, n)
  <2>1. \A m \in 1 .. n - 1 : r[m] = t[m]
    <3>1. \A m \in 1 .. n - 1 : m \in 1 .. n /\ m # n
      BY <1>3
    <3> QED BY <1>4, <3>1
  <2>2. r[n] = Stored!Replacement
    BY <1>3, <1>4, <1>11
  <2> DEFINE f == SubSeq(r, 1, n - 1)
  <2>3. f \in Seq(Nat) /\ Len(f) = n - 1 /\ \A m \in 1 .. n - 1 : f[m] = t[m]
    BY <1>2, <1>3, <2>1, SMTT(30)
  <2>4. Stored!Front(r) = f
    BY <1>2 DEF Stored!Front
  <2> HIDE DEF f
  <2>5. SubSeq(f, 1, n - 1) = SubSeq(t, 1, n - 1)
    BY <1>3, <2>3
  <2>6. Stored!IsPrefix(f, t)
    BY <1>3, <2>3, <2>5 DEF Stored!IsPrefix
  <2> QED BY <1>2, <1>6, <1>11, <2>2, <2>4, <2>6 DEF r
<1> QED BY <1>9, <1>10, <1>11

\* A text after the driver's substitution.
Fwd(t) == [m \in DOMAIN t |-> Stored!map_forward(t[m])]

\* The substitution keeps every character's width, so the same bytes are cut.
LEMMA FwdFacts ==
    ASSUME NEW t \in Seq(Nat), t # <<>>
    PROVE  /\ Fwd(t) \in Seq(Nat) /\ Len(Fwd(t)) = Len(t) /\ Fwd(t) # <<>>
           /\ \A m \in 1 .. Len(t) : Fwd(t)[m] = Stored!map_forward(t[m])
           /\ \A m \in 0 .. Len(t) : Stored!Extent(Fwd(t), m) = Stored!Extent(t, m)
           /\ Held(Fwd(t)) = Held(t)
           /\ \A n : Cut(Fwd(t), n) <=> Cut(t, n)
<1> DEFINE u == Fwd(t)
<1>0. Len(t) \in Nat /\ DOMAIN t = 1 .. Len(t) /\ Len(t) # 0 /\ Len(t) \in 0 .. Len(t)
  BY EmptySeq
<1>1. \A m \in 1 .. Len(t) : t[m] \in Nat /\ Stored!map_forward(t[m]) \in Nat
  <2>1. \A m \in 1 .. Len(t) : t[m] \in Nat
    OBVIOUS
  <2>2. \A c \in Nat : Stored!map_forward(c) \in Nat
    BY MapFacts, Zenon
  <2> QED BY <2>1, <2>2, Zenon
<1>2. u \in [1 .. Len(t) -> Nat] /\ \A m \in 1 .. Len(t) : u[m] = Stored!map_forward(t[m])
  BY <1>0, <1>1 DEF Fwd
<1> HIDE DEF u
<1>3. u \in Seq(Nat) /\ Len(u) = Len(t) /\ u # <<>>
  <2>1. u \in Seq(Nat) /\ DOMAIN u = 1 .. Len(t)
    BY <1>0, <1>2, SeqDef
  <2>2. Len(u) = Len(t)
    BY <1>0, <2>1, LenProperties
  <2> QED BY <1>0, <2>1, <2>2, EmptySeq
<1>4. Alike(t, u, Len(t))
  <2> SUFFICES ASSUME NEW m \in 1 .. Len(t)
               PROVE  /\ t[m] >= Stored!TwoBytes <=> u[m] >= Stored!TwoBytes
                      /\ t[m] >= Stored!ThreeBytes <=> u[m] >= Stored!ThreeBytes
    BY DEF Alike
  <2>1. t[m] \in Nat /\ u[m] \in Nat /\ u[m] = Stored!map_forward(t[m])
    BY <1>1, <1>2
  <2>2. (t[m] < 128 <=> u[m] < 128) /\ (t[m] >= 128 => u[m] = t[m])
    <3>1. \A c \in Nat : /\ c < 128 <=> Stored!map_forward(c) < 128
                         /\ c >= 128 => Stored!map_forward(c) = c
      BY MapFacts, Zenon
    <3> QED BY <2>1, <3>1
  <2> QED BY <2>1, <2>2 DEF Stored!TwoBytes, Stored!ThreeBytes
<1>5. \A m \in 0 .. Len(t) : Stored!Extent(u, m) = Stored!Extent(t, m)
  BY <1>0, <1>3, <1>4, ExtentAlike
<1>6. Held(u) = Held(t)
  BY <1>0, <1>3, <1>5 DEF Held
<1>7. ASSUME NEW n PROVE Cut(u, n) <=> Cut(t, n)
  <2>1. n \in 1 .. Len(t) => n \in 0 .. Len(t) /\ n - 1 \in 0 .. Len(t)
    BY <1>0
  <2> QED BY <1>3, <1>5, <1>6, <2>1 DEF Cut
<1> QED BY <1>2, <1>3, <1>5, <1>6, <1>7 DEF u

\* What is left of a substituted text is the substituted rest.
LEMMA FwdRest ==
    ASSUME NEW t \in Seq(Nat), t # <<>>
    PROVE  Rest(Fwd(t)) = Fwd(Rest(t)) /\ Rest(t) \in Seq(Nat) /\ Rest(t) # <<>> /\ Rest(Rest(t)) = Rest(t)
<1> DEFINE u == Fwd(t)  r == Rest(t)  L == Held(t)
<1>1. PICK n \in 1 .. Len(t) : Cut(t, n)
  BY HeldFacts
<1>2. /\ r \in Seq(Nat) /\ Len(r) = n /\ r # <<>> /\ r = Left(t, n, L) /\ Rest(r) = r
  BY <1>1, RestFacts
<1>3. u \in Seq(Nat) /\ u # <<>> /\ Cut(u, n) /\ Held(u) = L /\ Stored!Extent(u, n) = Stored!Extent(t, n)
  <2>1. n \in 0 .. Len(t)
    OBVIOUS
  <2> QED BY <1>1, <2>1, FwdFacts
<1>4. Rest(u) = Left(u, n, L)
  BY <1>3, RestFacts
<1>5. \A m \in 1 .. n : u[m] = Stored!map_forward(t[m])
  BY <1>1, FwdFacts
<1>6. Stored!map_forward(Stored!Replacement) = Stored!Replacement
  <2>1. PICK c \in Nat : c = Stored!Replacement /\ c >= 128
    BY DEF Stored!Replacement
  <2>2. Stored!map_forward(c) = c
    BY <2>1, MapFacts
  <2> QED BY <2>1, <2>2
<1>7. Fwd(r) = [m \in 1 .. n |-> Stored!map_forward(r[m])]
  BY <1>2 DEF Fwd
<1>8. \A m \in 1 .. n : Stored!map_forward(r[m]) =
                        IF m = n /\ L < Stored!Extent(u, n) THEN Stored!Replacement ELSE u[m]
  <2>1. \A m \in 1 .. n : r[m] = IF m = n /\ L < Stored!Extent(t, n) THEN Stored!Replacement ELSE t[m]
    BY <1>2 DEF Left
  <2> HIDE DEF r, u, L
  <2> QED BY <1>3, <1>5, <1>6, <2>1
<1>9. Left(u, n, L) = Fwd(r)
  BY <1>7, <1>8 DEF Left
<1> QED BY <1>2, <1>4, <1>9

\* The byte that the loops make of byte b.
Turned(b, mapped) == IF b.code < 128 THEN [code |-> mapped, k |-> 1] ELSE b

\* Byte by byte: the ASCII bytes are substituted, and substituted back.
LEMMA FwdBytes ==
    ASSUME NEW t \in Seq(Nat), t # <<>>, NEW p \in 1 .. Stored!Extent(t, Len(t))
    PROVE  /\ Stored!Encode(t)[p] = Turned(Stored!Encode(Fwd(t))[p], Stored!map_reverse(Stored!Encode(Fwd(t))[p].code))
           /\ Stored!Encode(Fwd(t))[p] = Turned(Stored!Encode(t)[p], Stored!map_forward(Stored!Encode(t)[p].code))
           /\ Stored!Encode(t)[p] \in [code : Nat, k : Nat]
           /\ Stored!Encode(Fwd(t))[p] \in [code : Nat, k : Nat]
<1> DEFINE u == Fwd(t)
           E(m) == Stored!Extent(t, m)
           a == Stored!Encode(t)[p]
           c == Stored!Encode(u)[p]
<1>1. PICK n \in 1 .. Len(t) : E(n - 1) < p /\ p <= E(n)
  BY BytePlace
<1>2. n \in 0 .. Len(t) /\ n - 1 \in 0 .. Len(t) /\ Len(t) \in 0 .. Len(t) /\ n # 0
  OBVIOUS
<1>3. E(n) \in Nat /\ E(n - 1) \in Nat /\ E(n) = E(n - 1) + Stored!Width(t[n])
  BY <1>2, ExtentFacts
<1>4. /\ u \in Seq(Nat) /\ Len(u) = Len(t) /\ u[n] = Stored!map_forward(t[n])
      /\ Stored!Extent(u, n) = E(n) /\ Stored!Extent(u, n - 1) = E(n - 1)
      /\ Stored!Extent(u, Len(u)) = E(Len(t))
  BY <1>2, FwdFacts
<1>5. a = [code |-> t[n], k |-> p - E(n - 1)]
  BY <1>1, EncodeFacts
<1>6. c = [code |-> u[n], k |-> p - E(n - 1)]
  <2>1. n \in 1 .. Len(u) /\ p \in 1 .. Stored!Extent(u, Len(u)) /\ Stored!Extent(u, n - 1) < p /\ p <= Stored!Extent(u, n)
    BY <1>1, <1>4
  <2>2. c = [code |-> u[n], k |-> p - Stored!Extent(u, n - 1)]
    BY <1>4, <2>1, EncodeFacts
  <2> QED BY <1>4, <2>2
<1>7. t[n] \in Nat /\ u[n] \in Nat
  BY <1>4, SMTT(30)
<1>8. p - E(n - 1) \in Nat
  BY <1>1, <1>3, SMTT(30)
<1>9. /\ Stored!map_reverse(u[n]) = t[n] /\ (t[n] < 128 <=> u[n] < 128) /\ (t[n] >= 128 => u[n] = t[n])
  BY <1>4, <1>7, MapFacts
<1>10. t[n] < 128 => p - E(n - 1) = 1
  <2>1. t[n] < 128 => Stored!Width(t[n]) = 1
    BY DEF Stored!Width, Stored!TwoBytes
  <2> HIDE DEF E
  <2> QED BY <1>1, <1>3, <2>1
<1> HIDE DEF u, E
<1>11. /\ c = IF a.code < 128 THEN [code |-> Stored!map_forward(a.code), k |-> 1] ELSE a
       /\ a = IF c.code < 128 THEN [code |-> Stored!map_reverse(c.code), k |-> 1] ELSE c
  <2>1. a.code = t[n] /\ c.code = u[n] /\ u[n] = Stored!map_forward(t[n])
    BY <1>4, <1>5, <1>6
  <2>2. CASE t[n] < 128
    <3>1. a = [code |-> t[n], k |-> 1] /\ c = [code |-> u[n], k |-> 1] /\ u[n] < 128
      BY <1>5, <1>6, <1>9, <1>10, <2>2
    <3> QED BY <1>9, <2>1, <2>2, <3>1
  <2>3. CASE ~(t[n] < 128)
    <3>1. u[n] = t[n] /\ ~(u[n] < 128)
      BY <1>7, <1>9, <2>3
    <3> QED BY <1>5, <1>6, <2>1, <2>3, <3>1
  <2> QED BY <2>2, <2>3
<1>12. a \in [code : Nat, k : Nat] /\ c \in [code : Nat, k : Nat]
  BY <1>5, <1>6, <1>7, <1>8
<1>13. c = Turned(a, Stored!map_forward(a.code)) /\ a = Turned(c, Stored!map_reverse(c.code))
  BY <1>11, Zenon DEF Turned
<1> QED BY <1>12, <1>13, Zenon DEF u

\* While the driver works: the field holds t, and o is as far the beginning of u, of the
\* same widths.
Filling(p, o, t, u) ==
    /\ t \in Seq(Nat) /\ t # <<>> /\ u \in Seq(Nat) /\ u # <<>>
    /\ Held(u) = Held(t) /\ Stored!Extent(u, Len(u)) = Stored!Extent(t, Len(t))
    /\ p = Stored!CString(t)
    /\ o \in Seq([code : Nat, k : Nat]) /\ Len(o) <= Held(t)
    /\ \A q \in 1 .. Len(o) : o[q] = Stored!Encode(u)[q]

LEMMA FillingStarts ==
    ASSUME NEW t \in Seq(Nat), t # <<>>, NEW u \in Seq(Nat), u # <<>>,
           Held(u) = Held(t), Stored!Extent(u, Len(u)) = Stored!Extent(t, Len(t))
    PROVE  Filling(Stored!CString(t), <<>>, t, u)
<1>1. Held(t) \in Nat
  BY HeldFacts
<1>2. <<>> \in Seq([code : Nat, k : Nat]) /\ Len(<<>>) = 0
  OBVIOUS
<1> QED BY <1>1, <1>2 DEF Filling

LEMMA FillingGrows ==
    ASSUME NEW p, NEW o, NEW t, NEW u, Filling(p, o, t, u), Len(o) # Len(p),
           NEW c \in [code : Nat, k : Nat], c = Stored!Encode(u)[Len(o) + 1]
    PROVE  Filling(p, Append(o, c), t, u)
<1>1. Len(p) = Held(t) /\ Held(t) \in Nat
  BY HeldFacts DEF Filling
<1>2. o \in Seq([code : Nat, k : Nat]) /\ Len(o) <= Held(t)
  BY DEF Filling
<1>3. /\ Append(o, c) \in Seq([code : Nat, k : Nat]) /\ Len(Append(o, c)) = Len(o) + 1 /\ Len(o) + 1 <= Held(t)
      /\ \A q \in 1 .. Len(o) : Append(o, c)[q] = o[q]
      /\ Append(o, c)[Len(o) + 1] = c
  <2>1. Len(o) \in Nat /\ Len(o) + 1 <= Held(t)
    BY <1>1, <1>2
  <2> QED BY <1>2, <2>1, AppendProperties
<1>4. \A q \in 1 .. Len(o) + 1 : Append(o, c)[q] = Stored!Encode(u)[q]
  <2>1. \A q \in 1 .. Len(o) + 1 : q \in 1 .. Len(o) \/ q = Len(o) + 1
    BY <1>2
  <2> QED BY <1>3, <2>1 DEF Filling
<1> QED BY <1>3, <1>4 DEF Filling

\* The next byte of the field is one of t's.
LEMMA NextByte ==
    ASSUME NEW p, NEW o, NEW t, NEW u, Filling(p, o, t, u), Len(o) # Len(p)
    PROVE  /\ Len(o) + 1 \in 1 .. Stored!Extent(t, Len(t))
           /\ p[Len(o) + 1] = Stored!Encode(t)[Len(o) + 1]
<1>1. /\ Len(p) = Held(t) /\ Held(t) \in Nat /\ Held(t) \in 1 .. Stored!Extent(t, Len(t))
      /\ \A q \in 1 .. Held(t) : p[q] = Stored!Encode(t)[q]
  BY HeldFacts DEF Filling
<1>2. Len(o) \in Nat /\ Len(o) <= Held(t)
  BY DEF Filling
<1>3. Len(o) + 1 \in 1 .. Held(t)
  BY <1>1, <1>2
<1>4. Stored!Extent(t, Len(t)) \in Nat
  BY EncodeFacts DEF Filling
<1> QED BY <1>1, <1>3, <1>4

\* At the end the answer is what the field left of u.
LEMMA FillingEnds ==
    ASSUME NEW p, NEW o, NEW t, NEW u, Filling(p, o, t, u), Len(o) = Len(p) \/ Len(o) + 1 >= Size
    PROVE  Stored!Decode(o) = Rest(u)
<1>1. Len(p) = Held(t) /\ Held(t) \in Nat /\ Held(t) < Size
  BY HeldFacts DEF Filling
<1>2. /\ u \in Seq(Nat) /\ u # <<>> /\ Held(u) = Held(t)
      /\ o \in Seq([code : Nat, k : Nat]) /\ Len(o) <= Held(t)
      /\ \A q \in 1 .. Len(o) : o[q] = Stored!Encode(u)[q]
  BY DEF Filling
<1>3. Len(o) = Held(u)
  <2>1. Size \in Nat
    BY TextAssumption
  <2> QED BY <1>1, <1>2, <2>1
<1>4. PICK n \in 1 .. Len(u) : Cut(u, n) /\ Rest(u) = Left(u, n, Held(u))
  BY <1>2, HeldFacts
<1>5. SameStart(o, Len(o), u)
  <2>1. Held(u) \in 1 .. Stored!Extent(u, Len(u)) /\ Stored!Extent(u, Len(u)) \in Nat
    BY <1>2, HeldFacts, EncodeFacts
  <2> QED BY <1>2, <1>3, <2>1 DEF SameStart
<1>6. Stored!Extent(u, n - 1) < Len(o) /\ Len(o) <= Stored!Extent(u, n)
  BY <1>3, <1>4 DEF Cut
<1>7. Stored!Decode(o) = Left(u, n, Len(o))
  BY <1>2, <1>4, <1>5, <1>6, DecodeFacts
<1> QED BY <1>3, <1>4, <1>7

\* A message is stored as it is, or as the driver's answer to what the field held of it,
\* unless the answer was another call's.
StoredInv ==
    /\ content \in Seq(Nat)
    /\ phase \in {"send", "forward", "stored", "reverse", "shown"}
    /\ phase = "forward" => Filling(payload, out, content, Fwd(content))
    /\ phase \in {"stored", "reverse", "shown"} /\ "stored" \notin foreign =>
         \/ stored = [content |-> content, state |-> "legacy"]
         \/ stored = [content |-> Fwd(Rest(content)), state |-> "encrypted"] /\ content # <<>>
    /\ phase = "reverse" /\ "stored" \notin foreign =>
         stored.state = "encrypted" /\ Filling(payload, out, Fwd(Rest(content)), Rest(content))
    /\ phase = "shown" /\ foreign = {} =>
         \/ display = Stored!Failure
         \/ stored.state = "legacy" /\ display = content
         \/ stored.state = "encrypted" /\ display = Rest(content)

LEMMA StoredInit == Stored!Init => StoredInv
<1>1. CodePoints \subseteq Nat
  BY DEF CodePoints
<1>2. ASSUME NEW t \in Seq(CodePoints) PROVE t \in Seq(Nat)
  BY <1>1, SeqMonotonic
<1> QED BY <1>2, TextAssumption DEF Stored!Init, StoredInv

LEMMA StoredStep == StoredInv /\ [Stored!Next]_(Stored!vars) => StoredInv'
<1> SUFFICES ASSUME StoredInv, [Stored!Next]_(Stored!vars) PROVE StoredInv'
  OBVIOUS
<1>1. CASE Stored!StorePlain
  BY <1>1 DEF Stored!StorePlain, StoredInv
<1>2. CASE Stored!Encrypt
  <2>1. content \in Seq(Nat) /\ content # <<>> /\ content' = content /\ phase' = "forward"
        /\ payload' = Stored!CString(content) /\ out' = <<>>
    BY <1>2 DEF Stored!Encrypt, StoredInv
  <2>2. /\ Fwd(content) \in Seq(Nat) /\ Fwd(content) # <<>> /\ Held(Fwd(content)) = Held(content)
        /\ Stored!Extent(Fwd(content), Len(Fwd(content))) = Stored!Extent(content, Len(content))
    <3>1. Len(content) \in 0 .. Len(content)
      BY <2>1
    <3> QED BY <2>1, <3>1, FwdFacts
  <2>3. Filling(Stored!CString(content), <<>>, content, Fwd(content))
    BY <2>1, <2>2, FillingStarts
  <2> QED BY <2>1, <2>3 DEF StoredInv
<1>3. CASE Stored!ForwardStep
  <2> DEFINE ch == payload[Len(out) + 1]
             c == Turned(ch, Stored!map_forward(ch.code))
  <2>1. /\ phase = "forward" /\ Len(out) # Len(payload) /\ out' = Append(out, c)
        /\ UNCHANGED <<content, phase, payload, stored, display, foreign>>
    BY <1>3 DEF Turned, Stored!ForwardStep, Stored!Loop, Stored!AtEnd, Stored!Char
  <2>2. Filling(payload, out, content, Fwd(content))
    BY <2>1 DEF StoredInv
  <2>3. content \in Seq(Nat) /\ content # <<>>
    BY <2>2 DEF Filling
  <2>4. Len(out) + 1 \in 1 .. Stored!Extent(content, Len(content)) /\ ch = Stored!Encode(content)[Len(out) + 1]
    BY <2>1, <2>2, NextByte
  <2>5. c = Stored!Encode(Fwd(content))[Len(out) + 1] /\ c \in [code : Nat, k : Nat]
    BY <2>3, <2>4, FwdBytes, Zenon
  <2> HIDE DEF c
  <2>6. Filling(payload, Append(out, c), content, Fwd(content))
    BY <2>1, <2>2, <2>5, FillingGrows
  <2> QED BY <2>1, <2>3, <2>6 DEF StoredInv
<1>4. CASE Stored!Store
  <2>1. /\ phase = "forward" /\ phase' = "stored" /\ (Len(out) = Len(payload) \/ Len(out) + 1 >= Size)
        /\ stored' = [content |-> Stored!Decode(out), state |-> "encrypted"] /\ content' = content
    BY <1>4 DEF Stored!Store, Stored!AtEnd
  <2>2. Filling(payload, out, content, Fwd(content))
    BY <2>1 DEF StoredInv
  <2>3. Stored!Decode(out) = Rest(Fwd(content))
    BY <2>1, <2>2, FillingEnds
  <2>4. content \in Seq(Nat) /\ content # <<>>
    BY <2>2 DEF Filling
  <2>5. stored' = [content |-> Fwd(Rest(content)), state |-> "encrypted"]
    BY <2>1, <2>3, <2>4, FwdRest
  <2> QED BY <2>1, <2>4, <2>5 DEF StoredInv
<1>5. CASE Stored!Refused
  BY <1>5 DEF Stored!Refused, StoredInv
<1>6. CASE Stored!Reconfigure
  BY <1>6 DEF Stored!Reconfigure, StoredInv
<1>7. CASE Stored!Show
  BY <1>7 DEF Stored!Show, Stored!Encrypted, StoredInv
<1>8. CASE Stored!Decrypt /\ "stored" \notin foreign
  <2>1. /\ content \in Seq(Nat) /\ content # <<>> /\ phase' = "reverse" /\ UNCHANGED <<content, stored, foreign>>
        /\ stored = [content |-> Fwd(Rest(content)), state |-> "encrypted"]
        /\ payload' = Stored!CString(Fwd(Rest(content))) /\ out' = <<>>
    BY <1>8 DEF Stored!Decrypt, Stored!Encrypted, StoredInv
  <2>2. Rest(content) \in Seq(Nat) /\ Rest(content) # <<>>
    BY <2>1, FwdRest
  <2> DEFINE r == Rest(content)
  <2>3. /\ Fwd(r) \in Seq(Nat) /\ Fwd(r) # <<>> /\ Held(r) = Held(Fwd(r))
        /\ Stored!Extent(r, Len(r)) = Stored!Extent(Fwd(r), Len(Fwd(r)))
    <3>1. Len(r) \in 0 .. Len(r)
      BY <2>2
    <3> HIDE DEF r
    <3> QED BY <2>2, <3>1, FwdFacts DEF r
  <2>4. Filling(Stored!CString(Fwd(r)), <<>>, Fwd(r), r)
    BY <2>2, <2>3, FillingStarts
  <2> QED BY <2>1, <2>4 DEF StoredInv
<1>9. CASE Stored!BackwardStep /\ "stored" \notin foreign
  <2> DEFINE ch == payload[Len(out) + 1]
             c == Turned(ch, Stored!map_reverse(ch.code))
             r == Rest(content)
  <2>1. /\ phase = "reverse" /\ Len(out) # Len(payload) /\ out' = Append(out, c)
        /\ UNCHANGED <<content, phase, payload, stored, display, foreign>>
    BY <1>9 DEF Turned, Stored!BackwardStep, Stored!Loop, Stored!AtEnd, Stored!Char
  <2>2. Filling(payload, out, Fwd(r), r) /\ stored.state = "encrypted"
    BY <1>9, <2>1 DEF StoredInv
  <2>3. r \in Seq(Nat) /\ r # <<>>
    BY <2>2 DEF Filling
  <2>4. Len(out) + 1 \in 1 .. Stored!Extent(Fwd(r), Len(Fwd(r))) /\ ch = Stored!Encode(Fwd(r))[Len(out) + 1]
    BY <2>1, <2>2, NextByte
  <2>5. Stored!Extent(Fwd(r), Len(Fwd(r))) = Stored!Extent(r, Len(r))
    BY <2>2 DEF Filling
  <2>6. c = Stored!Encode(r)[Len(out) + 1] /\ c \in [code : Nat, k : Nat]
    BY <2>3, <2>4, <2>5, FwdBytes, Zenon
  <2> HIDE DEF c
  <2>7. Filling(payload, Append(out, c), Fwd(r), r)
    BY <2>1, <2>2, <2>6, FillingGrows
  <2> QED BY <2>1, <2>2, <2>7 DEF StoredInv
<1>10. CASE Stored!ShowDecrypted /\ foreign = {}
  <2>1. /\ phase = "reverse" /\ phase' = "shown" /\ (Len(out) = Len(payload) \/ Len(out) + 1 >= Size)
        /\ display' = Stored!Decode(out) /\ UNCHANGED <<content, stored, foreign>>
    BY <1>10 DEF Stored!ShowDecrypted, Stored!AtEnd
  <2>2. Filling(payload, out, Fwd(Rest(content)), Rest(content)) /\ stored.state = "encrypted"
    BY <1>10, <2>1 DEF StoredInv
  <2>3. Stored!Decode(out) = Rest(Rest(content))
    BY <2>1, <2>2, FillingEnds
  <2>4. content \in Seq(Nat) /\ content # <<>>
    BY <1>10, <2>1, <2>2 DEF StoredInv
  <2>5. display' = Rest(content)
    BY <2>1, <2>3, <2>4, FwdRest
  <2> QED BY <2>1, <2>2, <2>5 DEF StoredInv
<1>11. CASE Stored!ShowFailure
  BY <1>11 DEF Stored!ShowFailure, StoredInv
<1>12. CASE Stored!Again
  BY <1>12 DEF Stored!Again, StoredInv
<1>13. CASE UNCHANGED Stored!vars
  BY <1>13 DEF Stored!vars, StoredInv
<1>14. CASE \/ Stored!Decrypt /\ "stored" \in foreign
            \/ Stored!BackwardStep /\ "stored" \in foreign
            \/ Stored!ShowDecrypted /\ foreign # {}
  BY <1>14 DEF Stored!Decrypt, Stored!BackwardStep, Stored!Loop, Stored!ShowDecrypted, StoredInv
<1>15. CASE Stored!StoreForeign
  BY <1>15 DEF Stored!StoreForeign, StoredInv
<1>16. CASE Stored!ShowForeign
  BY <1>16 DEF Stored!ShowForeign, StoredInv
<1> QED BY <1>1, <1>2, <1>3, <1>4, <1>5, <1>6, <1>7, <1>8, <1>9, <1>10, <1>11, <1>12, <1>13, <1>14, <1>15, <1>16
        DEF Stored!Next

\* What is shown where nothing failed: the text, or what the field left of one that
\* does not fit.
LEMMA ShownIsRest ==
    ASSUME StoredInv, Stored!Succeeded
    PROVE  \/ display = content
           \/ /\ stored.state = "encrypted" /\ ~Stored!Fits
              /\ \/ Stored!IsPrefix(display, content)
                 \/ /\ display[Len(display)] = Stored!Replacement
                    /\ Stored!IsPrefix(Stored!Front(display), content)
<1>1. CASE display = content
  BY <1>1
<1>2. CASE stored.state = "encrypted" /\ display = Rest(content)
  <2>1. content \in Seq(Nat) /\ content # <<>>
    BY <1>2 DEF StoredInv, Stored!Succeeded
  <2>2. Size \in Nat /\ Len(Stored!Encode(content)) \in Nat
    BY <2>1, EncodeFacts, TextAssumption
  <2> QED BY <1>2, <2>1, <2>2, RestIsPrefix DEF Stored!Fits
<1> QED BY <1>1, <1>2 DEF StoredInv, Stored!Succeeded

\* As long as each call of the driver is answered with its own result, a text that fits
\* into the field, or was stored without it, is shown exactly as it was sent, for every
\* text, size of the field, and number of restarts.
THEOREM TextsAreShown == Stored!Spec => []ShownAsSent
<1>1. StoredInv => ShownAsSent
  BY ShownIsRest DEF ShownAsSent, Stored!ShownAsSent
<1> QED BY <1>1, StoredInit, StoredStep, PTL DEF Stored!Spec

\* And of a text that does not fit, the end is lost and nothing else.
THEOREM OnlyTheEndIsLost == Stored!Spec => []Stored!OnlyEndLost
<1>1. StoredInv => Stored!OnlyEndLost
  BY ShownIsRest DEF Stored!OnlyEndLost
<1> QED BY <1>1, StoredInit, StoredStep, PTL DEF Stored!Spec
===============================================================================
