---------------------------- MODULE TypingPresence ----------------------------
(***************************************************************************)
(* Who is typing: the signals that peers' composers send, the gateway that *)
(* relays them to the conversation's room, and the indicator with its      *)
(* timer on the page of user Me.  Time advances in ticks; the browser's    *)
(* clock may be off the server's.  Timers fire when they are due or later. *)
(***************************************************************************)
EXTENDS Integers, Sequences

CONSTANTS
    Convs, Peers,
    Ttl,       \* 4000 ms in the code
    Skews,     \* the browser's clock minus the server's, one of
    MaxTime, MaxSignals, MaxInbox  \* bounds

VARIABLES
    now,      \* the server's clock
    skew,
    signals,  \* calls of typing_presence_updated that wait for their check
    sent,     \* how many there were
    inbox,    \* events on their way to Me
    typing,   \* typingByConversationId: the payload on display, or Nothing
    timer     \* the timeouts that are set: conversation and due time

vars == <<now, skew, signals, sent, inbox, typing, timer>>

Nothing == [conv |-> "none", peer |-> "none", isTyping |-> FALSE, expires |-> 0]
BrowserNow == now + skew

Init ==
    /\ now = 0 /\ skew \in Skews /\ signals = {} /\ sent = 0
    /\ inbox = <<>>
    /\ typing = [c \in Convs |-> Nothing] /\ timer = {}

\* A keystroke that leaves text, one that leaves none, or a message sent.
Signal(p, c, isTyping) ==
    /\ sent < MaxSignals /\ sent' = sent + 1
    /\ signals' = signals \cup {[id |-> sent, peer |-> p, conv |-> c, isTyping |-> isTyping]}
    /\ UNCHANGED <<now, skew, inbox, typing, timer>>

\* handleTypingPresence of the gateway, once getRequiredActiveParticipant has
\* answered: calls of one socket may be answered in any order.
Relay(m) ==
    /\ m \in signals /\ signals' = signals \ {m}
    /\ now + Ttl <= MaxTime + skew  \* bound: time enough is left for it to expire
    /\ Len(inbox) < MaxInbox
    /\ inbox' = Append(inbox, [conv |-> m.conv, peer |-> m.peer, isTyping |-> m.isTyping,
                               expires |-> now + Ttl])
    /\ UNCHANGED <<now, skew, sent, typing, timer>>

\* toErrorAck to somebody who was removed or left, or Me is not in the room.
NotRelayed(m) ==
    /\ m \in signals /\ signals' = signals \ {m}
    /\ UNCHANGED <<now, skew, sent, inbox, typing, timer>>

-----------------------------------------------------------------------------

Later(x, y) == IF x > y THEN x ELSE y

\* Mutant: the running timeout is kept.
ClearNone(c) == timer

\* window.clearTimeout(existingTimeout).
ClearTimeout(c) == {t \in timer : t.conv # c}

Shown(e) == IF e.isTyping THEN e ELSE Nothing

\* handleTypingPresence of the page; it is never told of Me's own signals.
Receive ==
    LET e == Head(inbox)
        due == Later(e.expires, BrowserNow)
    IN /\ inbox # <<>> /\ inbox' = Tail(inbox)
       /\ typing' = [typing EXCEPT ![e.conv] = Shown(e)]
       /\ timer' = ClearTimeout(e.conv) \cup (IF e.isTyping THEN {[conv |-> e.conv, due |-> due]} ELSE {})
       /\ UNCHANGED <<now, skew, signals, sent>>

\* The timeout.
Fire(t) ==
    /\ t \in timer /\ t.due <= BrowserNow
    /\ typing' = [typing EXCEPT ![t.conv] = Nothing]
    /\ timer' = timer \ {t}
    /\ UNCHANGED <<now, skew, signals, sent, inbox>>

Tick ==
    /\ now < MaxTime /\ now' = now + 1
    /\ UNCHANGED <<skew, signals, sent, inbox, typing, timer>>

Next ==
    \/ \E p \in Peers, c \in Convs, isTyping \in BOOLEAN : Signal(p, c, isTyping)
    \/ \E m \in signals : Relay(m) \/ NotRelayed(m)
    \/ \E t \in timer : Fire(t)
    \/ Receive \/ Tick

Spec == Init /\ [][Next]_vars

-----------------------------------------------------------------------------
\* data-model.md: an indicator expires by itself if no signal follows, and peers
\* that are removed, lose their connection or close their page send none.  Peers
\* take turns and one slot per conversation holds the last of them: an indicator
\* on display always has its own timeout, the only one for its conversation, so
\* that no earlier peer's timeout can take it away.
OwnTimeout ==
    \A c \in Convs :
      LET mine == {t \in timer : t.conv = c}
      IN IF typing[c] = Nothing THEN mine = {}
         ELSE \E t \in mine : mine = {t} /\ t.due >= typing[c].expires
=============================================================================
