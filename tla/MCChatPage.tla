------------------------------ MODULE MCChatPage ------------------------------
(***************************************************************************)
(* The AI services, and five components that share no state with them or   *)
(* with each other, in one run: the initial state says which part a        *)
(* behaviour is about, and only the component of that part takes steps.    *)
(***************************************************************************)
EXTENDS AiServices, TLC, Integers, Sequences

CONSTANTS
    MaxFiles, MaxMsgs, MaxMoves,                     \* Composer, and Convs, Slots
    Queries, MaxCalls, MaxStarts, MaxSearchMoves,    \* Searches, and Convs
    Peers, Ttl, Skews, MaxTime, MaxSignals, MaxInbox,  \* TypingPresence, and Convs
    Texts, Size,                                     \* StoredText
    Lengths, Block                                   \* Sha1Blocks

\* Time is counted in whole ticks, and a clock may be slow.
ASSUME ClockAssumption == Ttl \in Nat /\ Skews \subseteq Int

\* The count of bits fits into a block, after the mark.
ASSUME BlockAssumption == Block \in Nat /\ Block > 8 /\ Lengths \subseteq Nat

\* A field holds a byte and a NUL at least; texts are of the basic plane, without NUL.
CodePoints == 1 .. 65535
ASSUME TextAssumption == Size \in Nat /\ Size > 1 /\ Texts \subseteq Seq(CodePoints)

\* The browser's clock is slow, right or fast by less than the time to live.
MCSkews == {-1, 0, 1}

\* Every ASCII character by itself, and the texts up to four characters of a
\* letter, a digit, an accented letter of two bytes and one of three.
MCTexts == {<<c>> : c \in 1 .. 127} \cup UNION {[1 .. n -> {113, 57, 233, 7871}] : n \in 0 .. 4}

\* The inputs of one and two blocks, and of the eight that payloads can fill.
MCLengths == (0 .. 130) \cup (503 .. 511)

VARIABLES
    part,
    atts, msgs, active, inbox, opened, text, draft, sending, files, send, moves, missed, alone,
    conv, open, query, results, searching, error, chosen, starting, creating, ending, calls,
    searchMoves,
    now, skew, signals, sent, events, typing, timer,
    content, encryption, phase, payload, out, stored, display, foreign,
    len, pc, i, index, buffer, blocks

Draft == INSTANCE Composer WITH selected <- opened
Search == INSTANCE Searches WITH MaxMoves <- MaxSearchMoves, moves <- searchMoves
Typing == INSTANCE TypingPresence WITH inbox <- events
Stored == INSTANCE StoredText WITH text <- content, enabled <- encryption, shown <- display
Sha1 == INSTANCE Sha1Blocks

draftVars == <<atts, msgs, active, inbox, opened, text, draft, sending, files, send, moves, missed,
               alone>>
searchVars == <<conv, open, query, results, searching, error, chosen, starting, creating, ending,
                calls, searchMoves>>
typingVars == <<now, skew, signals, sent, events, typing, timer>>
storedVars == <<content, encryption, phase, payload, out, stored, display, foreign>>
sha1Vars == <<len, pc, i, index, buffer, blocks>>
partVars == <<part, vars, draftVars, searchVars, typingVars, storedVars, sha1Vars>>

\* A part that a behaviour is not about stays in one initial state.
PartsInit ==
    /\ part \in {"ai", "draft", "search", "typing", "stored", "sha1"}
    /\ Init /\ Draft!Init
    /\ Search!Init /\ (part # "search" => conv = None)
    /\ Typing!Init /\ (part # "typing" => skew = 0)
    /\ Stored!Init /\ (part # "stored" => content = <<>> /\ encryption)
    /\ Sha1!Init /\ (part # "sha1" => len = 0)

AiPart ==
    /\ part = "ai" /\ Next
    /\ UNCHANGED <<part, draftVars, searchVars, typingVars, storedVars, sha1Vars>>

DraftPart ==
    /\ part = "draft" /\ Draft!Next
    /\ UNCHANGED <<part, vars, searchVars, typingVars, storedVars, sha1Vars>>

SearchPart ==
    /\ part = "search" /\ Search!Next
    /\ UNCHANGED <<part, vars, draftVars, typingVars, storedVars, sha1Vars>>

TypingPart ==
    /\ part = "typing" /\ Typing!Next
    /\ UNCHANGED <<part, vars, draftVars, searchVars, storedVars, sha1Vars>>

StoredPart ==
    /\ part = "stored" /\ Stored!Next
    /\ UNCHANGED <<part, vars, draftVars, searchVars, typingVars, sha1Vars>>

Sha1Part ==
    /\ part = "sha1" /\ Sha1!Next
    /\ UNCHANGED <<part, vars, draftVars, searchVars, typingVars, storedVars>>

PartsNext == AiPart \/ DraftPart \/ SearchPart \/ TypingPart \/ StoredPart \/ Sha1Part

PartsSpec == PartsInit /\ [][PartsNext]_partVars

Symmetry == Permutations(Convs) \cup Permutations(Slots)

-----------------------------------------------------------------------------
\* A message carries the file that was the draft when it was sent, stored for its
\* own conversation, and no two messages the same attachment.
FileAsChosen == Draft!FileAsChosen

\* A draft that is shown as being uploaded has a call of handleSend behind it, or a
\* message whose arrival will clear it, or went out with a message whose sender was
\* removed, or left, before it was delivered: nothing else leaves the composer stuck.
DraftNotStuck == Draft!DraftNotStuck

\* A message that arrives clears no draft but its own, while all of Me's messages
\* come from this page and none is delivered twice to a composer in use.
DraftKept == Draft!DraftKept

\* Search results on display, and the user chosen from them, answer what the field
\* says in the conversation that is selected, however late answers come.
ResultsAnswerField == Search!ResultsAnswerField

\* A typing indicator on display has its own timeout, the only one for its
\* conversation: it ends by itself, and no earlier peer's timeout takes it away.
OwnTimeout == Typing!OwnTimeout

\* As long as the driver answers each call with its own result, a text that fits into
\* the processor's field is shown exactly as it was sent.
ShownAsSent == Stored!ShownAsSent

\* The blocks that the driver's SHA-1 hashes are the padded input, for every length.
BlocksArePadded == Sha1!BlocksArePadded
===============================================================================
