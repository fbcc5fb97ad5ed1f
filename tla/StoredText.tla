------------------------------ MODULE StoredText ------------------------------
(***************************************************************************)
(* What becomes of a message's text: encryptForStorage puts it into a      *)
(* field of fixed size, the driver substitutes it byte by byte, the        *)
(* answer is stored as text, and decryptForDisplay takes the same way      *)
(* back, after a restart with another configuration perhaps.               *)
(*                                                                         *)
(* A text is a sequence of code points (none of them NUL, or beyond the    *)
(* basic plane).  A byte of its UTF-8 form is known by its code point and  *)
(* its place in it; a byte below 128 is its code point.                    *)
(***************************************************************************)
EXTENDS Naturals, FiniteSets, Sequences, SequencesExt

CONSTANTS
    Texts,  \* what is sent
    Size    \* CHAT_MAX_MESSAGE and CHAT_MAX_RESULT, 512 in the code

VARIABLES
    text,     \* trimmedContent
    enabled,  \* CHAT_REVERSE_ENCRYPTION_ENABLED
    phase,
    payload,  \* the payload of the request, up to its NUL
    out,      \* the payload of the response, as far as it is filled
    stored,   \* the message: content, state (reverseEncryptionState)
    shown,    \* what toDisplayMessage gives
    foreign   \* ghost: which of "stored" and "shown" was made of an answer of the
              \* driver that was not this call's

vars == <<text, enabled, phase, payload, out, stored, shown, foreign>>

Unstored == [content |-> <<>>, state |-> "none"]

\* '[Không thể khôi phục nội dung tin nhắn]', as one code point of its own.
Failure == <<65536>>

\* What chat_read may copy when the device is in use by another call as well: a
\* cleared response, or the other call's (Processing has the race; nobody compares
\* message_id).  One text stands for all that others may have sent.
ForeignAnswers == {<<>>, <<97>>}

Init ==
    /\ text \in Texts /\ enabled \in BOOLEAN /\ phase = "send"
    /\ payload = <<>> /\ out = <<>> /\ stored = Unstored /\ shown = <<>> /\ foreign = {}

-----------------------------------------------------------------------------
(* UTF-8.                                                                  *)

\* The first characters of two and of three bytes.
TwoBytes == 128
ThreeBytes == 2048
Width(c) == IF c < TwoBytes THEN 1 ELSE IF c < ThreeBytes THEN 2 ELSE 3

\* The bytes of the first n characters of t.
From(t, n, c) == {m \in 1 .. n : t[m] >= c}
Extent(t, n) == n + Cardinality(From(t, n, TwoBytes)) + Cardinality(From(t, n, ThreeBytes))

\* A byte belongs to the first character that reaches it.
Encode(t) ==
    [p \in 1 .. Extent(t, Len(t)) |->
       LET n == CHOOSE n \in DOMAIN t : Extent(t, n - 1) < p /\ p <= Extent(t, n)
       IN [code |-> t[n], k |-> p - Extent(t, n - 1)]]

\* toString('utf8'): a character begins at each first byte; one that is cut off becomes
\* a replacement character.
Replacement == 65533
Begun(bytes, p) == Cardinality({q \in 1 .. p : bytes[q].k = 1})
Decode(bytes) ==
    LET end == Len(bytes)
        begin(n) == CHOOSE p \in DOMAIN bytes : bytes[p].k = 1 /\ Begun(bytes, p) = n
        cut(n) == n = Begun(bytes, end) /\ bytes[end].k < Width(bytes[end].code)
    IN [n \in 1 .. Begun(bytes, end) |-> IF cut(n) THEN Replacement ELSE bytes[begin(n)].code]

\* writeCString.
CString(t) == LET bytes == Encode(t) IN IF Len(bytes) < Size THEN bytes ELSE SubSeq(bytes, 1, Size - 1)

-----------------------------------------------------------------------------
(* The driver's tables.                                                    *)

k_lower_cipher == <<113, 97, 122, 119, 115, 120, 101, 100, 99, 114, 102, 118, 116,
                    103, 98, 121, 104, 110, 117, 106, 109, 105, 107, 111, 108, 112>>
k_upper_cipher == [i \in 1 .. 26 |-> k_lower_cipher[i] - 32]
k_digit_cipher == <<55, 51, 49, 57, 48, 53, 56, 50, 52, 54>>

k_lower_alphabet == [i \in 1 .. 26 |-> 96 + i]
k_upper_alphabet == [i \in 1 .. 26 |-> 64 + i]
k_digits == [i \in 1 .. 10 |-> 47 + i]

map_char(ch, source, target) ==
    IF \E i \in DOMAIN source : source[i] = ch
      THEN target[CHOOSE i \in DOMAIN source : source[i] = ch /\ \A j \in 1 .. i - 1 : source[j] # ch]
      ELSE ch

map_forward(ch) ==
    CASE ch \in 97 .. 122 -> map_char(ch, k_lower_alphabet, k_lower_cipher)
      [] ch \in 65 .. 90 -> map_char(ch, k_upper_alphabet, k_upper_cipher)
      [] ch \in 48 .. 57 -> map_char(ch, k_digits, k_digit_cipher)
      [] OTHER -> ch

\* Mutant: digits are not mapped back.
LettersBack(ch) ==
    CASE ch \in 97 .. 122 -> map_char(ch, k_lower_cipher, k_lower_alphabet)
      [] ch \in 65 .. 90 -> map_char(ch, k_upper_cipher, k_upper_alphabet)
      [] OTHER -> ch

map_reverse(ch) ==
    CASE ch \in 97 .. 122 -> map_char(ch, k_lower_cipher, k_lower_alphabet)
      [] ch \in 65 .. 90 -> map_char(ch, k_upper_cipher, k_upper_alphabet)
      [] ch \in 48 .. 57 -> map_char(ch, k_digit_cipher, k_digits)
      [] OTHER -> ch

\* The loops of substitution_transform and substitution_reverse_transform.
AtEnd == Len(out) = Len(payload) \/ Len(out) + 1 >= Size
Char == payload[Len(out) + 1]
Loop(mapped) ==
    /\ ~AtEnd
    /\ out' = Append(out, IF Char.code < 128 THEN [code |-> mapped, k |-> 1] ELSE Char)
    /\ UNCHANGED <<text, enabled, phase, payload, stored, shown, foreign>>

-----------------------------------------------------------------------------
(* Sending.                                                                *)

\* A message without text has an attachment and is not encrypted.
StorePlain ==
    /\ phase = "send" /\ phase' = "stored"
    /\ text = <<>> \/ ~enabled
    /\ stored' = [content |-> text, state |-> "legacy"]
    /\ UNCHANGED <<text, enabled, payload, out, shown, foreign>>

Encrypt ==
    /\ phase = "send" /\ phase' = "forward"
    /\ text # <<>> /\ enabled
    /\ payload' = CString(text) /\ out' = <<>>
    /\ UNCHANGED <<text, enabled, stored, shown, foreign>>

ForwardStep == phase = "forward" /\ Loop(map_forward(Char.code))

\* readCString of the answer, and the message is created.
Store ==
    /\ phase = "forward" /\ AtEnd /\ phase' = "stored"
    /\ stored' = [content |-> Decode(out), state |-> "encrypted"]
    /\ UNCHANGED <<text, enabled, payload, out, shown, foreign>>

\* The answer was another call's: it is stored as this message.
StoreForeign ==
    /\ phase = "forward" /\ AtEnd /\ phase' = "stored"
    /\ \E answer \in ForeignAnswers : stored' = [content |-> answer, state |-> "encrypted"]
    /\ foreign' = {"stored"}
    /\ UNCHANGED <<text, enabled, payload, out, shown>>

\* ChatProcessingError: nothing is stored, and the user may send again.
Refused ==
    /\ phase = "forward" /\ phase' = "send"
    /\ payload' = <<>> /\ out' = <<>>
    /\ UNCHANGED <<text, enabled, stored, shown, foreign>>

\* A restart with another configuration.
Reconfigure ==
    /\ phase \in {"send", "stored"} /\ enabled' = ~enabled
    /\ UNCHANGED <<text, phase, payload, out, stored, shown, foreign>>

-----------------------------------------------------------------------------
(* Reading, which may be repeated.                                         *)

Encrypted == stored.state = "encrypted"

Show ==
    /\ phase = "stored" /\ ~Encrypted /\ phase' = "shown"
    /\ shown' = stored.content
    /\ UNCHANGED <<text, enabled, payload, out, stored, foreign>>

Decrypt ==
    /\ phase = "stored" /\ Encrypted /\ phase' = "reverse"
    /\ payload' = CString(stored.content) /\ out' = <<>>
    /\ UNCHANGED <<text, enabled, stored, shown, foreign>>

BackwardStep == phase = "reverse" /\ Loop(map_reverse(Char.code))

ShowDecrypted ==
    /\ phase = "reverse" /\ AtEnd /\ phase' = "shown"
    /\ shown' = Decode(out)
    /\ UNCHANGED <<text, enabled, payload, out, stored, foreign>>

\* The answer was another call's: it is displayed as this message.
ShowForeign ==
    /\ phase = "reverse" /\ AtEnd /\ phase' = "shown"
    /\ shown' \in ForeignAnswers
    /\ foreign' = foreign \cup {"shown"}
    /\ UNCHANGED <<text, enabled, payload, out, stored>>

\* catch of toDisplayMessage.
ShowFailure ==
    /\ phase = "reverse" /\ phase' = "shown"
    /\ shown' = Failure
    /\ UNCHANGED <<text, enabled, payload, out, stored, foreign>>

Again ==
    /\ phase = "shown" /\ phase' = "stored"
    /\ foreign' = foreign \ {"shown"}
    /\ UNCHANGED <<text, enabled, payload, out, stored, shown>>

Next ==
    \/ StorePlain \/ Encrypt \/ ForwardStep \/ Store \/ StoreForeign \/ Refused \/ Reconfigure
    \/ Show \/ Decrypt \/ BackwardStep \/ ShowDecrypted \/ ShowForeign \/ ShowFailure \/ Again

Spec == Init /\ [][Next]_vars

-----------------------------------------------------------------------------
\* The text is displayed, no failure was reported, and the driver's answers it was
\* stored and shown by were the calls' own.
Succeeded == phase = "shown" /\ shown # Failure /\ foreign = {}

Fits == Len(Encode(text)) < Size

\* As long as the driver answers each call with its own result, a text that fits
\* into the field, or was stored without it, is shown exactly as it was sent, every
\* time, whatever the configuration was when it was stored and is when it is read.
ShownAsSent == Succeeded /\ (Fits \/ stored.state = "legacy") => shown = text

\* FR-005 (specs/008-reverse-kernel-encryption/spec.md:69): where processing succeeds,
\* what is shown is what was sent.  writeCString cuts longer texts without an error.
RestoredAsSent == Succeeded => shown = text

\* A text that is cut loses its end and nothing else: what is shown is a prefix of
\* it, followed by a replacement character if a character was cut.
OnlyEndLost ==
    Succeeded /\ shown # text =>
        \/ IsPrefix(shown, text)
        \/ shown[Len(shown)] = Replacement /\ IsPrefix(Front(shown), text)
===============================================================================
