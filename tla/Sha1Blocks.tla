------------------------------ MODULE Sha1Blocks ------------------------------
(***************************************************************************)
(* How the driver's SHA-1 cuts its input into blocks: sha1_update and      *)
(* sha1_final with their buffer, which is never cleared.  The compression  *)
(* of a block (sha1_transform) is abstracted to the sequence of blocks it  *)
(* was given; the digest is a function of that sequence.                   *)
(***************************************************************************)
EXTENDS Naturals, Sequences

CONSTANTS
    Lengths,  \* strlen of the inputs
    Block     \* SHA1_BLOCK_SIZE, 64 in the code

VARIABLES
    len,
    pc,
    i,        \* input bytes that were taken
    index,    \* buffer_index
    buffer,
    blocks    \* the blocks that sha1_transform was called with

vars == <<len, pc, i, index, buffer, blocks>>

\* A byte: a constant is its value, the n-th byte of the input 255 + n, whatever it is.
Data(n) == 255 + n
Const(v) == v
Mark == Const(128)
Zero == Const(0)

\* Byte k of bit_count, from the most significant one on; a payload is shorter than
\* 2^28 bytes, so the first four are zero.
CountByte(k) == IF k <= 4 THEN Zero ELSE Const(((len * 8) \div 2 ^ (8 * (8 - k))) % 256)

\* sha1_init.
Init ==
    /\ len \in Lengths /\ pc = "update" /\ i = 0 /\ index = 0
    /\ buffer = [n \in 1 .. Block |-> Zero] /\ blocks = <<>>

\* sha1_update up to the end of a block or of the input; a full buffer is
\* transformed at once.
Update ==
    LET next == IF len - i < Block - index THEN index + len - i ELSE Block
        taken == [n \in 1 .. Block |-> IF n \in index + 1 .. next THEN Data(i + n - index) ELSE buffer[n]]
    IN /\ pc = "update" /\ i < len
       /\ i' = i + next - index /\ buffer' = taken
       /\ index' = next % Block
       /\ blocks' = IF next = Block THEN Append(blocks, taken) ELSE blocks
       /\ UNCHANGED <<len, pc>>

\* Mutant: a count that just fits gets a block of its own.
NoRoomAtEdge == index + 1 >= Block - 8

\* if (buffer_index > 56), after the mark.
NoRoom == index + 1 > Block - 8

\* sha1_final up to the decision.
PutMark ==
    /\ pc = "update" /\ i = len
    /\ buffer' = [buffer EXCEPT ![index + 1] = Mark] /\ index' = index + 1
    /\ pc' = IF NoRoom THEN "fill" ELSE "pad"
    /\ UNCHANGED <<len, i, blocks>>

\* The buffer with zeros from buffer_index to place last.
ZeroTo(last) == [n \in 1 .. Block |-> IF n \in index + 1 .. last THEN Zero ELSE buffer[n]]

\* The rest of the block is cleared, and another one started.
Fill ==
    /\ pc = "fill" /\ pc' = "pad"
    /\ buffer' = ZeroTo(Block) /\ blocks' = Append(blocks, buffer') /\ index' = 0
    /\ UNCHANGED <<len, i>>

\* Zeros, the eight bytes of bit_count, and the last transformation.
Finish ==
    /\ pc = "pad" /\ pc' = "done"
    /\ buffer' = [n \in 1 .. Block |->
                    IF n > Block - 8 THEN CountByte(n - (Block - 8)) ELSE ZeroTo(Block - 8)[n]]
    /\ blocks' = Append(blocks, buffer') /\ index' = Block
    /\ UNCHANGED <<len, i>>

Done == pc = "done" /\ UNCHANGED vars

Next == Update \/ PutMark \/ Fill \/ Finish \/ Done

Spec == Init /\ [][Next]_vars

-----------------------------------------------------------------------------
\* The definition of SHA-1: the input, the mark, as few zeros as fill whole
\* blocks, and the length in bits in the last eight bytes.
Total == ((len + 9 + Block - 1) \div Block) * Block
Padded(n) ==
    IF n <= len THEN Data(n)
    ELSE IF n = len + 1 THEN Mark
    ELSE IF n <= Total - 8 THEN Zero
    ELSE CountByte(n - (Total - 8))

\* The blocks that are hashed are the padded input, for every length, the ones
\* around a block's end included, and nothing of an earlier block stays in them.
BlocksArePadded ==
    pc = "done" =>
      /\ Len(blocks) * Block = Total
      /\ \A b \in 1 .. Len(blocks), n \in 1 .. Block : blocks[b][n] = Padded((b - 1) * Block + n)
=============================================================================
