------------------------------ MODULE MCRotation ------------------------------
(* A small instance of Rotation. *)
EXTENDS Rotation

CONSTANTS m1, b1

\* The message's text can be divided after each of its numbers.
MCId == <<m1>>

MCBody == <<4, -28, b1>>

MCIds == {<<m1>>, <<m1, 3>>, <<m1, 3, 4>>}

MCTooLong == {<<4, -28, b1, b1>>}

MCBodies == {<<4, -28, b1>>, <<-28, b1>>, <<b1>>} \cup MCTooLong

MCPieces == {m1, b1, 3, 4, -28}

\* A receiver's clock at 4 is 32 away from -28, which is no 6-bit integer.
MCStamps == {3, 4, -28}

\* The clock is behind by more than any tolerance, or a second off.
MCOffsets == {-3, -1, 1}
=============================================================================
