------------------------------ MODULE ByteQueue ------------------------------
(* What BlockBuffer stands for: bytes that leave in the order they came.     *)
EXTENDS Integers, Sequences

VARIABLE content   \* the bytes written and not taken out yet

Init == content = <<>>

\* Bytes are written behind those that are there.
Put == /\ Len(content') >= Len(content)
       /\ SubSeq(content', 1, Len(content)) = content

\* The oldest bytes leave.
Take == /\ Len(content') <= Len(content)
        /\ content' = SubSeq(content, Len(content) - Len(content') + 1,
                             Len(content))

Spec == Init /\ [][Put \/ Take]_content
=============================================================================
