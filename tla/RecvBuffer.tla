------------------------------ MODULE RecvBuffer ------------------------------
(***************************************************************************)
(* What the receive buffer of a connection stands for when only numbers of *)
(* bytes matter: how many are unread, and the seams between them, where    *)
(* one block of the chain ends and the next begins.  A read over a seam is *)
(* garbled, and with two seams GetBufferToWrite may not return.            *)
(* BlockBuffer implements this module; Session receives by its operators.  *)
(***************************************************************************)
EXTENDS Integers

CONSTANT CopySize   \* COPY_BLOCK_SIZE

VARIABLES
  unread,   \* number of unread bytes
  seams,    \* s is a member if unread byte s is the last of its block
  hung      \* GetBufferToWrite does not return any more

vars == <<unread, seams, hung>>

\* The last block has n unread bytes or more, of b with seams s in all.
TailHolds(b, s, n) == b >= n /\ \A x \in s : b - x >= n

\* The seams after room was made behind b bytes: the last block may be closed
\* if it has too many bytes to copy them.
Reserved(b, s) ==
  {s} \cup IF TailHolds(b, s, CopySize) THEN {s \cup {b}} ELSE {}

\* The bytes of the last block are copied to another block, and the search for
\* the block before it does not end.
MayHang(b, s) == /\ ~TailHolds(b, s, CopySize)
                 /\ \E x, y \in s : x # y

\* The seams after n bytes were taken out.
After(s, n) == {x - n : x \in {y \in s : y > n}}

Init == unread = 0 /\ seams = {} /\ hung = FALSE

GetBufferToWrite ==
  \/ seams' \in Reserved(unread, seams) /\ UNCHANGED <<unread, hung>>
  \/ MayHang(unread, seams) /\ hung' = TRUE /\ UNCHANGED <<unread, seams>>

FinishBufferWrite ==
  /\ unread' \in Nat /\ unread' >= unread
  /\ UNCHANGED <<seams, hung>>

Move == \E n \in 0 .. unread : /\ unread' = unread - n
                               /\ seams' = After(seams, n)
                               /\ UNCHANGED hung

Spec == Init /\ [][GetBufferToWrite \/ FinishBufferWrite \/ Move]_vars
=============================================================================
