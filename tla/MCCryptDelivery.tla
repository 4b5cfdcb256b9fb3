--------------------------- MODULE MCCryptDelivery ---------------------------
(* Instance of CryptDelivery for TLC: a byte of six values.                *)
EXTENDS CryptDelivery

\* The carry into rest, and the borrow out of it, happen within a few packets.
\* genKey draws any bytes, so decrypt_iv[1] may also start as the zero the
\* history is filled with.
StartBeforeCarry == [b0 : {ByteValues - 2}, rest : {0, 3}]

\* Each start is followed until the byte comes round again.
StopAfterTurn == [b0 : {ByteValues - 1}, rest : {1, 4}]
=============================================================================
