---------------------------- MODULE MCCryptResync ----------------------------
(* Instance of CryptResync for TLC. *)
EXTENDS CryptResync

StartAtZero == {[b0 |-> 0, rest |-> 0]}
=============================================================================
