---------------------------- MODULE CryptDelivery ----------------------------
(***************************************************************************)
(* CryptState with what the receiver reports and hands on: the counters of *)
(* m_statsLocal that decrypt() and msgCryptSetup keep, and how often each  *)
(* packet was handed to the audio decoder since the last synchronisation.  *)
(***************************************************************************)
EXTENDS CryptState

\* No nonce repeats under one key: the sender stops two carries short of the
\* counter's end (the code's counter has 2^128 values).
ASSUME NoNonceReuse == MaxRest <= HighValues - 2

CONSTANT MaxResyncs  \* bound: synchronisations after the initial one

ASSUME ResyncAssumption == MaxResyncs \in Nat

VARIABLES
    m_statsLocal,  \* lost and resync; good and late only grow by one per call
    copies,        \* how often each packet was delivered since syncedAt
    syncedAt       \* decrypt_iv when it was last installed

deliveryVars == <<cryptVars, m_statsLocal, copies, syncedAt>>

PacketStats == [lost : Nat, resync : Nat]

Init ==
    /\ CryptInit
    /\ m_statsLocal = [lost |-> 0, resync |-> 0]
    /\ copies = [n \in IV |-> 0]
    /\ syncedAt = decrypt_iv

\* Fault: the unsigned counter is decremented whatever its value.
AdjustUnguarded(count, delta) == count + delta

\* Fault: late arrivals never lower the counter.
AdjustUpOnly(count, delta) == IF delta > 0 THEN count + delta ELSE count

\* "make sure we don't cause wrap-arounds on the unsigned lhs"
Adjust(count, delta) ==
    IF delta > 0 THEN count + delta
    ELSE IF count > -delta THEN count + delta ELSE count

CountLost(lost) == m_statsLocal' = [m_statsLocal EXCEPT !.lost = Adjust(@, lost)]

Deliver(p) ==
    /\ copies' = [copies EXCEPT ![p] = @ + 1]
    /\ UNCHANGED syncedAt

DeliverAhead(p) ==
    /\ AcceptAhead(p)
    /\ CountLost(Diff(decrypt_iv, p.b0) - 1)
    /\ Deliver(p)

DeliverLate(p) ==
    /\ AcceptLate(p)
    /\ CountLost(-1)
    /\ Deliver(p)

Resync ==
    /\ InstallNonce
    /\ m_statsLocal' = [m_statsLocal EXCEPT !.resync = @ + 1]
    /\ copies' = [n \in IV |-> 0]
    /\ syncedAt' = decrypt_iv'

Undelivered ==
    \/ Encrypt
    \/ AnswerRequest
    \/ \E p \in net : Reject(p) \/ Lose(p)
    \/ RejectDamaged
    \/ GoodTimeout
    \/ RequestTimeout /\ m_statsLocal.resync + requests + Len(nonces) < MaxResyncs

Next ==
    \/ Undelivered /\ UNCHANGED <<m_statsLocal, copies, syncedAt>>
    \/ \E p \in net : DeliverAhead(p) \/ DeliverLate(p)
    \/ Resync

Spec == Init /\ [][Next]_deliveryVars

-----------------------------------------------------------------------------
(* Packet numbers: what the IV counts. *)

Number(iv) == iv.rest * ByteValues + iv.b0

Delivered == {n \in IV : copies[n] > 0}

\* Packets of the sender the receiver has passed over and not delivered.
Missing ==
    {n \in IV : /\ Number(n) > Number(syncedAt)
                /\ Number(n) <= Number(decrypt_iv)
                /\ copies[n] = 0}

TypeOK ==
    /\ CryptTypeOK
    /\ m_statsLocal \in PacketStats
    /\ copies \in [IV -> Nat]
    /\ syncedAt \in IV

\* No IV the sender or the receiver uses is near the end of the counter.
InRange ==
    /\ encrypt_iv.rest <= MaxRest
    /\ decrypt_iv.rest <= MaxRest
    /\ \A p \in net : p.rest <= MaxRest
    /\ \A i \in 1 .. Len(nonces) : nonces[i].rest <= MaxRest

\* Between two synchronisations no datagram is decrypted twice, whatever the
\* network duplicates, delays or reorders: what the history of decrypt() and
\* the in-order branch, which skips it, achieve together.
AtMostOnce == \A n \in IV : copies[n] <= 1

\* a comes before b in the order of the counter.
Before(a, b) == a.rest < b.rest \/ (a.rest = b.rest /\ a.b0 < b.b0)

\* n is less than LateWindow packets behind iv, byte by byte.
InLateWindow(n, iv) ==
    \/ n.rest = iv.rest /\ n.b0 < iv.b0 /\ iv.b0 - n.b0 < LateWindow
    \/ n.rest + 1 = iv.rest /\ n.b0 > iv.b0 /\ ByteValues + iv.b0 - n.b0 < LateWindow

\* decrypt_iv is never behind a packet delivered since it was installed.
NewestLeads == \A n \in IV : copies[n] > 0 => n = decrypt_iv \/ Before(n, decrypt_iv)

\* Every delivered packet that could still be accepted as late is remembered
\* in decrypt_history, so that its copy is recognised.
HistoryCovers ==
    \A n \in IV :
        copies[n] > 0 /\ (n = decrypt_iv \/ InLateWindow(n, decrypt_iv))
        => decrypt_history[n.b0] = LowDigit(n.rest)

\* Until the first resync, m_statsLocal.lost never falls below the number of
\* packets the receiver passed over, and exceeds it by at most one: the guard
\* against unsigned wrap-around drops at most one late arrival.
LostWithinOne ==
    m_statsLocal.resync = 0 =>
        /\ Cardinality(Missing) <= m_statsLocal.lost
        /\ m_statsLocal.lost <= Cardinality(Missing) + 1

\* decrypt_history has nothing of p's low byte yet: it holds the zero of the
\* constructor, and p's digit is zero too.
NeverHeard(p) == LowDigit(p.rest) = 0 /\ \A n \in Delivered : n.b0 # p.b0

\* The newest packet delivered with p's low byte is one or more whole turns of
\* the second byte behind p (65536 packets each in the code).
TurnsBehind(p) ==
    \E n \in Delivered :
        /\ n.b0 = p.b0 /\ \A m \in Delivered : m.b0 = p.b0 => m.rest <= n.rest
        /\ LowDigit(n.rest) = LowDigit(p.rest) /\ n.rest + ByteValues <= p.rest

\* Of the packets never delivered, ahead of decrypt_iv within reach of one byte
\* or late within the window, decrypt() takes for a repeat only these two kinds
\* and recovers the others: "OOO recovery up to 30 packets" and "Recover from
\* lost packet" of TestCrypt, with what one byte of history cannot tell.
FreshIsNoRepeat ==
    \A p \in net :
        /\ copies[p] = 0
        /\ m_statsLocal.resync = 0
        /\ Guess(decrypt_iv, p.b0) = p
        /\ IsRepeat(decrypt_iv, decrypt_history, p.b0)
        => NeverHeard(p) \/ TurnsBehind(p)

\* The newest packet only moves back when a resync installs an older nonce.
NewestNeverBack ==
    [][m_statsLocal'.resync = m_statsLocal.resync =>
         decrypt_iv' = decrypt_iv \/ Before(decrypt_iv, decrypt_iv')]_deliveryVars

\* The byte-wise receiver implements the window over packet numbers.
Window == INSTANCE ReplayWindow WITH
    Reach <- Half,
    newest <- Number(decrypt_iv),
    delivered <- {Number(n) : n \in Delivered}

ImplementsWindow == Window!Spec
=============================================================================
