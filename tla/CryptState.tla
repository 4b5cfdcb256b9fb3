------------------------------ MODULE CryptState ------------------------------
(***************************************************************************)
(* One direction of the encrypted UDP voice channel between a client and   *)
(* the server: the sending CryptStateOCB2, the datagrams in flight, the    *)
(* receiving CryptStateOCB2, and the nonce resynchronisation both sides    *)
(* run over the TCP control connection when decryption keeps failing.      *)
(*                                                                         *)
(* The 16-byte IV is a little-endian counter.  It is a record here: b0 is  *)
(* encrypt_iv[0], the only byte a datagram carries, and rest is the number *)
(* the other fifteen bytes spell.  decrypt_iv[1], which the history keeps, *)
(* is the lowest digit of rest.  A datagram is the IV it was encrypted     *)
(* under: its b0 is sent, and its tag matches exactly when the receiver    *)
(* reconstructs the same rest.                                             *)
(***************************************************************************)
EXTENDS Integers, Sequences, FiniteSets

CONSTANTS
    ByteValues,     \* values of a byte (256 in the code)
    HighValues,     \* values of the other fifteen bytes (256^15 in the code)
    LateWindow,     \* a packet may be at most LateWindow - 1 late (30 in the code)
    StartIVs,       \* the IVs genKey may have drawn for this direction
    MaxRest,        \* bound: the sender does not count beyond this rest
    StopIVs,        \* bound: the sender stops after these
    NetCapacity,    \* bound: datagrams in flight
    MaxOutstanding, \* bound: resync messages in flight on TCP
    TornReads       \* TRUE when the sender answers without the encryption lock

Byte == 0 .. ByteValues - 1
IV == [b0 : Byte, rest : 0 .. HighValues - 1]

ASSUME ByteAssumption == ByteValues \in Nat /\ ByteValues >= 4 /\ ByteValues % 2 = 0
ASSUME HighAssumption == HighValues \in Nat /\ HighValues >= 2
ASSUME WindowAssumption == LateWindow \in 1 .. (ByteValues \div 2)
ASSUME StartAssumption ==
    /\ StartIVs \subseteq IV
    /\ MaxRest \in 0 .. HighValues - 1
    /\ \A iv \in StartIVs : iv.rest <= MaxRest
ASSUME BoundAssumption == NetCapacity \in Nat /\ MaxOutstanding \in Nat
ASSUME TornAssumption == TornReads \in BOOLEAN

VARIABLES
    encrypt_iv,      \* sender: IV of the last packet encrypted
    decrypt_iv,      \* receiver: highest IV accepted, or the nonce last installed
    decrypt_history, \* receiver: for each b0 the decrypt_iv[1] last accepted with it
    goodRecent,      \* receiver: tLastGood.elapsed() is at most five seconds
    requestRecent,   \* receiver: tLastRequest.elapsed() is at most five seconds
    net,             \* datagrams in flight
    requests,        \* empty CryptSetup messages on their way to the sender
    nonces           \* CryptSetup answers on their way to the receiver

receiverVars == <<decrypt_iv, decrypt_history>>
timerVars == <<goodRecent, requestRecent>>
controlVars == <<requests, nonces>>
cryptVars == <<encrypt_iv, receiverVars, timerVars, net, controlVars>>

-----------------------------------------------------------------------------
(* The counter *)

Half == ByteValues \div 2

\* for (i = 1; ...) if (++iv[i]) break;
Carry(rest) == IF rest = HighValues - 1 THEN 0 ELSE rest + 1

\* for (i = 1; ...) if (iv[i]--) break;
Borrow(rest) == IF rest = 0 THEN HighValues - 1 ELSE rest - 1

Successor(iv) ==
    IF iv.b0 = ByteValues - 1
    THEN [b0 |-> 0, rest |-> Carry(iv.rest)]
    ELSE [b0 |-> iv.b0 + 1, rest |-> iv.rest]

(* What the receiver makes of the byte it reads *)

\* The signed distance from decrypt_iv[0] to the byte, folded to one turn.
Diff(iv, b) ==
    LET d == b - iv.b0 IN
    IF d > Half THEN d - ByteValues ELSE IF d < -Half THEN d + ByteValues ELSE d

InOrder(iv, b) == b = (IF iv.b0 = ByteValues - 1 THEN 0 ELSE iv.b0 + 1)
IsAhead(iv, b) == Diff(iv, b) > 0
\* Fault: the window is one packet too long.
IsLateByOneMore(iv, b) == Diff(iv, b) < 0 /\ Diff(iv, b) >= -LateWindow

IsLate(iv, b) == Diff(iv, b) < 0 /\ Diff(iv, b) > -LateWindow

\* decrypt_iv after the branch the byte selects: the carry when it wrapped
\* forwards, the borrow when it belongs to the previous turn.
Guess(iv, b) ==
    [b0   |-> b,
     rest |-> IF b < iv.b0 /\ Diff(iv, b) > 0 THEN Carry(iv.rest)
              ELSE IF b > iv.b0 /\ Diff(iv, b) < 0 THEN Borrow(iv.rest)
              ELSE iv.rest]

LowDigit(rest) == rest % ByteValues

\* The history is consulted only when the packet is not the next in order.
IsRepeat(iv, history, b) ==
    ~InOrder(iv, b) /\ history[b] = LowDigit(Guess(iv, b).rest)

\* decrypt() returns true: the byte is in reach, is not taken for a repeat,
\* and the tag matches under the reconstructed IV.
Decrypts(iv, history, p) ==
    /\ IsAhead(iv, p.b0) \/ IsLate(iv, p.b0)
    /\ ~IsRepeat(iv, history, p.b0)
    /\ Guess(iv, p.b0) = p

-----------------------------------------------------------------------------
CryptTypeOK ==
    /\ encrypt_iv \in IV
    /\ decrypt_iv \in IV
    /\ decrypt_history \in [Byte -> Byte]
    /\ goodRecent \in BOOLEAN
    /\ requestRecent \in BOOLEAN
    /\ net \in SUBSET IV
    /\ requests \in Nat
    /\ nonces \in Seq(IV)

\* The server drew the key and both nonces, and the client installed them
\* with setKey before either side encrypts.
CryptInit ==
    /\ encrypt_iv \in StartIVs
    /\ decrypt_iv = encrypt_iv
    /\ decrypt_history = [b \in Byte |-> 0]
    /\ goodRecent = TRUE
    /\ requestRecent = TRUE
    /\ net = {}
    /\ requests = 0
    /\ nonces = <<>>

-----------------------------------------------------------------------------
(* Sender *)

\* encrypt(): the IV is advanced first, then used.
Encrypt ==
    /\ encrypt_iv \notin StopIVs
    /\ Successor(encrypt_iv).rest <= MaxRest
    /\ Cardinality(net) < NetCapacity
    /\ encrypt_iv' = Successor(encrypt_iv)
    /\ net' = net \cup {encrypt_iv'}
    /\ UNCHANGED <<receiverVars, timerVars, controlVars>>

\* What getEncryptIV can return.  The server holds qmCrypt; the client's main
\* thread does not hold qmUdp, so its copy may mix the bytes of two IVs.
ReadableNonces ==
    LET next == Successor(encrypt_iv) IN
    {encrypt_iv} \cup
    (IF TornReads /\ next.rest <= MaxRest
     THEN [b0 : {encrypt_iv.b0, next.b0}, rest : {encrypt_iv.rest, next.rest}]
     ELSE {})

\* msgCryptSetup without a nonce: answer with the current encryption IV.
AnswerRequest ==
    /\ requests > 0
    /\ requests' = requests - 1
    /\ \E n \in ReadableNonces : nonces' = Append(nonces, n)
    /\ UNCHANGED <<encrypt_iv, receiverVars, timerVars, net>>

-----------------------------------------------------------------------------
(* Receiver *)

\* UDP may deliver a copy and keep the datagram for later.
Consume(p) == net' \in {net, net \ {p}}

\* Fault: an accepted packet is not written to the history.
RememberNothing(p) == decrypt_history' = decrypt_history

\* Fault: the digit is written as it was before the carry or borrow.
RememberOldDigit(p) ==
    decrypt_history' = [decrypt_history EXCEPT ![p.b0] = LowDigit(decrypt_iv.rest)]

Remember(p) ==
    decrypt_history' = [decrypt_history EXCEPT ![p.b0] = LowDigit(p.rest)]

\* In order, or ahead of decrypt_iv: the counter moves to the packet.
AcceptAhead(p) ==
    /\ IsAhead(decrypt_iv, p.b0)
    /\ Decrypts(decrypt_iv, decrypt_history, p)
    /\ decrypt_iv' = Guess(decrypt_iv, p.b0)
    /\ Remember(p)
    /\ Consume(p)
    /\ goodRecent' = TRUE
    /\ UNCHANGED <<encrypt_iv, requestRecent, controlVars>>

\* Fault: decrypt_iv is not restored after a late packet.
AcceptLateWithoutRestore(p) ==
    /\ IsLate(decrypt_iv, p.b0)
    /\ Decrypts(decrypt_iv, decrypt_history, p)
    /\ decrypt_iv' = Guess(decrypt_iv, p.b0)
    /\ Remember(p)
    /\ Consume(p)
    /\ goodRecent' = TRUE
    /\ UNCHANGED <<encrypt_iv, requestRecent, controlVars>>

\* Late: decrypted under the older IV, then decrypt_iv is restored.
AcceptLate(p) ==
    /\ IsLate(decrypt_iv, p.b0)
    /\ Decrypts(decrypt_iv, decrypt_history, p)
    /\ Remember(p)
    /\ Consume(p)
    /\ goodRecent' = TRUE
    /\ UNCHANGED <<encrypt_iv, decrypt_iv, requestRecent, controlVars>>

\* decrypt() returned false; decrypt_iv is as before.  After five silent
\* seconds the receiver asks for a resync, at most once in five seconds.
DecryptFailed ==
    /\ IF goodRecent \/ requestRecent
       THEN UNCHANGED <<requestRecent, requests>>
       ELSE /\ requestRecent' = TRUE
            /\ requests' = requests + 1
    /\ UNCHANGED <<encrypt_iv, receiverVars, goodRecent, nonces>>

Reject(p) ==
    /\ ~Decrypts(decrypt_iv, decrypt_history, p)
    /\ Consume(p)
    /\ DecryptFailed

\* A datagram damaged on the way: its tag matches under no IV.
RejectDamaged == UNCHANGED net /\ DecryptFailed

\* Fault: the answer is taken off the connection and not installed.
InstallNothing ==
    /\ nonces # <<>>
    /\ nonces' = Tail(nonces)
    /\ UNCHANGED <<encrypt_iv, receiverVars, timerVars, net, requests>>

\* setDecryptIV with the nonce of the answer; the history is kept.
InstallNonce ==
    /\ nonces # <<>>
    /\ decrypt_iv' = Head(nonces)
    /\ nonces' = Tail(nonces)
    /\ UNCHANGED <<encrypt_iv, decrypt_history, timerVars, net, requests>>

-----------------------------------------------------------------------------
(* The environment *)

Lose(p) ==
    /\ net' = net \ {p}
    /\ UNCHANGED <<encrypt_iv, receiverVars, timerVars, controlVars>>

GoodTimeout ==
    /\ goodRecent
    /\ goodRecent' = FALSE
    /\ UNCHANGED <<encrypt_iv, receiverVars, requestRecent, net, controlVars>>

\* MaxOutstanding bounds how many requests a slow TCP connection holds.
RequestTimeout ==
    /\ requestRecent
    /\ requests + Len(nonces) < MaxOutstanding
    /\ requestRecent' = FALSE
    /\ UNCHANGED <<encrypt_iv, receiverVars, goodRecent, net, controlVars>>

CryptNext ==
    \/ Encrypt
    \/ AnswerRequest
    \/ InstallNonce
    \/ \E p \in net : AcceptAhead(p) \/ AcceptLate(p) \/ Reject(p) \/ Lose(p)
    \/ RejectDamaged
    \/ GoodTimeout
    \/ RequestTimeout

CryptSpec == CryptInit /\ [][CryptNext]_cryptVars
=============================================================================
