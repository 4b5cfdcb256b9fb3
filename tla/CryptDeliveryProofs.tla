------------------------- MODULE CryptDeliveryProofs -------------------------
(***************************************************************************)
(* Proofs about CryptDelivery: for every byte size, window and start IV    *)
(* the receiver delivers a packet at most once between two                 *)
(* synchronisations, and implements ReplayWindow.                          *)
(***************************************************************************)
EXTENDS CryptDelivery, TLAPS

(* Facts about the counter. *)

\* The sender's increment stays inside the type of an IV.
LEMMA SuccessorType ==
    ASSUME NEW iv \in IV
    PROVE  Successor(iv) \in IV
BY ByteAssumption, HighAssumption DEF Successor, Carry, IV, Byte

\* The IV the receiver reconstructs from a byte is an IV with that byte.
LEMMA GuessType ==
    ASSUME NEW iv \in IV, NEW b \in Byte
    PROVE  Guess(iv, b) \in IV
BY ByteAssumption, HighAssumption DEF Guess, Carry, Borrow, IV, Byte

\* The digit the history keeps is a byte.
LEMMA LowDigitType ==
    ASSUME NEW rest \in 0 .. HighValues - 1
    PROVE  LowDigit(rest) \in Byte
BY ByteAssumption, HighAssumption DEF LowDigit, Byte

\* The distance between two bytes is an integer.
LEMMA DiffType ==
    ASSUME NEW iv \in IV, NEW b \in Byte
    PROVE  Diff(iv, b) \in Int
<1>1. iv.b0 \in Int /\ b \in Int /\ ByteValues \in Int /\ Half \in Int
  BY ByteAssumption DEF IV, Byte, Half
<1> QED
  BY <1>1 DEF Diff

\* The order of the counter is strict.
LEMMA BeforeStrict ==
    ASSUME NEW a \in IV, NEW b \in IV, Before(a, b)
    PROVE  a # b /\ ~Before(b, a)
BY ByteAssumption, HighAssumption DEF Before, IV, Byte

\* The order of the counter is transitive.
LEMMA BeforeTransitive ==
    ASSUME NEW a \in IV, NEW b \in IV, NEW c \in IV, Before(a, b), Before(b, c)
    PROVE  Before(a, c)
BY ByteAssumption, HighAssumption DEF Before, IV, Byte

\* Of two IVs one comes first.
LEMMA BeforeTotal ==
    ASSUME NEW a \in IV, NEW b \in IV, ~Before(a, b), ~Before(b, a)
    PROVE  a = b
BY ByteAssumption, HighAssumption DEF Before, IV, Byte

\* A late byte is never the next in order, so the history is consulted.
LEMMA LateNotInOrder ==
    ASSUME NEW iv \in IV, NEW b \in Byte, IsLate(iv, b)
    PROVE  ~InOrder(iv, b)
BY ByteAssumption, WindowAssumption DEF IsLate, Diff, Half, InOrder, IV, Byte

\* A packet that decrypts ahead of decrypt_iv comes after it.
LEMMA AheadIsAfter ==
    ASSUME NEW iv \in IV, NEW p \in IV, iv.rest <= MaxRest, p.rest <= MaxRest,
           IsAhead(iv, p.b0), Guess(iv, p.b0) = p
    PROVE  Before(iv, p)
BY ByteAssumption, HighAssumption, StartAssumption, NoNonceReuse
DEF IsAhead, Diff, Half, Guess, Carry, Before, IV, Byte

\* A packet that decrypts as late is inside the late window.
LEMMA LateIsInWindow ==
    ASSUME NEW iv \in IV, NEW p \in IV, iv.rest <= MaxRest, p.rest <= MaxRest,
           IsLate(iv, p.b0), Guess(iv, p.b0) = p
    PROVE  InLateWindow(p, iv) /\ Before(p, iv)
BY ByteAssumption, HighAssumption, StartAssumption, NoNonceReuse, WindowAssumption
DEF IsLate, Diff, Half, Guess, Borrow, Before, InLateWindow, IV, Byte

\* Two packets of one late window with the same byte are the same packet.
LEMMA OneByteOnePacket ==
    ASSUME NEW iv \in IV, NEW m \in IV, NEW n \in IV,
           n = iv \/ InLateWindow(n, iv), m = iv \/ InLateWindow(m, iv), m.b0 = n.b0
    PROVE  m = n
BY ByteAssumption, HighAssumption, WindowAssumption DEF InLateWindow, IV, Byte

\* What is inside the window of a newer packet and not newer than iv was
\* inside the window of iv: moving on brings nothing old back into reach.
LEMMA WindowShrinks ==
    ASSUME NEW iv \in IV, NEW m \in IV, NEW n \in IV,
           Before(iv, m), InLateWindow(n, m), n = iv \/ Before(n, iv)
    PROVE  n = iv \/ InLateWindow(n, iv)
BY ByteAssumption, HighAssumption, WindowAssumption DEF Before, InLateWindow, IV, Byte

-----------------------------------------------------------------------------
(* Type correctness and the range of the counters. *)

Typed == TypeOK /\ InRange

\* The initial state is typed and no counter is near its end.
LEMMA TypedInit == Init => Typed
<1> SUFFICES ASSUME Init PROVE Typed
  OBVIOUS
<1>1. encrypt_iv \in IV /\ encrypt_iv.rest <= MaxRest
  BY StartAssumption DEF Init, CryptInit
<1>2. decrypt_history \in [Byte -> Byte]
  BY ByteAssumption DEF Init, CryptInit, Byte
<1> QED
  BY <1>1, <1>2 DEF Init, CryptInit, Typed, TypeOK, CryptTypeOK, InRange, PacketStats

\* The lost counter stays a natural number: the guard of Adjust.
LEMMA AdjustType ==
    ASSUME NEW count \in Nat, NEW delta \in Int
    PROVE  Adjust(count, delta) \in Nat
BY DEF Adjust

\* Every nonce the sender may answer with is one it is entitled to use.
LEMMA ReadableType ==
    ASSUME Typed, NEW n \in ReadableNonces
    PROVE  n \in IV /\ n.rest <= MaxRest
<1>1. Successor(encrypt_iv) \in IV
  BY SuccessorType DEF Typed, TypeOK, CryptTypeOK
<1> QED
  BY <1>1 DEF Typed, TypeOK, CryptTypeOK, InRange, ReadableNonces, IV

\* A failed decryption touches the throttle and the requests, nothing else.
LEMMA FailedType ==
    ASSUME Typed, DecryptFailed
    PROVE  /\ requestRecent' \in BOOLEAN /\ goodRecent' \in BOOLEAN
           /\ requests' \in Nat
           /\ UNCHANGED <<encrypt_iv, decrypt_iv, decrypt_history, nonces>>
<1>1. CASE goodRecent \/ requestRecent
  BY <1>1 DEF DecryptFailed, Typed, TypeOK, CryptTypeOK, receiverVars
<1>2. CASE ~(goodRecent \/ requestRecent)
  BY <1>2 DEF DecryptFailed, Typed, TypeOK, CryptTypeOK, receiverVars
<1> QED
  BY <1>1, <1>2

\* No step leaves the types or lets a counter run out.
LEMMA TypedStep == Typed /\ [Next]_deliveryVars => Typed'
<1> SUFFICES ASSUME Typed, [Next]_deliveryVars PROVE Typed'
  OBVIOUS
<1> USE DEF Typed, TypeOK, CryptTypeOK, InRange
<1>1. CASE UNCHANGED deliveryVars
  BY <1>1 DEF deliveryVars, cryptVars, receiverVars, timerVars, controlVars
<1>2. CASE Undelivered /\ UNCHANGED <<m_statsLocal, copies, syncedAt>>
  <2>1. CASE Encrypt
    <3>1. encrypt_iv' \in IV /\ encrypt_iv'.rest <= MaxRest
      BY <2>1, SuccessorType DEF Encrypt
    <3> QED
      BY <1>2, <2>1, <3>1 DEF Encrypt, receiverVars, timerVars, controlVars
  <2>2. CASE AnswerRequest
    <3>1. PICK n \in ReadableNonces : nonces' = Append(nonces, n)
      BY <2>2 DEF AnswerRequest
    <3>2. n \in IV /\ n.rest <= MaxRest
      BY <3>1, ReadableType
    <3>3. nonces' \in Seq(IV)
      BY <3>1, <3>2
    <3>4. \A i \in 1 .. Len(nonces') : nonces'[i].rest <= MaxRest
      BY <3>1, <3>2
    <3> QED
      BY <1>2, <2>2, <3>3, <3>4 DEF AnswerRequest, receiverVars, timerVars
  <2>3. ASSUME NEW p \in net, Reject(p) PROVE Typed'
    BY <1>2, <2>3, FailedType DEF Reject, Consume
  <2>4. ASSUME NEW p \in net, Lose(p) PROVE Typed'
    BY <1>2, <2>4 DEF Lose, receiverVars, timerVars, controlVars
  <2>5. CASE RejectDamaged
    BY <1>2, <2>5, FailedType DEF RejectDamaged
  <2>6. CASE GoodTimeout
    BY <1>2, <2>6 DEF GoodTimeout, receiverVars, controlVars
  <2>7. CASE RequestTimeout
    BY <1>2, <2>7 DEF RequestTimeout, receiverVars, controlVars
  <2> QED
    BY <1>2, <2>1, <2>2, <2>3, <2>4, <2>5, <2>6, <2>7 DEF Undelivered
<1>3. ASSUME NEW p \in net, DeliverAhead(p) PROVE Typed'
  <2>1. p \in IV /\ p.rest <= MaxRest /\ p.b0 \in Byte
    BY DEF IV
  <2>2. decrypt_iv' = p
    BY <1>3 DEF DeliverAhead, AcceptAhead, Decrypts
  <2>3. decrypt_history' \in [Byte -> Byte]
    BY <1>3, <2>1, LowDigitType DEF DeliverAhead, AcceptAhead, Remember, IV
  <2>4. m_statsLocal' \in PacketStats
    <3>1. Diff(decrypt_iv, p.b0) - 1 \in Int
      BY <2>1, DiffType
    <3>2. Adjust(m_statsLocal.lost, Diff(decrypt_iv, p.b0) - 1) \in Nat
      BY <3>1, AdjustType DEF PacketStats
    <3> QED
      BY <1>3, <3>2 DEF DeliverAhead, CountLost, PacketStats
  <2>5. copies' \in [IV -> Nat] /\ syncedAt' \in IV
    BY <1>3, <2>1 DEF DeliverAhead, Deliver
  <2> QED
    BY <1>3, <2>1, <2>2, <2>3, <2>4, <2>5
    DEF DeliverAhead, AcceptAhead, Consume, controlVars
<1>4. ASSUME NEW p \in net, DeliverLate(p) PROVE Typed'
  <2>1. p \in IV /\ p.b0 \in Byte
    BY DEF IV
  <2>2. decrypt_history' \in [Byte -> Byte]
    BY <1>4, <2>1, LowDigitType DEF DeliverLate, AcceptLate, Remember, IV
  <2>3. m_statsLocal' \in PacketStats
    BY <1>4, AdjustType DEF DeliverLate, CountLost, PacketStats
  <2>4. copies' \in [IV -> Nat] /\ syncedAt' \in IV
    BY <1>4, <2>1 DEF DeliverLate, Deliver
  <2> QED
    BY <1>4, <2>1, <2>2, <2>3, <2>4 DEF DeliverLate, AcceptLate, Consume, controlVars
<1>5. CASE Resync
  <2>1. Head(nonces) \in IV /\ Head(nonces).rest <= MaxRest
    BY <1>5 DEF Resync, InstallNonce
  <2>2. Tail(nonces) \in Seq(IV)
    BY <1>5 DEF Resync, InstallNonce
  <2>3. \A i \in 1 .. Len(Tail(nonces)) : Tail(nonces)[i].rest <= MaxRest
    BY <1>5, SMTT(30) DEF Resync, InstallNonce
  <2> QED
    BY <1>5, <2>1, <2>2, <2>3, SMTT(30) DEF Resync, InstallNonce, PacketStats, timerVars
<1> QED
  BY <1>1, <1>2, <1>3, <1>4, <1>5 DEF Next

\* Every variable keeps its type and every counter its range: the sender's
\* IV, the receiver's, and every IV in a datagram or an answer.
THEOREM TypeCorrect == Spec => [](TypeOK /\ InRange)
<1>1. Init => Typed
  BY TypedInit
<1>2. Typed /\ [Next]_deliveryVars => Typed'
  BY TypedStep
<1>3. Typed => TypeOK /\ InRange
  BY DEF Typed
<1> QED
  BY <1>1, <1>2, <1>3, PTL DEF Spec

-----------------------------------------------------------------------------
(* At most once.  AtMostOnce alone is not inductive: that a late packet is *)
(* fresh is known only through the history, and that a packet ahead is     *)
(* fresh only because nothing delivered lies beyond decrypt_iv.            *)

Guarded == AtMostOnce /\ NewestLeads /\ HistoryCovers

\* Nothing is delivered before the first packet.
LEMMA GuardedInit == Init => Guarded
BY DEF Init, CryptInit, Guarded, AtMostOnce, NewestLeads, HistoryCovers

\* Moving decrypt_iv to a packet ahead keeps the three parts.
LEMMA AheadGuarded ==
    ASSUME Typed, Guarded, NEW p \in net, DeliverAhead(p)
    PROVE  Guarded'
<1> USE DEF Typed, TypeOK, CryptTypeOK, InRange
<1>1. p \in IV /\ decrypt_iv \in IV /\ p.b0 \in Byte
  BY DEF IV
<1>2. decrypt_iv' = p /\ Before(decrypt_iv, p)
  BY <1>1, AheadIsAfter DEF DeliverAhead, AcceptAhead, Decrypts
<1>3. decrypt_history' = [decrypt_history EXCEPT ![p.b0] = LowDigit(p.rest)]
  BY DEF DeliverAhead, AcceptAhead, Remember
<1>4. copies' = [copies EXCEPT ![p] = copies[p] + 1]
  BY DEF DeliverAhead, Deliver
<1>5. copies[p] = 0
  <2>1. ~(p = decrypt_iv \/ Before(p, decrypt_iv))
    BY <1>1, <1>2, BeforeStrict
  <2> QED
    BY <1>1, <2>1 DEF Guarded, NewestLeads
<1>6. AtMostOnce'
  BY <1>1, <1>4, <1>5 DEF Guarded, AtMostOnce
<1>7. NewestLeads'
  <2> SUFFICES ASSUME NEW n \in IV, copies'[n] > 0
               PROVE  n = p \/ Before(n, p)
    BY <1>2 DEF NewestLeads
  <2>1. CASE n = p
    BY <2>1
  <2>2. CASE n # p
    <3>1. n = decrypt_iv \/ Before(n, decrypt_iv)
      BY <1>1, <1>4, <2>2 DEF Guarded, NewestLeads
    <3> QED
      BY <1>1, <1>2, <3>1, BeforeTransitive
  <2> QED
    BY <2>1, <2>2
<1>8. HistoryCovers'
  <2> SUFFICES ASSUME NEW n \in IV, copies'[n] > 0, n = p \/ InLateWindow(n, p)
               PROVE  decrypt_history'[n.b0] = LowDigit(n.rest)
    BY <1>2 DEF HistoryCovers
  <2>0. n.b0 \in Byte
    BY DEF IV
  <2>1. CASE n = p
    BY <1>1, <1>3, <2>1
  <2>2. CASE n # p
    <3>1. n.b0 # p.b0
      BY <1>1, <2>2, OneByteOnePacket
    <3>2. copies[n] > 0
      BY <1>1, <1>4, <2>2
    <3>3. n = decrypt_iv \/ Before(n, decrypt_iv)
      BY <3>2 DEF Guarded, NewestLeads
    <3>4. n = decrypt_iv \/ InLateWindow(n, decrypt_iv)
      BY <1>1, <1>2, <2>2, <3>3, WindowShrinks
    <3>5. decrypt_history[n.b0] = LowDigit(n.rest)
      BY <3>2, <3>4 DEF Guarded, HistoryCovers
    <3> QED
      BY <1>1, <1>3, <2>0, <3>1, <3>5
  <2> QED
    BY <2>1, <2>2
<1> QED
  BY <1>6, <1>7, <1>8 DEF Guarded

\* Accepting a late packet keeps the three parts.
LEMMA LateGuarded ==
    ASSUME Typed, Guarded, NEW p \in net, DeliverLate(p)
    PROVE  Guarded' /\ copies[p] = 0
<1> USE DEF Typed, TypeOK, CryptTypeOK, InRange
<1>1. p \in IV /\ decrypt_iv \in IV /\ p.b0 \in Byte
  BY DEF IV
<1>2. decrypt_iv' = decrypt_iv /\ InLateWindow(p, decrypt_iv) /\ Before(p, decrypt_iv)
  BY <1>1, LateIsInWindow DEF DeliverLate, AcceptLate, Decrypts
<1>3. decrypt_history' = [decrypt_history EXCEPT ![p.b0] = LowDigit(p.rest)]
  BY DEF DeliverLate, AcceptLate, Remember
<1>4. copies' = [copies EXCEPT ![p] = copies[p] + 1]
  BY DEF DeliverLate, Deliver
<1>5. copies[p] = 0
  <2>1. ~InOrder(decrypt_iv, p.b0)
    BY <1>1, LateNotInOrder DEF DeliverLate, AcceptLate
  <2>2. decrypt_history[p.b0] # LowDigit(p.rest)
    BY <2>1 DEF DeliverLate, AcceptLate, Decrypts, IsRepeat
  <2> QED
    BY <1>1, <1>2, <2>2 DEF Guarded, HistoryCovers
<1>6. AtMostOnce'
  BY <1>1, <1>4, <1>5 DEF Guarded, AtMostOnce
<1>7. NewestLeads'
  <2> SUFFICES ASSUME NEW n \in IV, copies'[n] > 0
               PROVE  n = decrypt_iv \/ Before(n, decrypt_iv)
    BY <1>2 DEF NewestLeads
  <2>1. CASE n = p
    BY <1>2, <2>1
  <2>2. CASE n # p
    BY <1>1, <1>4, <2>2 DEF Guarded, NewestLeads
  <2> QED
    BY <2>1, <2>2
<1>8. HistoryCovers'
  <2> SUFFICES ASSUME NEW n \in IV, copies'[n] > 0,
                      n = decrypt_iv \/ InLateWindow(n, decrypt_iv)
               PROVE  decrypt_history'[n.b0] = LowDigit(n.rest)
    BY <1>2 DEF HistoryCovers
  <2>0. n.b0 \in Byte
    BY DEF IV
  <2>1. CASE n = p
    BY <1>1, <1>3, <2>1
  <2>2. CASE n # p
    <3>1. n.b0 # p.b0
      BY <1>1, <1>2, <2>2, OneByteOnePacket
    <3>2. decrypt_history[n.b0] = LowDigit(n.rest)
      BY <1>1, <1>4, <2>2 DEF Guarded, HistoryCovers
    <3> QED
      BY <1>1, <1>3, <2>0, <3>1, <3>2
  <2> QED
    BY <2>1, <2>2
<1> QED
  BY <1>5, <1>6, <1>7, <1>8 DEF Guarded

\* Every other step leaves the three parts alone; a resync starts afresh.
LEMMA GuardedStep == Typed /\ Guarded /\ [Next]_deliveryVars => Guarded'
<1> SUFFICES ASSUME Typed, Guarded, [Next]_deliveryVars PROVE Guarded'
  OBVIOUS
<1> USE DEF Guarded, AtMostOnce, NewestLeads, HistoryCovers
<1>1. CASE UNCHANGED <<decrypt_iv, decrypt_history, copies>>
  BY <1>1
<1>2. CASE Undelivered /\ UNCHANGED <<m_statsLocal, copies, syncedAt>>
  <2>1. UNCHANGED <<decrypt_iv, decrypt_history>>
    BY <1>2 DEF Undelivered, Encrypt, AnswerRequest, Reject, Lose, RejectDamaged,
       DecryptFailed, GoodTimeout, RequestTimeout, receiverVars
  <2> QED
    BY <1>1, <1>2, <2>1
<1>3. ASSUME NEW p \in net, DeliverAhead(p) PROVE Guarded'
  BY <1>3, AheadGuarded
<1>4. ASSUME NEW p \in net, DeliverLate(p) PROVE Guarded'
  BY <1>4, LateGuarded
<1>5. CASE Resync
  BY <1>5 DEF Resync
<1> QED
  BY <1>1, <1>2, <1>3, <1>4, <1>5 DEF Next, deliveryVars, cryptVars, receiverVars

\* The three parts hold in every state.
LEMMA AlwaysGuarded == Spec => [](AtMostOnce /\ NewestLeads /\ HistoryCovers)
<1>1. Init => Typed /\ Guarded
  BY TypedInit, GuardedInit
<1>2. (Typed /\ Guarded) /\ [Next]_deliveryVars => (Typed /\ Guarded)'
  BY TypedStep, GuardedStep
<1>3. Typed /\ Guarded => AtMostOnce /\ NewestLeads /\ HistoryCovers
  BY DEF Guarded
<1> QED
  BY <1>1, <1>2, <1>3, PTL DEF Spec

\* Between two synchronisations decrypt accepts no packet twice.
THEOREM DeliversAtMostOnce == Spec => []AtMostOnce
BY AlwaysGuarded, PTL

\* Nothing that decrypt accepted lies beyond decrypt_iv: a late packet restores
\* the IV it was checked with.
THEOREM NewestInFront == Spec => []NewestLeads
BY AlwaysGuarded, PTL

\* decrypt_history remembers every accepted packet that could still be repeated
\* inside the window for late packets.
THEOREM HistorySuffices == Spec => []HistoryCovers
BY AlwaysGuarded, PTL

-----------------------------------------------------------------------------
(* The refinement: bytes, carries and history against packet numbers. *)

\* The numbers of two IVs whose rest is equal or adjacent.
LEMMA NumberSteps ==
    ASSUME NEW a \in IV, NEW b \in IV
    PROVE  /\ Number(a) \in Nat
           /\ a.rest = b.rest => Number(b) - Number(a) = b.b0 - a.b0
           /\ b.rest = a.rest + 1 => Number(b) - Number(a) = ByteValues + b.b0 - a.b0
<1> DEFINE B == ByteValues
<1>1. B \in Nat /\ a.rest \in Nat /\ b.rest \in Nat /\ a.b0 \in Nat /\ b.b0 \in Nat
  BY ByteAssumption, HighAssumption DEF IV, Byte
<1>2. Number(a) \in Nat
  <2>1. \A r, c, d \in Nat : r * c + d \in Nat
    OBVIOUS
  <2> QED
    BY <1>1, <2>1 DEF Number
<1>3. b.rest = a.rest + 1 => b.rest * B = a.rest * B + B
  <2>1. \A r, c \in Nat : (r + 1) * c = r * c + c
    OBVIOUS
  <2> QED
    BY <1>1, <2>1
<1>4. a.rest * B \in Int /\ b.rest * B \in Int
  <2>1. \A r, c \in Nat : r * c \in Int
    OBVIOUS
  <2> QED
    BY <1>1, <2>1
<1>5. a.rest = b.rest => Number(b) - Number(a) = b.b0 - a.b0
  BY <1>1, <1>4 DEF Number
<1> HIDE DEF B
<1>6. Number(a) = a.rest * B + a.b0 /\ Number(b) = b.rest * B + b.b0
  BY DEF Number, B
<1>7. ASSUME b.rest = a.rest + 1
      PROVE  Number(b) - Number(a) = B + b.b0 - a.b0
  <2> DEFINE x == a.rest * B
             y == b.rest * B
  <2>1. x \in Int /\ y = x + B /\ Number(a) = x + a.b0 /\ Number(b) = y + b.b0
    BY <1>3, <1>4, <1>6, <1>7
  <2> HIDE DEF x, y
  <2> QED
    BY <1>1, <2>1
<1> QED
  BY <1>2, <1>5, <1>7 DEF B

\* Numbering packets keeps their order ...
LEMMA NumberOrder ==
    ASSUME NEW a \in IV, NEW b \in IV, Before(a, b)
    PROVE  Number(a) < Number(b)
<1> DEFINE B == ByteValues
<1>1. /\ B \in Nat /\ B > 0 /\ a.rest \in Nat /\ b.rest \in Nat
      /\ a.b0 \in 0 .. B - 1 /\ b.b0 \in 0 .. B - 1
  BY ByteAssumption, HighAssumption DEF IV, Byte
<1> HIDE DEF B
<1>2. \A r, s, c, d \in Nat :
        c < B /\ d < B /\ r < s => r * B + c < s * B + d
  <2>1. \A r, k, m \in Nat : (r + 1 + k) * m = r * m + m + k * m
    OBVIOUS
  <2>2. \A k, m \in Nat : k * m \in Nat
    OBVIOUS
  <2> TAKE r, s, c, d \in Nat
  <2> HAVE c < B /\ d < B /\ r < s
  <2> DEFINE k == s - r - 1
  <2>3. k \in Nat /\ s = r + 1 + k
    OBVIOUS
  <2> HIDE DEF k
  <2>4. s * B = r * B + B + k * B
    BY <1>1, <2>1, <2>3
  <2>5. r * B \in Nat /\ k * B \in Nat
    BY <1>1, <2>2, <2>3
  <2> DEFINE x == r * B
             y == k * B
  <2>6. x \in Nat /\ y \in Nat /\ s * B = x + B + y
    BY <2>4, <2>5
  <2> HIDE DEF x, y
  <2>7. x + c < x + B + y + d
    BY <1>1, <2>6
  <2> QED
    BY <2>6, <2>7 DEF x
<1>3. Number(a) = a.rest * B + a.b0 /\ Number(b) = b.rest * B + b.b0
  BY DEF Number, B
<1>4. Number(a) \in Nat /\ Number(b) \in Nat
  BY NumberSteps
<1>5. CASE a.rest < b.rest
  <2>1. a.b0 \in Nat /\ b.b0 \in Nat /\ a.b0 < B /\ b.b0 < B
    BY <1>1
  <2>2. a.rest * B + a.b0 < b.rest * B + b.b0
    BY <1>1, <1>2, <1>5, <2>1
  <2> QED
    BY <1>3, <2>2
<1>6. CASE a.rest = b.rest /\ a.b0 < b.b0
  <2>1. Number(b) - Number(a) = b.b0 - a.b0
    BY <1>6, NumberSteps
  <2>2. a.b0 \in Nat /\ b.b0 \in Nat
    BY <1>1
  <2> QED
    BY <1>4, <1>6, <2>1, <2>2
<1> QED
  BY <1>5, <1>6 DEF Before

\* ... and loses nothing.
LEMMA NumberInjective ==
    ASSUME NEW a \in IV, NEW b \in IV, Number(a) = Number(b)
    PROVE  a = b
<1>1. Number(a) \in Nat /\ Number(b) \in Nat
  BY NumberSteps
<1>2. ~Before(a, b) /\ ~Before(b, a)
  BY <1>1, NumberOrder
<1> QED
  BY <1>2, BeforeTotal

\* The distance a byte ahead stands for is at most half a turn.
LEMMA AheadInReach ==
    ASSUME NEW iv \in IV, NEW p \in IV, iv.rest <= MaxRest, p.rest <= MaxRest,
           IsAhead(iv, p.b0), Guess(iv, p.b0) = p
    PROVE  Number(p) > Number(iv) /\ Number(p) - Number(iv) <= Half
<1>1. \/ p.rest = iv.rest /\ p.b0 - iv.b0 \in 1 .. Half
      \/ p.rest = iv.rest + 1 /\ ByteValues + p.b0 - iv.b0 \in 1 .. Half
  BY ByteAssumption, HighAssumption, StartAssumption, NoNonceReuse
  DEF IsAhead, Diff, Half, Guess, Carry, IV, Byte
<1>2. Number(p) \in Nat /\ Number(iv) \in Nat
  BY NumberSteps
<1>3. Half \in Nat
  BY ByteAssumption DEF Half
<1>4. Number(p) - Number(iv) \in 1 .. Half
  BY <1>1, NumberSteps
<1> QED
  BY <1>2, <1>3, <1>4

\* The distance a late byte stands for is less than the window.
LEMMA LateInReach ==
    ASSUME NEW iv \in IV, NEW p \in IV, InLateWindow(p, iv)
    PROVE  Number(p) < Number(iv) /\ Number(iv) - Number(p) < LateWindow
<1>1. Number(p) \in Nat /\ Number(iv) \in Nat /\ LateWindow \in Int
  BY NumberSteps, WindowAssumption, ByteAssumption
<1>2. CASE p.rest = iv.rest /\ p.b0 < iv.b0 /\ iv.b0 - p.b0 < LateWindow
  <2>1. Number(iv) - Number(p) = iv.b0 - p.b0
    BY <1>2, NumberSteps
  <2>2. p.b0 \in Int /\ iv.b0 \in Int
    BY ByteAssumption DEF IV, Byte
  <2> QED
    BY <1>1, <1>2, <2>1, <2>2
<1>3. CASE /\ p.rest + 1 = iv.rest /\ p.b0 > iv.b0
           /\ ByteValues + iv.b0 - p.b0 < LateWindow
  <2>1. Number(iv) - Number(p) = ByteValues + iv.b0 - p.b0
    BY <1>3, NumberSteps
  <2>2. p.b0 \in 0 .. ByteValues - 1 /\ iv.b0 \in Nat /\ ByteValues \in Nat
    BY ByteAssumption DEF IV, Byte
  <2> QED
    BY <1>1, <1>3, <2>1, <2>2
<1> QED
  BY <1>2, <1>3 DEF InLateWindow

\* The packet numbers handed on, as the abstract window sees them.
Numbers == {Number(n) : n \in Delivered}

\* Handing on a fresh packet adds exactly its number, a new one.
LEMMA FreshNumber ==
    ASSUME TypeOK, NEW p \in IV, copies[p] = 0, Deliver(p)
    PROVE  /\ Number(p) \notin Numbers
           /\ Numbers' = Numbers \cup {Number(p)}
<1>1. copies' = [copies EXCEPT ![p] = copies[p] + 1]
  BY DEF Deliver
<1>2. Delivered' = Delivered \cup {p}
  BY <1>1 DEF Delivered, TypeOK
<1>3. p \notin Delivered
  BY DEF Delivered
<1>4. Number(p) \notin Numbers
  BY <1>3, NumberInjective DEF Numbers, Delivered
<1>5. Numbers' = {Number(n) : n \in Delivered'}
  BY DEF Numbers, Number
<1> QED
  BY <1>2, <1>4, <1>5 DEF Numbers

\* The receiver starts as the window starts.
LEMMA WindowInit == Init => Window!Init
<1> SUFFICES ASSUME Init PROVE Window!Init
  OBVIOUS
<1>1. decrypt_iv \in IV
  BY StartAssumption DEF Init, CryptInit
<1>2. Number(decrypt_iv) \in Nat
  BY <1>1, NumberSteps
<1>3. Delivered = {}
  BY DEF Init, Delivered
<1> QED
  BY <1>2, <1>3 DEF Window!Init

\* Every step of the receiver is a step of the window or a stutter.
LEMMA WindowStep ==
    Typed /\ Guarded /\ [Next]_deliveryVars => [Window!Next]_(Window!windowVars)
<1> SUFFICES ASSUME Typed, Guarded, [Next]_deliveryVars
             PROVE  [Window!Next]_(Window!windowVars)
  OBVIOUS
<1>0. decrypt_iv \in IV /\ decrypt_iv.rest <= MaxRest /\ net \subseteq IV
  BY DEF Typed, TypeOK, CryptTypeOK, InRange
<1>1. ASSUME UNCHANGED <<decrypt_iv, copies>> PROVE [Window!Next]_(Window!windowVars)
  BY <1>1 DEF Window!windowVars, Delivered
<1>2. CASE Undelivered /\ UNCHANGED <<m_statsLocal, copies, syncedAt>>
  <2>1. decrypt_iv' = decrypt_iv
    BY <1>2 DEF Undelivered, Encrypt, AnswerRequest, Reject, Lose, RejectDamaged,
       DecryptFailed, GoodTimeout, RequestTimeout, receiverVars
  <2> QED
    BY <1>1, <1>2, <2>1
<1>3. ASSUME NEW p \in net, DeliverAhead(p) PROVE Window!Deliver
  <2>1. p \in IV /\ p.rest <= MaxRest
    BY <1>0 DEF Typed, InRange
  <2>2. decrypt_iv' = p /\ Guess(decrypt_iv, p.b0) = p /\ IsAhead(decrypt_iv, p.b0)
    BY <1>3 DEF DeliverAhead, AcceptAhead, Decrypts
  <2>3. Before(decrypt_iv, p)
    BY <1>0, <2>1, <2>2, AheadIsAfter
  <2>4. copies[p] = 0
    <3>1. ~(p = decrypt_iv \/ Before(p, decrypt_iv))
      BY <1>0, <2>1, <2>3, BeforeStrict
    <3> QED
      BY <2>1, <3>1 DEF Guarded, NewestLeads, Typed, TypeOK
  <2>5. Number(p) \notin Numbers /\ Numbers' = Numbers \cup {Number(p)}
    BY <1>3, <2>1, <2>4, FreshNumber DEF DeliverAhead, Typed
  <2>6. Number(p) > Number(decrypt_iv) /\ Number(p) - Number(decrypt_iv) <= Half
    BY <1>0, <2>1, <2>2, AheadInReach
  <2>7. Number(decrypt_iv)' = Number(p)
    BY <2>2 DEF Number
  <2> QED
    BY <2>5, <2>6, <2>7 DEF Window!Deliver, Window!DeliverAhead, Numbers
<1>4. ASSUME NEW p \in net, DeliverLate(p) PROVE Window!Deliver
  <2>1. p \in IV /\ p.rest <= MaxRest
    BY <1>0 DEF Typed, InRange
  <2>2. /\ decrypt_iv' = decrypt_iv /\ Guess(decrypt_iv, p.b0) = p
        /\ IsLate(decrypt_iv, p.b0)
    BY <1>4 DEF DeliverLate, AcceptLate, Decrypts
  <2>3. copies[p] = 0
    BY <1>4, LateGuarded
  <2>4. Number(p) \notin Numbers /\ Numbers' = Numbers \cup {Number(p)}
    BY <1>4, <2>1, <2>3, FreshNumber DEF DeliverLate, Typed
  <2>5. InLateWindow(p, decrypt_iv)
    BY <1>0, <2>1, <2>2, LateIsInWindow
  <2>6. Number(p) < Number(decrypt_iv) /\ Number(decrypt_iv) - Number(p) < LateWindow
    BY <1>0, <2>1, <2>5, LateInReach
  <2>7. Number(decrypt_iv)' = Number(decrypt_iv)
    BY <2>2 DEF Number
  <2> QED
    BY <2>4, <2>6, <2>7 DEF Window!Deliver, Window!DeliverLate, Numbers
<1>5. CASE Resync
  <2>1. decrypt_iv' \in IV
    BY <1>5, TypedStep DEF Typed, TypeOK, CryptTypeOK
  <2>2. Number(decrypt_iv)' \in Nat
    <3>1. Number(decrypt_iv') \in Nat
      BY <2>1, NumberSteps
    <3> QED
      BY <3>1 DEF Number
  <2>3. Delivered' = {}
    BY <1>5 DEF Resync, Delivered
  <2>4. Window!Synchronise
    BY <2>2, <2>3 DEF Window!Synchronise
  <2> QED
    BY <2>4 DEF Window!Next
<1> QED
  BY <1>1, <1>2, <1>3, <1>4, <1>5 DEF Next, Window!Next, deliveryVars, cryptVars, receiverVars

\* CryptStateOCB2 with its 256-entry history, its folded byte distance and
\* its carries behaves as a window over packet numbers: at most Half ahead,
\* less than LateWindow behind, and never the same number twice.
THEOREM ImplementsReplayWindow == Spec => ImplementsWindow
<1>1. Init => Window!Init
  BY WindowInit
<1>2. Init => Typed /\ Guarded
  BY TypedInit, GuardedInit
<1>3. (Typed /\ Guarded) /\ [Next]_deliveryVars => (Typed /\ Guarded)'
  BY TypedStep, GuardedStep
<1>4. Typed /\ Guarded /\ [Next]_deliveryVars => [Window!Next]_(Window!windowVars)
  BY WindowStep
<1> QED
  BY <1>1, <1>2, <1>3, <1>4, PTL DEF Spec, ImplementsWindow, Window!Spec
=============================================================================
