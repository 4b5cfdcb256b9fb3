--------------------------- MODULE CryptLossProofs ---------------------------
(***************************************************************************)
(* Proofs about what CryptDelivery counts and forgets: how far the count   *)
(* of lost packets can be from the truth, that decrypt_iv only goes back   *)
(* with a resync, and which fresh packets are taken for a repeat.          *)
(***************************************************************************)
EXTENDS CryptDeliveryProofs, FiniteSetTheorems

\* The packets passed over when decrypt_iv moves from iv to p.
Between(iv, p) == {n \in IV : Before(iv, n) /\ Before(n, p)}

\* Before the first resync everything the sender has encrypted comes after the
\* IV both sides started from, and the count of lost packets is nearly right.
Counted ==
    m_statsLocal.resync = 0 =>
        /\ syncedAt \in StartIVs
        /\ encrypt_iv = syncedAt \/ Before(syncedAt, encrypt_iv)
        /\ decrypt_iv = syncedAt \/ Before(syncedAt, decrypt_iv)
        /\ \A p \in net : Before(syncedAt, p)
        /\ IsFiniteSet(Missing)
        /\ LostWithinOne

\* The newest packet delivered with low byte b.
NewestOf(n, b) == n.b0 = b /\ \A m \in Delivered : m.b0 = b => m.rest <= n.rest

\* What decrypt_history holds of a byte is the digit of the newest packet
\* delivered with it, or the zero of the constructor before there is one.
Remembered ==
    m_statsLocal.resync = 0 =>
        \A b \in Byte :
            \/ decrypt_history[b] = 0 /\ \A n \in Delivered : n.b0 # b
            \/ \E n \in Delivered : NewestOf(n, b) /\ decrypt_history[b] = LowDigit(n.rest)

-----------------------------------------------------------------------------
(* Counting the packets passed over. *)

\* The order of the numbers is the order of the counter.
LEMMA NumberBefore ==
    ASSUME NEW a \in IV, NEW b \in IV
    PROVE  /\ Number(a) < Number(b) <=> Before(a, b)
           /\ Number(a) <= Number(b) <=> a = b \/ Before(a, b)
<1>1. Number(a) \in Nat /\ Number(b) \in Nat
  BY NumberSteps
<1>2. Before(a, b) => Number(a) < Number(b)
  BY NumberOrder
<1>3. Before(b, a) => Number(b) < Number(a)
  BY NumberOrder
<1>4. Before(a, b) \/ Before(b, a) \/ a = b
  BY BeforeTotal
<1> QED
  BY <1>1, <1>2, <1>3, <1>4

\* A packet k ahead passes over k - 1 others.
LEMMA BetweenCount ==
    ASSUME NEW iv \in IV, NEW p \in IV, iv.rest <= MaxRest, p.rest <= MaxRest,
           IsAhead(iv, p.b0), Guess(iv, p.b0) = p
    PROVE  /\ Diff(iv, p.b0) \in Nat \ {0}
           /\ IsFiniteSet(Between(iv, p))
           /\ Cardinality(Between(iv, p)) = Diff(iv, p.b0) - 1
<1> DEFINE k == Diff(iv, p.b0)
           S == 1 .. (k - 1)
           T == Between(iv, p)
           h == [j \in S |-> IF iv.b0 + j < ByteValues
                             THEN [b0 |-> iv.b0 + j, rest |-> iv.rest]
                             ELSE [b0 |-> iv.b0 + j - ByteValues, rest |-> iv.rest + 1]]
<1>1. /\ ByteValues \in Nat /\ HighValues \in Nat /\ MaxRest <= HighValues - 2 /\ MaxRest \in Nat
      /\ iv.b0 \in 0 .. ByteValues - 1 /\ p.b0 \in 0 .. ByteValues - 1
      /\ iv.rest \in Nat /\ p.rest \in Nat
  BY ByteAssumption, HighAssumption, StartAssumption, NoNonceReuse DEF IV, Byte
<1>2. /\ k \in Nat \ {0}
      /\ \/ p.rest = iv.rest /\ k = p.b0 - iv.b0
         \/ p.rest = iv.rest + 1 /\ k = ByteValues + p.b0 - iv.b0 /\ k <= Half
  BY ByteAssumption, HighAssumption, StartAssumption, NoNonceReuse
  DEF IsAhead, Diff, Half, Guess, Carry, IV, Byte
<1>3. k < ByteValues
  BY <1>1, <1>2, ByteAssumption DEF Half
<1> HIDE DEF k
<1>4. ASSUME NEW j \in S
      PROVE  h[j] \in T
  <2>1. j \in 1 .. (k - 1) /\ j \in Nat
    BY <1>2
  <2>2. CASE iv.b0 + j < ByteValues
    <3>1. h[j] = [b0 |-> iv.b0 + j, rest |-> iv.rest]
      BY <2>2
    <3> QED
      BY <1>1, <1>2, <2>1, <2>2, <3>1 DEF Between, Before, IV, Byte
  <2>3. CASE iv.b0 + j >= ByteValues
    <3>1. h[j] = [b0 |-> iv.b0 + j - ByteValues, rest |-> iv.rest + 1]
      BY <1>1, <2>1, <2>3
    <3>2. p.rest = iv.rest + 1 /\ k = ByteValues + p.b0 - iv.b0
      BY <1>1, <1>2, <2>1, <2>3
    <3> QED
      BY <1>1, <1>2, <1>3, <2>1, <2>3, <3>1, <3>2 DEF Between, Before, IV, Byte
  <2> QED
    BY <1>1, <2>1, <2>2, <2>3
<1>5. ASSUME NEW i \in S, NEW j \in S, h[i] = h[j]
      PROVE  i = j
  <2>1. i \in 1 .. (k - 1) /\ j \in 1 .. (k - 1)
    OBVIOUS
  <2>2. h[i].b0 = h[j].b0 /\ h[i].rest = h[j].rest
    BY <1>5
  <2> QED
    BY <1>1, <1>2, <1>3, <2>1, <2>2
<1>6. ASSUME NEW n \in T
      PROVE  \E j \in S : h[j] = n
  <2>1. n \in IV /\ Before(iv, n) /\ Before(n, p)
    BY DEF Between
  <2>2. n.b0 \in 0 .. ByteValues - 1 /\ n.rest \in Nat /\ n = [b0 |-> n.b0, rest |-> n.rest]
    BY <2>1, HighAssumption DEF IV, Byte
  <2>3. CASE n.rest = iv.rest
    <3>1. n.b0 - iv.b0 \in S
      BY <1>1, <1>2, <2>1, <2>2, <2>3 DEF Before
    <3>2. h[n.b0 - iv.b0] = n
      BY <1>1, <2>2, <2>3, <3>1
    <3> QED
      BY <3>1, <3>2
  <2>4. CASE n.rest # iv.rest
    <3>1. n.rest = iv.rest + 1 /\ p.rest = iv.rest + 1 /\ n.b0 < p.b0
      BY <1>1, <1>2, <2>1, <2>2, <2>4 DEF Before
    <3>2. ByteValues + n.b0 - iv.b0 \in S
      BY <1>1, <1>2, <2>2, <3>1
    <3>3. h[ByteValues + n.b0 - iv.b0] = n
      BY <1>1, <2>2, <3>1, <3>2
    <3> QED
      BY <3>2, <3>3
  <2> QED
    BY <2>3, <2>4
<1>7. IsFiniteSet(S) /\ Cardinality(S) = k - 1
  BY <1>2, FS_Interval
<1>8. h \in [S -> T]
  BY <1>4
<1> HIDE DEF h, S, T
<1>9. ExistsBijection(S, T)
  <2>1. h \in Injection(S, T) /\ h \in Surjection(S, T)
    BY <1>5, <1>6, <1>8 DEF Injection, IsInjective, Surjection
  <2> QED
    BY <2>1 DEF ExistsBijection, Bijection
<1> QED
  BY <1>2, <1>7, <1>9, FS_Bijection DEF T, k

\* What is missing, by the order of the counter.
LEMMA MissingBefore ==
    ASSUME NEW s \in IV, NEW d \in IV, NEW c
    PROVE  {n \in IV : Number(n) > Number(s) /\ Number(n) <= Number(d) /\ c[n] = 0}
             = {n \in IV : Before(s, n) /\ (n = d \/ Before(n, d)) /\ c[n] = 0}
<1>1. ASSUME NEW n \in IV
      PROVE  /\ Number(n) > Number(s) <=> Before(s, n)
             /\ Number(n) <= Number(d) <=> n = d \/ Before(n, d)
  <2>1. Number(n) \in Nat /\ Number(s) \in Nat
    BY NumberSteps
  <2> QED
    BY <2>1, NumberBefore
<1> QED
  BY <1>1

-----------------------------------------------------------------------------
(* Every step keeps Counted. *)

LEMMA CountedInit == Init => Counted
<1> SUFFICES ASSUME Init PROVE Counted
  OBVIOUS
<1>1. decrypt_iv \in IV /\ syncedAt = decrypt_iv /\ encrypt_iv = decrypt_iv /\ syncedAt \in StartIVs
      /\ net = {}
  BY StartAssumption DEF Init, CryptInit
<1>2. Missing = {}
  <2>1. Missing = {n \in IV : /\ Before(syncedAt, n) /\ (n = decrypt_iv \/ Before(n, decrypt_iv))
                              /\ copies[n] = 0}
    BY <1>1, MissingBefore DEF Missing
  <2> QED
    BY <1>1, <2>1, BeforeStrict
<1>3. IsFiniteSet(Missing) /\ Cardinality(Missing) = 0
  BY <1>2, FS_EmptySet
<1>4. m_statsLocal.lost = 0
  BY DEF Init
<1> QED
  BY <1>1, <1>3, <1>4 DEF Counted, LostWithinOne

\* The packet skips some: they are missing now, and all are counted.
LEMMA AheadCounted ==
    ASSUME Typed, Guarded, Counted, NEW p \in net, DeliverAhead(p)
    PROVE  Counted'
<1> SUFFICES ASSUME m_statsLocal.resync = 0 PROVE Counted'
  BY DEF Typed, TypeOK, PacketStats, DeliverAhead, CountLost, Counted
<1>1. /\ p \in IV /\ decrypt_iv \in IV /\ syncedAt \in IV /\ decrypt_iv.rest <= MaxRest
      /\ p.rest <= MaxRest /\ m_statsLocal \in PacketStats /\ copies \in [IV -> Nat]
  BY DEF Typed, TypeOK, CryptTypeOK, InRange
<1>2. decrypt_iv' = p /\ IsAhead(decrypt_iv, p.b0) /\ Guess(decrypt_iv, p.b0) = p
  BY DEF DeliverAhead, AcceptAhead, Decrypts
<1>3. /\ encrypt_iv' = encrypt_iv /\ net' \subseteq net /\ syncedAt' = syncedAt
      /\ copies' = [copies EXCEPT ![p] = copies[p] + 1]
      /\ m_statsLocal' = [m_statsLocal EXCEPT
                            !.lost = Adjust(m_statsLocal.lost, Diff(decrypt_iv, p.b0) - 1)]
  BY DEF DeliverAhead, AcceptAhead, Consume, Deliver, CountLost
<1>4. /\ syncedAt \in StartIVs
      /\ encrypt_iv = syncedAt \/ Before(syncedAt, encrypt_iv)
      /\ decrypt_iv = syncedAt \/ Before(syncedAt, decrypt_iv)
      /\ \A q \in net : Before(syncedAt, q)
      /\ IsFiniteSet(Missing)
      /\ Cardinality(Missing) <= m_statsLocal.lost
      /\ m_statsLocal.lost <= Cardinality(Missing) + 1
  BY DEF Counted, LostWithinOne
<1>5. Before(decrypt_iv, p)
  BY <1>1, <1>2, AheadIsAfter
<1>6. \A n \in IV : Before(decrypt_iv, n) => copies[n] = 0
  <2> TAKE n \in IV
  <2> HAVE Before(decrypt_iv, n)
  <2>1. ~(n = decrypt_iv \/ Before(n, decrypt_iv))
    BY <1>1, BeforeStrict
  <2> QED
    BY <1>1, <2>1 DEF Guarded, NewestLeads
<1>7. Missing' = Missing \cup Between(decrypt_iv, p) /\ Missing \cap Between(decrypt_iv, p) = {}
  <2>1. Missing = {n \in IV : /\ Before(syncedAt, n) /\ (n = decrypt_iv \/ Before(n, decrypt_iv))
                              /\ copies[n] = 0}
    BY <1>1, MissingBefore DEF Missing
  <2>2. Missing' = {n \in IV : Before(syncedAt, n) /\ (n = p \/ Before(n, p)) /\ copies'[n] = 0}
    BY <1>1, <1>2, <1>3, MissingBefore DEF Missing, Number
  <2>3. \A n \in IV : copies'[n] = 0 <=> copies[n] = 0 /\ n # p
    BY <1>1, <1>3
  <2>4. \A n \in IV : Before(decrypt_iv, n) => Before(syncedAt, n)
    BY <1>1, <1>4, BeforeTransitive
  <2>5. \A n \in IV : n = decrypt_iv \/ Before(n, decrypt_iv) => Before(n, p) /\ n # p
    BY <1>1, <1>5, BeforeTransitive, BeforeStrict
  <2>6. \A n \in IV : ~(n = decrypt_iv \/ Before(n, decrypt_iv)) <=> Before(decrypt_iv, n)
    BY <1>1, BeforeTotal, BeforeStrict
  <2> QED
    BY <1>1, <1>6, <2>1, <2>2, <2>3, <2>4, <2>5, <2>6, BeforeStrict DEF Between
<1>8. /\ Diff(decrypt_iv, p.b0) \in Nat \ {0}
      /\ IsFiniteSet(Between(decrypt_iv, p))
      /\ Cardinality(Between(decrypt_iv, p)) = Diff(decrypt_iv, p.b0) - 1
  BY <1>1, <1>2, BetweenCount
<1>9. IsFiniteSet(Missing') /\ Cardinality(Missing') = Cardinality(Missing) + Diff(decrypt_iv, p.b0) - 1
  <2>1. Cardinality(Missing) \in Nat /\ Cardinality({}) = 0
    BY <1>4, FS_CardinalityType, FS_EmptySet
  <2> QED
    BY <1>4, <1>7, <1>8, <2>1, FS_Union
<1>10. m_statsLocal'.lost = m_statsLocal.lost + Diff(decrypt_iv, p.b0) - 1
       /\ m_statsLocal.lost \in Nat /\ Cardinality(Missing) \in Nat
  BY <1>1, <1>3, <1>4, <1>8, FS_CardinalityType DEF Adjust, PacketStats
<1>11. Before(syncedAt, p)
  BY <1>4
<1> QED
  BY <1>2, <1>3, <1>4, <1>8, <1>9, <1>10, <1>11 DEF Counted, LostWithinOne

\* The packet was missing; unless the count is one, it goes down with it.
LEMMA LateCounted ==
    ASSUME Typed, Guarded, Counted, NEW p \in net, DeliverLate(p)
    PROVE  Counted'
<1> SUFFICES ASSUME m_statsLocal.resync = 0 PROVE Counted'
  BY DEF Typed, TypeOK, PacketStats, DeliverLate, CountLost, Counted
<1>1. /\ p \in IV /\ decrypt_iv \in IV /\ syncedAt \in IV /\ decrypt_iv.rest <= MaxRest
      /\ p.rest <= MaxRest /\ m_statsLocal \in PacketStats /\ copies \in [IV -> Nat]
  BY DEF Typed, TypeOK, CryptTypeOK, InRange
<1>2. IsLate(decrypt_iv, p.b0) /\ Guess(decrypt_iv, p.b0) = p
  BY DEF DeliverLate, AcceptLate, Decrypts
<1>3. /\ encrypt_iv' = encrypt_iv /\ net' \subseteq net /\ syncedAt' = syncedAt
      /\ decrypt_iv' = decrypt_iv
      /\ copies' = [copies EXCEPT ![p] = copies[p] + 1]
      /\ m_statsLocal' = [m_statsLocal EXCEPT !.lost = Adjust(m_statsLocal.lost, -1)]
  BY DEF DeliverLate, AcceptLate, Consume, Deliver, CountLost
<1>4. /\ syncedAt \in StartIVs
      /\ encrypt_iv = syncedAt \/ Before(syncedAt, encrypt_iv)
      /\ decrypt_iv = syncedAt \/ Before(syncedAt, decrypt_iv)
      /\ \A q \in net : Before(syncedAt, q)
      /\ IsFiniteSet(Missing)
      /\ Cardinality(Missing) <= m_statsLocal.lost
      /\ m_statsLocal.lost <= Cardinality(Missing) + 1
  BY DEF Counted, LostWithinOne
<1>5. Before(p, decrypt_iv) /\ copies[p] = 0
  BY <1>1, <1>2, LateIsInWindow, LateGuarded
<1>6. p \in Missing /\ Missing' = Missing \ {p}
  <2>1. Missing = {n \in IV : /\ Before(syncedAt, n) /\ (n = decrypt_iv \/ Before(n, decrypt_iv))
                              /\ copies[n] = 0}
    BY <1>1, MissingBefore DEF Missing
  <2>2. Missing' = {n \in IV : /\ Before(syncedAt, n) /\ (n = decrypt_iv \/ Before(n, decrypt_iv))
                               /\ copies'[n] = 0}
    BY <1>1, <1>3, MissingBefore DEF Missing, Number
  <2>3. \A n \in IV : copies'[n] = 0 <=> copies[n] = 0 /\ n # p
    BY <1>1, <1>3
  <2> QED
    BY <1>1, <1>4, <1>5, <2>1, <2>2, <2>3
<1>7. /\ IsFiniteSet(Missing') /\ Cardinality(Missing') = Cardinality(Missing) - 1
      /\ Cardinality(Missing) \in Nat /\ Cardinality(Missing') \in Nat
  BY <1>4, <1>6, FS_RemoveElement, FS_CardinalityType
<1>8. m_statsLocal.lost \in Nat
      /\ m_statsLocal'.lost = IF m_statsLocal.lost > 1 THEN m_statsLocal.lost - 1 ELSE m_statsLocal.lost
  BY <1>1, <1>3 DEF Adjust, PacketStats
<1>9. Cardinality(Missing') <= m_statsLocal'.lost /\ m_statsLocal'.lost <= Cardinality(Missing') + 1
  BY <1>4, <1>7, <1>8
<1> QED
  BY <1>3, <1>4, <1>7, <1>9 DEF Counted, LostWithinOne

\* The sender's increment moves on while it stays in range.
LEMMA SuccessorAfter ==
    ASSUME NEW iv \in IV, iv.rest <= MaxRest, Successor(iv).rest <= MaxRest
    PROVE  Before(iv, Successor(iv))
BY ByteAssumption, HighAssumption, StartAssumption, NoNonceReuse
DEF Successor, Carry, Before, IV, Byte

\* Only a packet delivered changes what is missing and what is counted; the
\* sender moves away from the IV both sides started from.
LEMMA CountedStep == Typed /\ Guarded /\ Counted /\ [Next]_deliveryVars => Counted'
<1> SUFFICES ASSUME Typed, Guarded, Counted, [Next]_deliveryVars PROVE Counted'
  OBVIOUS
<1>0. /\ encrypt_iv \in IV /\ encrypt_iv.rest <= MaxRest /\ syncedAt \in IV
      /\ encrypt_iv' \in IV
  <2>1. Typed'
    BY TypedStep
  <2> QED
    BY <2>1 DEF Typed, TypeOK, CryptTypeOK, InRange
<1>1. ASSUME UNCHANGED <<decrypt_iv, m_statsLocal, copies, syncedAt>>,
             encrypt_iv' = encrypt_iv \/ Before(encrypt_iv, encrypt_iv'),
             \A q \in net' : q \in net \/ (q = encrypt_iv' /\ Before(encrypt_iv, encrypt_iv'))
      PROVE  Counted'
  <2>1. Missing' = Missing
    BY <1>1 DEF Missing, Number
  <2>2. m_statsLocal.resync = 0 /\ Before(encrypt_iv, encrypt_iv') => Before(syncedAt, encrypt_iv')
    BY <1>0, BeforeTransitive DEF Counted
  <2>3. m_statsLocal.resync = 0 => encrypt_iv' = syncedAt \/ Before(syncedAt, encrypt_iv')
    BY <1>1, <2>2 DEF Counted
  <2>4. m_statsLocal.resync = 0 => \A q \in net' : Before(syncedAt, q)
    BY <1>1, <2>2 DEF Counted
  <2> QED
    BY <1>1, <2>1, <2>3, <2>4 DEF Counted, LostWithinOne
<1>2. CASE Undelivered /\ UNCHANGED <<m_statsLocal, copies, syncedAt>>
  <2>1. CASE Encrypt
    <3>1. /\ encrypt_iv' = Successor(encrypt_iv) /\ Successor(encrypt_iv).rest <= MaxRest
          /\ net' = net \cup {encrypt_iv'} /\ UNCHANGED decrypt_iv
      BY <2>1 DEF Encrypt, receiverVars
    <3>2. Before(encrypt_iv, encrypt_iv')
      BY <1>0, <3>1, SuccessorAfter
    <3> QED
      BY <1>1, <1>2, <3>1, <3>2
  <2>2. CASE ~Encrypt
    <3>1. UNCHANGED <<decrypt_iv, encrypt_iv>> /\ net' \subseteq net
      BY <1>2, <2>2 DEF Undelivered, AnswerRequest, Reject, Lose, RejectDamaged, Consume,
         DecryptFailed, GoodTimeout, RequestTimeout, receiverVars
    <3> QED
      BY <1>1, <1>2, <3>1
  <2> QED
    BY <2>1, <2>2
<1>3. ASSUME NEW p \in net, DeliverAhead(p) PROVE Counted'
  BY <1>3, AheadCounted
<1>4. ASSUME NEW p \in net, DeliverLate(p) PROVE Counted'
  BY <1>4, LateCounted
<1>5. CASE Resync
  BY <1>5 DEF Resync, Counted, LostWithinOne, Typed, TypeOK, PacketStats
<1>6. CASE UNCHANGED deliveryVars
  BY <1>1, <1>6 DEF deliveryVars, cryptVars, receiverVars
<1> QED
  BY <1>2, <1>3, <1>4, <1>5, <1>6 DEF Next

\* Until the first resync m_statsLocal.lost, which decrypt() raises by the
\* gaps it sees and lowers by the packets that still arrive, is the number of
\* packets passed over or one more.
THEOREM LossCounted == Spec => []LostWithinOne
<1>1. Init => Typed /\ Guarded /\ Counted
  BY TypedInit, GuardedInit, CountedInit
<1>2. (Typed /\ Guarded /\ Counted) /\ [Next]_deliveryVars => (Typed /\ Guarded /\ Counted)'
  BY TypedStep, GuardedStep, CountedStep
<1>3. Typed /\ Guarded /\ Counted => LostWithinOne
  <2> SUFFICES ASSUME Counted PROVE LostWithinOne
    OBVIOUS
  <2> QED
    BY DEF Counted, LostWithinOne
<1> QED
  BY <1>1, <1>2, <1>3, PTL DEF Spec

-----------------------------------------------------------------------------
(* The newest packet. *)

\* decrypt_iv moves forwards with a packet ahead, is restored after a late
\* one, and goes back only with the nonce of a resync.
THEOREM NewestForward == Spec => NewestNeverBack
<1> DEFINE Forward == m_statsLocal'.resync = m_statsLocal.resync =>
                        decrypt_iv' = decrypt_iv \/ Before(decrypt_iv, decrypt_iv')
<1>1. Typed /\ [Next]_deliveryVars => [Forward]_deliveryVars
  <2> SUFFICES ASSUME Typed, [Next]_deliveryVars PROVE Forward
    OBVIOUS
  <2>1. CASE UNCHANGED deliveryVars
    BY <2>1 DEF deliveryVars, cryptVars, receiverVars
  <2>2. CASE Undelivered
    BY <2>2 DEF Undelivered, Encrypt, AnswerRequest, Reject, Lose, RejectDamaged,
       DecryptFailed, GoodTimeout, RequestTimeout, receiverVars
  <2>3. ASSUME NEW p \in net, DeliverAhead(p) PROVE Forward
    <3>1. /\ decrypt_iv \in IV /\ p \in IV /\ decrypt_iv.rest <= MaxRest /\ p.rest <= MaxRest
      BY DEF Typed, TypeOK, CryptTypeOK, InRange
    <3>2. decrypt_iv' = p /\ Before(decrypt_iv, p)
      BY <2>3, <3>1, AheadIsAfter DEF DeliverAhead, AcceptAhead, Decrypts
    <3> QED
      BY <3>2
  <2>4. ASSUME NEW p \in net, DeliverLate(p) PROVE Forward
    BY <2>4 DEF DeliverLate, AcceptLate
  <2>5. CASE Resync
    BY <2>5 DEF Resync, Typed, TypeOK, PacketStats
  <2> QED
    BY <2>1, <2>2, <2>3, <2>4, <2>5 DEF Next
<1>2. Init => Typed
  BY TypedInit
<1>3. Typed /\ [Next]_deliveryVars => Typed'
  BY TypedStep
<1> QED
  BY <1>1, <1>2, <1>3, PTL DEF Spec, NewestNeverBack, Forward
-----------------------------------------------------------------------------
(* Fresh packets.                                                          *)

\* Two counters with the same digit are whole turns apart.
LEMMA DigitTurns ==
    ASSUME NEW q \in Nat, NEW r \in Nat, q < r, LowDigit(q) = LowDigit(r)
    PROVE  q + ByteValues <= r
<1> DEFINE B == ByteValues
           i == q \div B
           j == r \div B
           d == q % B
<1>1. B \in Nat /\ B >= 4
  BY ByteAssumption
<1>2. i \in Int /\ j \in Int /\ d \in Int /\ q = B * i + d /\ r = B * j + d
  <2>1. ASSUME NEW n \in Nat
        PROVE  n % B \in Int /\ n \div B \in Int /\ n % B = n - B * (n \div B)
    BY <1>1
  <2>2. r % B = d
    BY DEF LowDigit
  <2>3. d = q - B * i /\ d = r - B * j
    BY <2>1, <2>2
  <2>4. i \in Int /\ j \in Int /\ d \in Int
    BY <2>1
  <2> HIDE DEF i, j, d
  <2>5. B * i \in Int /\ B * j \in Int
    BY <1>1, <2>4
  <2> QED
    BY <2>3, <2>4, <2>5
<1> HIDE DEF B, i, j, d
<1>3. B * i < B * j
  <2>1. B * i \in Int /\ B * j \in Int
    BY <1>1, <1>2
  <2> QED
    BY <1>2, <2>1
<1>4. i < j
  BY <1>1, <1>2, <1>3
<1>5. B * (i + 1) <= B * j
  BY <1>1, <1>2, <1>4
<1>6. B * (i + 1) = B * i + B
  BY <1>1, <1>2
<1>7. q + B <= r
  <2>1. B * i \in Int /\ B * j \in Int
    BY <1>1, <1>2
  <2> QED
    BY <1>1, <1>2, <1>5, <1>6, <2>1
<1> QED
  BY <1>7 DEF B

\* Of the packets with one low byte, the one in reach is the newest, or less
\* than two turns of that byte behind.
LEMMA ReachRest ==
    ASSUME NEW iv \in IV, NEW p \in IV, NEW m \in IV, m.b0 = p.b0,
           iv.rest <= MaxRest, p.rest <= MaxRest, Guess(iv, p.b0) = p,
           m = iv \/ Before(m, iv)
    PROVE  /\ m.rest <= p.rest + 1
           /\ IsAhead(iv, p.b0) \/ IsLate(iv, p.b0) => m.rest <= p.rest
BY ByteAssumption, HighAssumption, StartAssumption, NoNonceReuse
DEF IsAhead, IsLate, Diff, Half, Guess, Carry, Borrow, Before, IV, Byte

\* Nothing is remembered before the first packet.
LEMMA RememberedInit == Init => Remembered
BY DEF Init, CryptInit, Remembered, Delivered

\* A packet delivered is the newest with its byte, and its digit is what the
\* history then holds of that byte.
LEMMA DeliveredRemembered ==
    ASSUME Typed, Guarded, Remembered, NEW p \in net,
           Guess(decrypt_iv, p.b0) = p, IsAhead(decrypt_iv, p.b0) \/ IsLate(decrypt_iv, p.b0),
           decrypt_history' = [decrypt_history EXCEPT ![p.b0] = LowDigit(p.rest)],
           copies' = [copies EXCEPT ![p] = copies[p] + 1],
           m_statsLocal'.resync = m_statsLocal.resync
    PROVE  Remembered'
<1>1. /\ p \in IV /\ p.b0 \in Byte /\ p.rest \in Nat /\ p.rest <= MaxRest
      /\ decrypt_iv \in IV /\ decrypt_iv.rest <= MaxRest
      /\ copies \in [IV -> Nat] /\ decrypt_history \in [Byte -> Byte]
  BY HighAssumption DEF Typed, TypeOK, CryptTypeOK, InRange, IV
<1>2. Delivered' = Delivered \cup {p}
  BY <1>1 DEF Delivered
<1>3. \A m \in Delivered : m.b0 = p.b0 => m.rest <= p.rest
  <2>1. \A m \in Delivered : m \in IV /\ (m = decrypt_iv \/ Before(m, decrypt_iv))
    BY DEF Delivered, Guarded, NewestLeads
  <2> QED
    BY <1>1, <2>1, ReachRest
<1>4. SUFFICES ASSUME m_statsLocal.resync = 0, NEW b \in Byte
               PROVE  \/ decrypt_history'[b] = 0 /\ \A n \in Delivered' : n.b0 # b
                      \/ \E n \in Delivered' : /\ n.b0 = b
                                               /\ \A m \in Delivered' : m.b0 = b => m.rest <= n.rest
                                               /\ decrypt_history'[b] = LowDigit(n.rest)
  BY DEF Remembered, NewestOf, LowDigit
<1>5. CASE b = p.b0
  <2>1. decrypt_history'[b] = LowDigit(p.rest)
    BY <1>1, <1>5
  <2>2. \A m \in Delivered' : m.b0 = b => m.rest <= p.rest
    BY <1>1, <1>2, <1>3, <1>5
  <2> QED
    BY <1>2, <1>5, <2>1, <2>2
<1>6. CASE b # p.b0
  <2>1. decrypt_history'[b] = decrypt_history[b]
    BY <1>1, <1>6
  <2>2. \A n : n.b0 = b => (n \in Delivered' <=> n \in Delivered)
    BY <1>2, <1>6
  <2> QED
    BY <1>2, <1>4, <1>6, <2>1, <2>2 DEF Remembered, NewestOf
<1> QED
  BY <1>5, <1>6

\* The history is written with each packet delivered and at no other time.
LEMMA RememberedStep == Typed /\ Guarded /\ Remembered /\ [Next]_deliveryVars => Remembered'
<1> SUFFICES ASSUME Typed, Guarded, Remembered, [Next]_deliveryVars PROVE Remembered'
  OBVIOUS
<1>1. CASE UNCHANGED <<decrypt_history, m_statsLocal, copies>>
  BY <1>1 DEF Remembered, NewestOf, Delivered, LowDigit
<1>2. CASE Undelivered /\ UNCHANGED <<m_statsLocal, copies, syncedAt>>
  <2>1. UNCHANGED decrypt_history
    BY <1>2 DEF Undelivered, Encrypt, AnswerRequest, Reject, Lose, RejectDamaged,
       DecryptFailed, GoodTimeout, RequestTimeout, receiverVars
  <2> QED
    BY <1>1, <1>2, <2>1
<1>3. ASSUME NEW p \in net, DeliverAhead(p) PROVE Remembered'
  BY <1>3, DeliveredRemembered DEF DeliverAhead, AcceptAhead, Decrypts, Remember, Deliver,
     CountLost, Typed, TypeOK, PacketStats
<1>4. ASSUME NEW p \in net, DeliverLate(p) PROVE Remembered'
  BY <1>4, DeliveredRemembered DEF DeliverLate, AcceptLate, Decrypts, Remember, Deliver,
     CountLost, Typed, TypeOK, PacketStats
<1>5. CASE Resync
  BY <1>5 DEF Resync, Remembered, Typed, TypeOK, PacketStats
<1> QED
  BY <1>1, <1>2, <1>3, <1>4, <1>5 DEF Next, deliveryVars, cryptVars, receiverVars

\* With Remembered, a match in the history is a copy of the newest packet of
\* that byte, a packet whole turns of the digit after it, or met the zero.
LEMMA FreshFollows == Typed /\ Guarded /\ Remembered => FreshIsNoRepeat
<1> SUFFICES ASSUME Typed, Guarded, Remembered, NEW p \in net,
                    copies[p] = 0, m_statsLocal.resync = 0, Guess(decrypt_iv, p.b0) = p,
                    IsRepeat(decrypt_iv, decrypt_history, p.b0), ~NeverHeard(p)
             PROVE  TurnsBehind(p)
  BY DEF FreshIsNoRepeat
<1>1. /\ p \in IV /\ p.b0 \in Byte /\ p.rest \in Nat /\ p.rest <= MaxRest
      /\ decrypt_iv \in IV /\ decrypt_iv.rest <= MaxRest
      /\ copies \in [IV -> Nat] /\ ByteValues \in Nat /\ ByteValues >= 4
  BY HighAssumption, ByteAssumption DEF Typed, TypeOK, CryptTypeOK, InRange, IV
<1>2. decrypt_history[p.b0] = LowDigit(p.rest)
  BY DEF IsRepeat
<1>3. PICK n \in Delivered : NewestOf(n, p.b0) /\ decrypt_history[p.b0] = LowDigit(n.rest)
  BY <1>1, <1>2 DEF Remembered, NeverHeard
<1>4. n \in IV /\ n.rest \in Nat /\ copies[n] > 0 /\ n.b0 = p.b0 /\ LowDigit(n.rest) = LowDigit(p.rest)
  BY <1>2, <1>3, HighAssumption DEF Delivered, NewestOf, IV
<1>5. n.rest # p.rest
  <2>1. n # p
    BY <1>1, <1>4
  <2> QED
    BY <1>1, <1>4, <2>1 DEF IV
<1>6. n.rest <= p.rest + 1
  <2>1. n = decrypt_iv \/ Before(n, decrypt_iv)
    BY <1>4 DEF Guarded, NewestLeads
  <2> QED
    BY <1>1, <1>4, <2>1, ReachRest
<1>7. ~(p.rest < n.rest)
  BY <1>1, <1>4, <1>6, DigitTurns
<1>8. n.rest + ByteValues <= p.rest
  BY <1>1, <1>4, <1>5, <1>7, DigitTurns
<1> QED
  BY <1>3, <1>4, <1>8 DEF TurnsBehind, NewestOf

\* Of the packets never delivered, decrypt() takes for a repeat only those
\* whose low byte it has not heard yet and whose digit is zero, and those a
\* whole turn of the second byte after the newest packet with their low byte.
THEOREM FreshAccepted == Spec => []FreshIsNoRepeat
<1>1. Init => Typed /\ Guarded /\ Remembered
  BY TypedInit, GuardedInit, RememberedInit
<1>2. (Typed /\ Guarded /\ Remembered) /\ [Next]_deliveryVars
        => (Typed /\ Guarded /\ Remembered)'
  BY TypedStep, GuardedStep, RememberedStep
<1>3. Typed /\ Guarded /\ Remembered => FreshIsNoRepeat
  BY FreshFollows
<1> QED
  BY <1>1, <1>2, <1>3, PTL DEF Spec
=============================================================================
