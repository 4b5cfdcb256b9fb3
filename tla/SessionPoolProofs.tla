-------------------------- MODULE SessionPoolProofs --------------------------
(***************************************************************************)
(* Proofs about SessionPool: no session id is shared, none is lost but by  *)
(* a second Authenticate, and names are not used twice, for every user     *)
(* limit, every change of it, and any number of connections.               *)
(***************************************************************************)
EXTENDS SessionPool, FiniteSetTheorems, TLAPS

(* Facts about the queue. *)

\* The ids left once the front one is drawn.
LEMMA TailOfQueue ==
    ASSUME NEW q \in Seq(Nat), q # <<>>,
           \A i, j \in 1 .. Len(q) : q[i] = q[j] => i = j
    PROVE  /\ Tail(q) \in Seq(Nat)
           /\ Head(q) \in Nat
           /\ \A i, j \in 1 .. Len(Tail(q)) : Tail(q)[i] = Tail(q)[j] => i = j
           /\ {Tail(q)[i] : i \in 1 .. Len(Tail(q))} = {q[i] : i \in 1 .. Len(q)} \ {Head(q)}
           /\ Head(q) \in {q[i] : i \in 1 .. Len(q)}
<1>1. Len(q) \in Nat /\ Len(q) >= 1
  OBVIOUS
<1>2. Len(Tail(q)) = Len(q) - 1 /\ \A i \in 1 .. Len(q) - 1 : Tail(q)[i] = q[i + 1]
  OBVIOUS
<1>3. Head(q) = q[1]
  OBVIOUS
<1>4. \A i, j \in 1 .. Len(Tail(q)) : Tail(q)[i] = Tail(q)[j] => i = j
  <2> TAKE i, j \in 1 .. Len(Tail(q))
  <2>1. i + 1 \in 1 .. Len(q) /\ j + 1 \in 1 .. Len(q)
    BY <1>1, <1>2
  <2>2. Tail(q)[i] = q[i + 1] /\ Tail(q)[j] = q[j + 1]
    BY <1>2
  <2> QED
    BY <1>1, <1>2, <2>1, <2>2
<1>5. ASSUME NEW i \in 1 .. Len(q) - 1
      PROVE  q[i + 1] \in {q[k] : k \in 1 .. Len(q)} /\ q[i + 1] # q[1]
  <2>1. i + 1 \in 1 .. Len(q) /\ 1 \in 1 .. Len(q) /\ i + 1 # 1
    BY <1>1
  <2> QED
    BY <2>1
<1>6. ASSUME NEW k \in 1 .. Len(q), q[k] # q[1]
      PROVE  \E i \in 1 .. Len(Tail(q)) : Tail(q)[i] = q[k]
  <2>1. k - 1 \in 1 .. Len(q) - 1 /\ (k - 1) + 1 = k
    BY <1>1, <1>6
  <2> QED
    BY <1>2, <2>1
<1>7. {Tail(q)[i] : i \in 1 .. Len(Tail(q))} = {q[i] : i \in 1 .. Len(q)} \ {q[1]}
  BY <1>2, <1>5, <1>6
<1> QED
  BY <1>1, <1>3, <1>4, <1>7

\* An id put back joins the queue, and if it is new the queue stays free of
\* duplicates.
LEMMA AppendedQueue ==
    ASSUME NEW q \in Seq(Nat), NEW s \in Nat,
           \A i, j \in 1 .. Len(q) : q[i] = q[j] => i = j,
           s \notin {q[i] : i \in 1 .. Len(q)}
    PROVE  /\ q \o <<s>> \in Seq(Nat)
           /\ \A i, j \in 1 .. Len(q \o <<s>>) : (q \o <<s>>)[i] = (q \o <<s>>)[j] => i = j
           /\ {(q \o <<s>>)[i] : i \in 1 .. Len(q \o <<s>>)}
                = {q[i] : i \in 1 .. Len(q)} \cup {s}
<1> DEFINE r == q \o <<s>>
<1>1. r \in Seq(Nat) /\ Len(r) = Len(q) + 1 /\ Len(q) \in Nat
  OBVIOUS
<1>2. r[Len(q) + 1] = s /\ \A i \in 1 .. Len(q) : r[i] = q[i]
  OBVIOUS
<1> HIDE DEF r
<1>3. \A i \in 1 .. Len(r) : i \in 1 .. Len(q) \/ i = Len(q) + 1
  BY <1>1
<1>4. \A i, j \in 1 .. Len(r) : r[i] = r[j] => i = j
  BY <1>1, <1>2, <1>3
<1>5. {r[i] : i \in 1 .. Len(r)} = {q[i] : i \in 1 .. Len(q)} \cup {s}
  <2>1. \A i \in 1 .. Len(q) : i \in 1 .. Len(r)
    BY <1>1
  <2>2. Len(q) + 1 \in 1 .. Len(r)
    BY <1>1
  <2> QED
    BY <1>2, <1>3, <2>1, <2>2
<1> QED
  BY <1>1, <1>4, <1>5 DEF r

-----------------------------------------------------------------------------
(* Sound as a predicate of the values of the variables, so that kicking a  *)
(* ghost, which draws one id and returns another in one step, is the       *)
(* composition of the two.                                                 *)

Ids(q) == {q[i] : i \in 1 .. Len(q)}
Holds(st, c) == st[c] \in {"rejected", "authenticated"}

QueueGood(q, U, limit) ==
    /\ q \in Seq(Nat)
    /\ \A i, j \in 1 .. Len(q) : q[i] = q[j] => i = j
    /\ Ids(q) \subseteq SessionIds(limit) \ DOMAIN U
    /\ SessionIds(limit) \subseteq Ids(q) \cup DOMAIN U

TableGood(U, st, ui, R) ==
    /\ DOMAIN U \subseteq Nat \ {0}
    /\ U \in [DOMAIN U -> Conns]
    /\ st \in [Conns -> States]
    /\ ui \in [Conns -> Nat]
    /\ R \subseteq DOMAIN U
    /\ \A s \in DOMAIN U \ R : Holds(st, U[s]) /\ ui[U[s]] = s
    /\ \A s \in R : st[U[s]] # "connected" /\ ui[U[s]] # s
    /\ \A c \in Conns : Holds(st, c) => ui[c] \in DOMAIN U /\ U[ui[c]] = c
    /\ \A c \in Conns : ~Holds(st, c) => ui[c] = 0

Good(q, U, st, ui, R, limit) == QueueGood(q, U, limit) /\ TableGood(U, st, ui, R)

Enter(U, s, c) == [t \in DOMAIN U \cup {s} |-> IF t = s THEN c ELSE U[t]]
AlsoReplaced(R, s) == R \cup (IF s = 0 THEN {} ELSE {s})
ReturnedTo(limit, s) == IF s > 0 /\ s < 2 * limit THEN <<s>> ELSE <<>>

\* Drawing the front id keeps the account; an id the connection had before is
\* replaced.
LEMMA DrawKeepsGood ==
    ASSUME NEW q, NEW U, NEW st, NEW ui, NEW R, NEW limit \in Nat \ {0},
           Good(q, U, st, ui, R, limit),
           NEW c \in Conns, q # <<>>,
           NEW new \in {"rejected", "authenticated"}
    PROVE  Good(Tail(q), Enter(U, Head(q), c), [st EXCEPT ![c] = new],
                [ui EXCEPT ![c] = Head(q)], AlsoReplaced(R, ui[c]), limit)
<1> DEFINE h == Head(q)
           V == Enter(U, h, c)
           R2 == AlsoReplaced(R, ui[c])
<1>1. /\ Tail(q) \in Seq(Nat) /\ h \in Nat
      /\ \A i, j \in 1 .. Len(Tail(q)) : Tail(q)[i] = Tail(q)[j] => i = j
      /\ Ids(Tail(q)) = Ids(q) \ {h} /\ h \in Ids(q)
  BY TailOfQueue DEF Good, QueueGood, Ids
<1>2. h \in SessionIds(limit) /\ h \notin DOMAIN U
  BY <1>1 DEF Good, QueueGood
<1>3. h \in Nat \ {0}
  BY <1>2 DEF SessionIds
<1> HIDE DEF h
<1>4. /\ DOMAIN V = DOMAIN U \cup {h} /\ V[h] = c
      /\ \A s \in DOMAIN U : V[s] = U[s]
  BY <1>2 DEF Enter
<1>5. QueueGood(Tail(q), V, limit)
  BY <1>1, <1>4 DEF Good, QueueGood
<1> DEFINE st2 == [st EXCEPT ![c] = new]
           ui2 == [ui EXCEPT ![c] = h]
<1>6. /\ st2 \in [Conns -> States] /\ ui2 \in [Conns -> Nat]
      /\ st2[c] = new /\ ui2[c] = h
      /\ \A d \in Conns \ {c} : st2[d] = st[d] /\ ui2[d] = ui[d]
  BY <1>3 DEF Good, TableGood, States
<1> HIDE DEF st2, ui2, V
<1>7. \A d \in Conns \ {c} : Holds(st2, d) <=> Holds(st, d)
  BY <1>6 DEF Holds
<1>8. Holds(st2, c)
  BY <1>6 DEF Holds
<1>9. /\ R2 = R \cup (IF ui[c] = 0 THEN {} ELSE {ui[c]})
      /\ ui[c] # 0 => ui[c] \in DOMAIN U /\ U[ui[c]] = c
      /\ R \subseteq DOMAIN U
  BY DEF AlsoReplaced, Good, TableGood
<1> HIDE DEF R2
<1>10. R2 \subseteq DOMAIN U /\ h \notin R2
  BY <1>2, <1>9
<1>11. ASSUME NEW s \in DOMAIN V \ R2 PROVE Holds(st2, V[s]) /\ ui2[V[s]] = s
  <2>1. CASE s = h
    BY <1>4, <1>6, <1>8, <2>1
  <2>2. CASE s # h
    <3>1. s \in DOMAIN U \ R /\ V[s] = U[s]
      BY <1>4, <1>9, <2>2
    <3>2. U[s] \in Conns /\ Holds(st, U[s]) /\ ui[U[s]] = s /\ s # 0
      BY <3>1 DEF Good, TableGood
    <3>3. U[s] # c
      BY <1>9, <3>2
    <3> QED
      BY <1>6, <1>7, <3>1, <3>2, <3>3
  <2> QED
    BY <2>1, <2>2
<1>12. ASSUME NEW s \in R2 PROVE st2[V[s]] # "connected" /\ ui2[V[s]] # s
  <2>1. s \in DOMAIN U /\ V[s] = U[s] /\ U[s] \in Conns /\ s # h
    BY <1>4, <1>10 DEF Good, TableGood
  <2>2. CASE U[s] = c
    BY <1>6, <2>1, <2>2
  <2>3. CASE U[s] # c
    <3>1. s \in R
      BY <1>9, <2>3
    <3>2. st[U[s]] # "connected" /\ ui[U[s]] # s
      BY <3>1 DEF Good, TableGood
    <3> QED
      BY <1>6, <2>1, <2>3, <3>2
  <2> QED
    BY <2>2, <2>3
<1>13. ASSUME NEW d \in Conns, Holds(st2, d) PROVE ui2[d] \in DOMAIN V /\ V[ui2[d]] = d
  <2>1. CASE d = c
    BY <1>4, <1>6, <2>1
  <2>2. CASE d # c
    <3>1. ui[d] \in DOMAIN U /\ U[ui[d]] = d
      BY <1>7, <1>13, <2>2 DEF Good, TableGood
    <3> QED
      BY <1>4, <1>6, <2>2, <3>1
  <2> QED
    BY <2>1, <2>2
<1>14. ASSUME NEW d \in Conns, ~Holds(st2, d) PROVE ui2[d] = 0
  BY <1>6, <1>7, <1>8, <1>14 DEF Good, TableGood
<1>15. V \in [DOMAIN V -> Conns]
  <2>1. \A s \in DOMAIN V : V[s] \in Conns
    BY <1>4 DEF Good, TableGood
  <2> QED
    BY <2>1 DEF V, Enter
<1>16. DOMAIN V \subseteq Nat \ {0} /\ R2 \subseteq DOMAIN V
  BY <1>3, <1>4, <1>10 DEF Good, TableGood
<1>17. TableGood(V, st2, ui2, R2)
  BY <1>6, <1>11, <1>12, <1>13, <1>14, <1>15, <1>16 DEF TableGood
<1> QED
  BY <1>5, <1>17 DEF Good, st2, ui2, V, h, R2

\* Closing any connection keeps the account.
LEMMA CloseKeepsGood ==
    ASSUME NEW q, NEW U, NEW st, NEW ui, NEW R, NEW limit \in Nat \ {0},
           Good(q, U, st, ui, R, limit), NEW c \in Conns
    PROVE  Good(q \o ReturnedTo(limit, ui[c]), Without(U, {ui[c]}),
                [st EXCEPT ![c] = "none"], [ui EXCEPT ![c] = 0], R, limit)
<1> DEFINE s == ui[c]
           V == Without(U, {s})
<1>1. s \in Nat /\ q \in Seq(Nat)
  BY DEF Good, TableGood, QueueGood
<1>2. /\ s # 0 => s \in DOMAIN U
      /\ s = 0 => s \notin DOMAIN U
      /\ s \notin R /\ R \subseteq DOMAIN U
  BY DEF Good, TableGood
<1>3. /\ DOMAIN V = DOMAIN U \ {s}
      /\ \A t \in DOMAIN V : V[t] = U[t]
  BY DEF Without
<1> HIDE DEF s, V
<1>4. QueueGood(q \o ReturnedTo(limit, s), V, limit)
  <2>1. CASE s > 0 /\ s < 2 * limit
    <3>1. s \in SessionIds(limit) /\ s \in DOMAIN U
      BY <1>1, <1>2, <2>1 DEF SessionIds
    <3>2. s \notin Ids(q)
      BY <3>1 DEF Good, QueueGood
    <3> DEFINE r == q \o <<s>>
    <3>3. /\ r \in Seq(Nat)
          /\ \A i, j \in 1 .. Len(r) : r[i] = r[j] => i = j
          /\ Ids(r) = Ids(q) \cup {s}
      BY <1>1, <3>2, AppendedQueue DEF Good, QueueGood, Ids
    <3>4. ReturnedTo(limit, s) = <<s>>
      BY <2>1 DEF ReturnedTo
    <3> HIDE DEF r
    <3>5. QueueGood(r, V, limit)
      BY <1>3, <3>1, <3>3 DEF Good, QueueGood
    <3> QED
      BY <3>4, <3>5 DEF r
  <2>2. CASE ~(s > 0 /\ s < 2 * limit)
    <3>1. ReturnedTo(limit, s) = <<>>
      BY <2>2 DEF ReturnedTo
    <3>2. q \o ReturnedTo(limit, s) = q
      BY <1>1, <3>1
    <3>3. s \notin SessionIds(limit)
      BY <1>1, <2>2 DEF SessionIds
    <3> QED
      BY <1>3, <3>2, <3>3 DEF Good, QueueGood
  <2> QED
    BY <2>1, <2>2
<1> DEFINE st2 == [st EXCEPT ![c] = "none"]
           ui2 == [ui EXCEPT ![c] = 0]
<1>5. /\ st2 \in [Conns -> States] /\ ui2 \in [Conns -> Nat]
      /\ st2[c] = "none" /\ ui2[c] = 0
      /\ \A d \in Conns \ {c} : st2[d] = st[d] /\ ui2[d] = ui[d]
  BY DEF Good, TableGood, States
<1> HIDE DEF st2, ui2
<1>6. ~Holds(st2, c) /\ \A d \in Conns \ {c} : Holds(st2, d) <=> Holds(st, d)
  BY <1>5 DEF Holds
<1>7. ASSUME NEW t \in DOMAIN V \ R PROVE Holds(st2, V[t]) /\ ui2[V[t]] = t
  <2>1. t \in DOMAIN U \ R /\ t # s /\ V[t] = U[t]
    BY <1>3
  <2>2. U[t] \in Conns /\ Holds(st, U[t]) /\ ui[U[t]] = t
    BY <2>1 DEF Good, TableGood
  <2>3. U[t] # c
    BY <2>1, <2>2 DEF s
  <2> QED
    BY <1>5, <1>6, <2>1, <2>2, <2>3
<1>8. ASSUME NEW d \in Conns, Holds(st2, d) PROVE ui2[d] \in DOMAIN V /\ V[ui2[d]] = d
  <2>1. d # c /\ Holds(st, d)
    BY <1>6, <1>8
  <2>2. ui[d] \in DOMAIN U /\ U[ui[d]] = d
    BY <2>1 DEF Good, TableGood
  <2>3. ui[d] # s
    <3> SUFFICES ASSUME ui[d] = s PROVE FALSE
      OBVIOUS
    <3>1. U[s] = d /\ s \in DOMAIN U
      BY <2>2
    <3>2. Holds(st, c)
      BY <3>1 DEF Good, TableGood, s
    <3>3. U[s] = c
      BY <3>2 DEF Good, TableGood, s
    <3> QED
      BY <2>1, <3>1, <3>3
  <2> QED
    BY <1>3, <1>5, <2>1, <2>2, <2>3
<1>9. ASSUME NEW d \in Conns, ~Holds(st2, d) PROVE ui2[d] = 0
  BY <1>5, <1>6, <1>9 DEF Good, TableGood
<1>10. V \in [DOMAIN V -> Conns]
  <2>1. \A t \in DOMAIN V : V[t] \in Conns
    BY <1>3 DEF Good, TableGood
  <2> QED
    BY <2>1 DEF V, Without
<1>11. DOMAIN V \subseteq Nat \ {0} /\ R \subseteq DOMAIN V
  BY <1>2, <1>3 DEF Good, TableGood
<1>12. ASSUME NEW t \in R PROVE st2[V[t]] # "connected" /\ ui2[V[t]] # t
  <2>1. V[t] = U[t] /\ U[t] \in Conns /\ t # 0
    BY <1>3, <1>11 DEF Good, TableGood
  <2>2. st[U[t]] # "connected" /\ ui[U[t]] # t
    BY DEF Good, TableGood
  <2> QED
    BY <1>5, <2>1, <2>2
<1>13. TableGood(V, st2, ui2, R)
  BY <1>5, <1>7, <1>8, <1>9, <1>10, <1>11, <1>12 DEF TableGood
<1> QED
  BY <1>4, <1>13 DEF Good, st2, ui2, V, s

-----------------------------------------------------------------------------
(* The invariant of the specification. *)

RestTyped ==
    /\ iMaxUsers \in UserLimits
    /\ qsName \in [Conns -> Names \cup {NoOne}]
    /\ address \in [Conns -> Addrs \cup {NoOne}]
    /\ underflow \in BOOLEAN
    /\ readDeleted \in BOOLEAN

Sound == RestTyped /\ Good(qqIds, qhUsers, state, uiSession, replaced, iMaxUsers)

\* The invariant gives the properties the runs check.
LEMMA SoundImplies ==
    Sound => TypeOK /\ NoIdTwice /\ NoIdFreeAndUsed /\ NoIdLost /\ TableMatches
<1> SUFFICES ASSUME Sound PROVE TypeOK /\ NoIdTwice /\ NoIdFreeAndUsed /\ NoIdLost /\ TableMatches
  OBVIOUS
<1>1. QueueGood(qqIds, qhUsers, iMaxUsers) /\ TableGood(qhUsers, state, uiSession, replaced)
  BY DEF Sound, Good
<1>2. TypeOK
  BY <1>1 DEF Sound, RestTyped, QueueGood, TableGood, TypeOK, InUse
<1>3. NoIdTwice /\ NoIdFreeAndUsed
  BY <1>1 DEF QueueGood, NoIdTwice, NoIdFreeAndUsed, Queued, InUse, Ids
<1>4. NoIdLost
  <2>1. ASSUME NEW s \in DOMAIN qhUsers \ replaced PROVE s \in Held
    <3>1. qhUsers[s] \in Conns /\ HasSession(qhUsers[s]) /\ uiSession[qhUsers[s]] = s
      BY <1>1 DEF TableGood, Holds, HasSession
    <3> QED
      BY <3>1 DEF Held
  <2> QED
    BY <1>1, <2>1 DEF QueueGood, NoIdLost, Queued, Ids
<1>5. TableMatches
  BY <1>1 DEF TableGood, TableMatches, InUse, Holds, HasSession
<1> QED
  BY <1>2, <1>3, <1>4, <1>5

\* The queue a limit starts with, or is rebuilt with, accounts for the ids.
LEMMA RebuiltQueue ==
    ASSUME NEW U, NEW limit \in Nat \ {0}, NEW q \in Ascending(SessionIds(limit) \ DOMAIN U)
    PROVE  QueueGood(q, U, limit)
<1> DEFINE S == SessionIds(limit) \ DOMAIN U
           n == Cardinality(S)
<1>0. S \subseteq Nat
  BY DEF SessionIds
<1> HIDE DEF S
<1>1. /\ q \in [1 .. n -> S]
      /\ \A i, j \in 1 .. n : i < j => q[i] < q[j]
      /\ \A id \in S : \E i \in 1 .. n : q[i] = id
  BY DEF Ascending, S
<1>2. n \in Nat
  <2>1. IsFiniteSet(S)
    <3>1. IsFiniteSet(1 .. 2 * limit - 1)
      BY FS_Interval
    <3> QED
      BY <3>1, FS_Subset DEF S, SessionIds
  <2> QED
    BY <2>1, FS_CardinalityType
<1> HIDE DEF n
<1>3. q \in Seq(Nat) /\ Len(q) = n
  <2>1. q \in [1 .. n -> Nat]
    BY <1>0, <1>1
  <2>2. q \in Seq(Nat)
    BY <1>2, <2>1
  <2> QED
    BY <1>2, <2>1, <2>2
<1>4. \A i, j \in 1 .. n : q[i] = q[j] => i = j
  <2> TAKE i, j \in 1 .. n
  <2> HAVE q[i] = q[j]
  <2>1. q[i] \in Nat /\ q[j] \in Nat
    BY <1>0, <1>1
  <2> QED
    BY <1>1, <1>2, <2>1
<1>5. Ids(q) = S
  BY <1>1, <1>3 DEF Ids
<1> QED
  BY <1>3, <1>4, <1>5 DEF QueueGood, S

\* Before the first connection every id is free.
LEMMA SoundInit == Init => Sound
<1> SUFFICES ASSUME Init PROVE Sound
  OBVIOUS
<1>1. iMaxUsers \in Nat \ {0}
  BY LimitsAssumption DEF Init
<1>2. DOMAIN qhUsers = {}
  BY DEF Init
<1>3. QueueGood(qqIds, qhUsers, iMaxUsers)
  BY <1>1, <1>2, RebuiltQueue DEF Init
<1>4. TableGood(qhUsers, state, uiSession, replaced)
  BY <1>2 DEF Init, TableGood, Holds, States
<1> QED
  BY <1>3, <1>4 DEF Sound, RestTyped, Good, Init

\* Every step keeps the invariant.
LEMMA SoundStep == Sound /\ [Next]_vars => Sound'
<1> SUFFICES ASSUME Sound, [Next]_vars PROVE Sound'
  OBVIOUS
<1>0. /\ iMaxUsers \in Nat \ {0} /\ RestTyped
      /\ Good(qqIds, qhUsers, state, uiSession, replaced, iMaxUsers)
  BY LimitsAssumption DEF Sound, RestTyped
<1>1. CASE UNCHANGED vars
  BY <1>0, <1>1 DEF Sound, RestTyped, vars, Good, QueueGood, TableGood, Holds, Ids
<1>2. ASSUME NEW c \in Conns, NewClient(c) PROVE Sound'
  <2>1. TableGood(qhUsers, state', uiSession, replaced)
    <3>1. /\ state' = [state EXCEPT ![c] = "connected"] /\ state[c] = "none"
          /\ \A s \in DOMAIN qhUsers : qhUsers[s] # c
      BY <1>2 DEF NewClient, InUse
    <3>2. \A d \in Conns \ {c} : state'[d] = state[d]
      BY <1>0, <3>1 DEF Good, TableGood
    <3>3. ~Holds(state, c) /\ ~Holds(state', c) /\ state' \in [Conns -> States]
      BY <1>0, <3>1 DEF Good, TableGood, Holds, States
    <3>4. \A d \in Conns : Holds(state', d) <=> Holds(state, d)
      BY <3>2, <3>3 DEF Holds
    <3>5. \A s \in DOMAIN qhUsers : state'[qhUsers[s]] = state[qhUsers[s]] /\ qhUsers[s] \in Conns
      BY <1>0, <3>1, <3>2 DEF Good, TableGood
    <3> QED
      BY <1>0, <3>3, <3>4, <3>5 DEF Good, TableGood
  <2>2. RestTyped'
    BY <1>0, <1>2 DEF NewClient, RestTyped, undefinedVars
  <2> QED
    BY <1>0, <1>2, <2>1, <2>2 DEF NewClient, Sound, Good
<1>3. ASSUME NEW c \in Conns, Authenticate(c) PROVE Sound'
  <2>1. PICK name \in Names, genuine \in BOOLEAN : \E old \in OldUser(c, name) :
          \/ Reject(c, name)
          \/ old = NoOne /\ AdmitNew(c, name)
          \/ old # NoOne /\ AdmitKickingGhost(c, name, old)
    BY <1>3 DEF Authenticate
  <2>2. qqIds # <<>>
    BY <1>3 DEF Authenticate
  <2>3. Entered(c) = Enter(qhUsers, Head(qqIds), c) /\ Replaced(c) = AlsoReplaced(replaced, uiSession[c])
    BY DEF Entered, Enter, InUse, Replaced, AlsoReplaced
  <2>4. \A new \in {"rejected", "authenticated"} :
          Good(Tail(qqIds), Entered(c), [state EXCEPT ![c] = new],
               [uiSession EXCEPT ![c] = Head(qqIds)], Replaced(c), iMaxUsers)
    BY <1>0, <2>2, <2>3, DrawKeepsGood
  <2>5. CASE Reject(c, name)
    BY <1>0, <2>4, <2>5 DEF Reject, Sound, RestTyped, undefinedVars
  <2>6. CASE AdmitNew(c, name)
    BY <1>0, <2>4, <2>6 DEF AdmitNew, Sound, RestTyped, undefinedVars
  <2>7. ASSUME NEW old \in OldUser(c, name), old # NoOne, AdmitKickingGhost(c, name, old)
        PROVE  Sound'
    <3>1. old \in Conns /\ old # c
      BY <1>0, <2>7 DEF OldUser, SameName, InUse, Good, TableGood
    <3> DEFINE st1 == [state EXCEPT ![c] = "authenticated"]
               ui1 == [uiSession EXCEPT ![c] = Head(qqIds)]
    <3>2. Good(Tail(qqIds), Entered(c), st1, ui1, Replaced(c), iMaxUsers)
      BY <2>4
    <3>3. ui1[old] = uiSession[old]
      BY <1>0, <3>1 DEF Good, TableGood
    <3>4. Good(Tail(qqIds) \o ReturnedTo(iMaxUsers, ui1[old]), Without(Entered(c), {ui1[old]}),
               [st1 EXCEPT ![old] = "none"], [ui1 EXCEPT ![old] = 0], Replaced(c), iMaxUsers)
      BY <1>0, <3>1, <3>2, CloseKeepsGood
    <3>5. /\ state' = [st1 EXCEPT ![old] = "none"]
          /\ uiSession' = [ui1 EXCEPT ![old] = 0]
      BY <2>7 DEF AdmitKickingGhost
    <3>6. /\ qqIds' = Tail(qqIds) \o ReturnedTo(iMaxUsers, ui1[old])
          /\ qhUsers' = Without(Entered(c), {ui1[old]})
          /\ iMaxUsers' = iMaxUsers /\ replaced' = Replaced(c)
      BY <2>7, <3>3 DEF AdmitKickingGhost, Returned, ReturnedTo
    <3>7. RestTyped'
      BY <1>0, <2>7, <3>1 DEF AdmitKickingGhost, RestTyped, undefinedVars
    <3> QED
      BY <3>4, <3>5, <3>6, <3>7 DEF Sound
  <2> QED
    BY <2>1, <2>5, <2>6, <2>7
<1>4. ASSUME NEW c \in Conns, AuthenticateWithoutId(c) PROVE Sound'
  BY <1>0, <1>4 DEF AuthenticateWithoutId, Sound, RestTyped
<1>5. CASE ReadDeleted
  BY <1>0, <1>5 DEF ReadDeleted, Sound, RestTyped
<1>6. ASSUME NEW c \in Conns, ConnectionClosed(c) PROVE Sound'
  <2>1. Good(qqIds \o ReturnedTo(iMaxUsers, uiSession[c]), Without(qhUsers, {uiSession[c]}),
             [state EXCEPT ![c] = "none"], [uiSession EXCEPT ![c] = 0], replaced, iMaxUsers)
    BY <1>0, CloseKeepsGood
  <2>2. RestTyped'
    BY <1>0, <1>6 DEF ConnectionClosed, RestTyped, undefinedVars
  <2> QED
    BY <1>6, <2>1, <2>2 DEF ConnectionClosed, Sound, Returned, ReturnedTo
<1>7. ASSUME NEW limit \in UserLimits, SetMaxUsers(limit) PROVE Sound'
  <2>1. limit \in Nat \ {0}
    BY LimitsAssumption
  <2>2. QueueGood(qqIds', qhUsers, limit)
    BY <1>7, <2>1, RebuiltQueue DEF SetMaxUsers, InUse
  <2> QED
    BY <1>0, <1>7, <2>2 DEF SetMaxUsers, Sound, RestTyped, Good, undefinedVars
<1> QED
  BY <1>1, <1>2, <1>3, <1>4, <1>5, <1>6, <1>7 DEF Next

\* The invariant holds for every sequence of connects, rejections, further
\* attempts, ghost kicks, closes and changes of the limit.
LEMMA AlwaysSound == Spec => []Sound
<1>1. Init => Sound
  BY SoundInit
<1>2. Sound /\ [Next]_vars => Sound'
  BY SoundStep
<1> QED
  BY <1>1, <1>2, PTL DEF Spec

\* The queue and qhUsers hold session ids, and zero, which stands for no
\* session, is never in use (newClient to connectionClosed).
THEOREM TypeCorrect == Spec => []TypeOK
BY AlwaysSound, SoundImplies, PTL

\* No id is in the queue twice (connectionClosed appends an id, setLiveConf
\* fills the queue anew while ids are in use).
THEOREM IdsQueuedOnce == Spec => []NoIdTwice
BY AlwaysSound, SoundImplies, PTL

\* Every id in the queue is one of the current limit and is not in use
\* (connectionClosed puts an id back, setLiveConf fills the queue anew).
THEOREM FreeIdsUnused == Spec => []NoIdFreeAndUsed
BY AlwaysSound, SoundImplies, PTL

\* However a connection ends (refused, kicked as a ghost, closed), no id is lost
\* but those a further Authenticate of a refused client replaced.
THEOREM IdsReturn == Spec => []NoIdLost
BY AlwaysSound, SoundImplies, PTL

\* qhUsers lists every connection that holds an id under it, and beyond that
\* exactly the replaced ids, whose connection may be gone.
THEOREM TableExact == Spec => []TableMatches
BY AlwaysSound, SoundImplies, PTL

-----------------------------------------------------------------------------
(* User names. *)

\* Whoever is found by a name uses it and holds an id, and when nobody is found
\* nobody else who is admitted uses it.
LEMMA FoundByName ==
    ASSUME Sound, NEW c \in Conns, NEW name, NEW old \in OldUser(c, name)
    PROVE  /\ old = NoOne => \A d \in Conns \ {c} : state[d] = "authenticated" => qsName[d] # name
           /\ old # NoOne => old \in Conns \ {c} /\ qsName[old] = name /\ HasSession(old)
<1>0. TableGood(qhUsers, state, uiSession, replaced)
  BY DEF Sound, Good
<1>1. \A d \in SameName(c, name) : d \in Conns \ {c} /\ qsName[d] = name /\ HasSession(d)
  <2> TAKE d \in SameName(c, name)
  <2>1. PICK s \in DOMAIN qhUsers : /\ d = qhUsers[s] /\ d # c /\ qsName[d] = name
                                   /\ state[d] # "none"
    BY DEF SameName, InUse, Dangling
  <2>2. d \in Conns /\ state[d] # "connected" /\ state[d] \in States
    BY <1>0, <2>1 DEF TableGood, Holds, States
  <2> QED
    BY <2>1, <2>2 DEF States, HasSession
<1>2. \A d \in Conns \ {c} : state[d] = "authenticated" /\ qsName[d] = name => d \in SameName(c, name)
  <2> TAKE d \in Conns \ {c}
  <2> HAVE state[d] = "authenticated" /\ qsName[d] = name
  <2>1. uiSession[d] \in DOMAIN qhUsers /\ qhUsers[uiSession[d]] = d
    BY <1>0 DEF TableGood, Holds
  <2> QED
    BY <2>1 DEF SameName, InUse, Dangling
<1> QED
  BY <1>1, <1>2, NoOneAssumption DEF OldUser

\* Nobody is admitted under a name in use: an unregistered name is refused
\* unless the ghost comes from the same address, and the ghost is kicked
\* (msgAuthenticate), unless a rejected client of that name still lingers.
THEOREM NamesUnique == Spec => NamesStayUnique
<1> DEFINE Kept == UniqueNames /\ (\A c \in Conns : state[c] # "rejected") => UniqueNames'
<1>1. Sound /\ [Next]_vars => [Kept]_vars
  <2> SUFFICES ASSUME Sound, Next,
                      UniqueNames, \A c \in Conns : state[c] # "rejected"
               PROVE  UniqueNames'
    OBVIOUS
  <2>0. TypeOK
    BY SoundImplies
  <2>1. ASSUME NEW c \in Conns, NewClient(c) PROVE UniqueNames'
    BY <2>0, <2>1 DEF NewClient, UniqueNames, TypeOK
  <2>2. ASSUME NEW c \in Conns, Authenticate(c) PROVE UniqueNames'
    <3>1. PICK name \in Names : \E old \in OldUser(c, name) :
              \/ Reject(c, name)
              \/ old = NoOne /\ AdmitNew(c, name)
              \/ old # NoOne /\ AdmitKickingGhost(c, name, old)
      BY <2>2 DEF Authenticate
    <3>2. PICK old \in OldUser(c, name) :
              \/ Reject(c, name)
              \/ old = NoOne /\ AdmitNew(c, name)
              \/ old # NoOne /\ AdmitKickingGhost(c, name, old)
      BY <3>1
    <3>3. CASE Reject(c, name)
      BY <2>0, <3>3 DEF Reject, UniqueNames, TypeOK
    <3>4. CASE old = NoOne /\ AdmitNew(c, name)
      <4>1. \A d \in Conns \ {c} : state[d] = "authenticated" => qsName[d] # name
        BY <3>4, FoundByName
      <4> QED
        BY <2>0, <3>4, <4>1 DEF AdmitNew, UniqueNames, TypeOK
    <3>5. CASE old # NoOne /\ AdmitKickingGhost(c, name, old)
      <4>1. old \in Conns \ {c} /\ qsName[old] = name /\ HasSession(old)
        BY <3>5, FoundByName
      <4>2. \A d \in Conns \ {c, old} : state[d] = "authenticated" => qsName[d] # name
        BY <4>1 DEF HasSession, UniqueNames
      <4> QED
        BY <2>0, <3>5, <4>1, <4>2 DEF AdmitKickingGhost, UniqueNames, TypeOK
    <3> QED
      BY <3>2, <3>3, <3>4, <3>5
  <2>3. ASSUME NEW c \in Conns, AuthenticateWithoutId(c) PROVE UniqueNames'
    BY <2>3 DEF AuthenticateWithoutId, UniqueNames
  <2>4. ASSUME NEW c \in Conns, ConnectionClosed(c) PROVE UniqueNames'
    BY <2>0, <2>4 DEF ConnectionClosed, UniqueNames, TypeOK
  <2>5. CASE ReadDeleted
    BY <2>5 DEF ReadDeleted, UniqueNames
  <2>6. ASSUME NEW limit \in UserLimits, SetMaxUsers(limit) PROVE UniqueNames'
    BY <2>6 DEF SetMaxUsers, UniqueNames
  <2> QED
    BY <2>1, <2>2, <2>3, <2>4, <2>5, <2>6 DEF Next
<1> QED
  BY <1>1, AlwaysSound, PTL DEF Spec, NamesStayUnique
=============================================================================
