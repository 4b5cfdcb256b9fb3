--------------------------- MODULE PermissionLemmas ---------------------------
(***************************************************************************)
(* What the evaluation of Permissions computes.  Its recursive functions   *)
(* run along a sequence of entries or up the channel tree; the first two   *)
(* sections show that such functions exist, from the least counterexample  *)
(* and from the ways up the tree, and the others unfold those of the model.*)
(***************************************************************************)
EXTENDS Permissions, TreeLemmas

(* Along a sequence. *)

\* f takes the values of a fold of G over s that starts with base.
Folds(f, G, base, s) ==
    /\ f[0] = base
    /\ \A j \in 1 .. Len(s) : f[j] = G[<<f[j - 1], s[j]>>]

\* Every fold has values at all places of the sequence.
LEMMA FoldExists ==
    ASSUME NEW A, NEW E, NEW G \in [A \X E -> A], NEW base \in A, NEW s \in Seq(E)
    PROVE  \E f \in [0 .. Len(s) -> A] : Folds(f, G, base, s)
<1> DEFINE Good(f, n) == f \in [0 .. n -> A] /\ f[0] = base
                          /\ \A j \in 1 .. n : f[j] = G[<<f[j - 1], s[j]>>]
           Bad == {n \in 0 .. Len(s) : ~\E f : Good(f, n)}
<1>1. Len(s) \in Nat /\ \A j \in 1 .. Len(s) : s[j] \in E
  OBVIOUS
<1>2. Bad = {}
  <2> SUFFICES ASSUME Bad # {} PROVE FALSE
    OBVIOUS
  <2>1. PICK n \in Bad : \A m \in Bad : n <= m
    <3>1. Bad \in SUBSET Nat
      OBVIOUS
    <3> HIDE DEF Bad
    <3> QED
      BY <3>1, LeastExists
  <2>2. CASE n = 0
    <3>1. Good([j \in 0 .. 0 |-> base], 0)
      OBVIOUS
    <3> QED
      BY <2>2, <3>1
  <2>3. CASE n # 0
    <3>0. n \in 1 .. Len(s) /\ n - 1 \in 0 .. Len(s)
      BY <1>1, <2>1, <2>3
    <3>1. n - 1 \notin Bad
      <4> HIDE DEF Bad
      <4> QED
        BY <2>1, <3>0
    <3>2. PICK f : Good(f, n - 1)
      BY <3>0, <3>1
    <3> DEFINE g == [j \in 0 .. n |-> IF j = n THEN G[<<f[n - 1], s[n]>>] ELSE f[j]]
    <3>3. f[n - 1] \in A /\ s[n] \in E /\ G[<<f[n - 1], s[n]>>] \in A
      BY <1>1, <3>0, <3>2
    <3>4. g \in [0 .. n -> A]
      BY <3>0, <3>2, <3>3
    <3>5. g[0] = base
      BY <3>0, <3>2
    <3>6. ASSUME NEW j \in 1 .. n
          PROVE  g[j] = G[<<g[j - 1], s[j]>>]
      <4>1. CASE j = n
        <5>1. g[n] = G[<<f[n - 1], s[n]>>] /\ g[n - 1] = f[n - 1]
          BY <3>0
        <5> HIDE DEF g
        <5> QED
          BY <4>1, <5>1
      <4>2. CASE j # n
        <5>1. g[j] = f[j] /\ g[j - 1] = f[j - 1] /\ j \in 1 .. n - 1
          BY <3>0, <4>2
        <5> HIDE DEF g
        <5> QED
          BY <3>2, <5>1
      <4> QED
        BY <4>1, <4>2
    <3>7. Good(g, n)
      BY <3>4, <3>5, <3>6
    <3> HIDE DEF g
    <3> QED
      BY <3>7
  <2> QED
    BY <2>2, <2>3
<1>3. Len(s) \notin Bad
  BY <1>2
<1> QED
  BY <1>1, <1>3 DEF Folds

\* Induction along a sequence: what holds before it and goes on at each place.
LEMMA AlongSequence ==
    ASSUME NEW n \in Nat, NEW S, 0 \in S, \A j \in 1 .. n : j - 1 \in S => j \in S
    PROVE  0 .. n \subseteq S
<1> DEFINE Bad == {j \in 0 .. n : j \notin S}
<1> SUFFICES ASSUME Bad # {} PROVE FALSE
  OBVIOUS
<1>1. PICK k \in Bad : \A m \in Bad : k <= m
  <2>1. Bad \in SUBSET Nat
    OBVIOUS
  <2> HIDE DEF Bad
  <2> QED
    BY <2>1, LeastExists
<1>2. k # 0 /\ k \in 1 .. n /\ k - 1 \in 0 .. n /\ k - 1 \notin Bad
  BY <1>1
<1> QED
  BY <1>1, <1>2

\* Two folds that start alike and go on alike have the same values.
LEMMA FoldUnique ==
    ASSUME NEW n \in Nat, NEW f, NEW g, f[0] = g[0],
           \A j \in 1 .. n : f[j - 1] = g[j - 1] => f[j] = g[j]
    PROVE  \A j \in 0 .. n : f[j] = g[j]
<1> DEFINE S == {j \in 0 .. n : f[j] = g[j]}
<1>1. 0 \in S
  OBVIOUS
<1>2. \A j \in 1 .. n : j - 1 \in S => j \in S
  OBVIOUS
<1> HIDE DEF S
<1>3. 0 .. n \subseteq S
  BY <1>1, <1>2, AlongSequence
<1> QED
  BY <1>3 DEF S

-----------------------------------------------------------------------------
(* Down a tree. *)

\* What holds of the root and passes from parents to children holds of all.
LEMMA TreeInduction ==
    ASSUME NEW C, NEW P, NEW r, Tree(C, P, r), NEW S \in SUBSET C,
           r \in S, \A c \in C \ {r} : P[c] \in S => c \in S
    PROVE  S = C
<1>1. C \ S \in SUBSET (C \ {r}) /\ Closed(P, r, C \ S)
  BY DEF Closed, Tree
<1>2. C \ S = {}
  BY <1>1 DEF Tree
<1> QED
  BY <1>2

\* A tree whose root has none for a parent.
TreeFrom(C, P, r, none) == Tree(C, P, r) /\ none \notin C /\ P[r] = none

\* w takes, at the nodes of U, the values a recursion down the tree gives.
Descends(w, U, C, P, none, A, G, base) ==
    /\ w \in [C \cup {none} -> A] /\ w[none] = base /\ U \subseteq C
    /\ \A c \in U : P[c] \in U \cup {none} /\ w[c] = G[<<w[P[c]], c>>]

\* Two such functions agree where both are defined.
LEMMA DescendsUnique ==
    ASSUME NEW C, NEW P, NEW r, NEW none, TreeFrom(C, P, r, none),
           NEW A, NEW G, NEW base,
           NEW U, NEW w, Descends(w, U, C, P, none, A, G, base),
           NEW V, NEW v, Descends(v, V, C, P, none, A, G, base)
    PROVE  \A c \in U \cap V : w[c] = v[c]
<1> USE DEF TreeFrom
<1> DEFINE S == {c \in C : c \in U \cap V => w[c] = v[c]}
<1>1. r \in S
  <2>1. ASSUME r \in U \cap V PROVE w[r] = v[r]
    <3>1. w[r] = G[<<w[none], r>>] /\ v[r] = G[<<v[none], r>>] /\ w[none] = v[none]
      BY <2>1 DEF Descends
    <3> QED
      BY <3>1
  <2> QED
    BY <2>1 DEF Tree
<1>2. ASSUME NEW c \in C \ {r}, P[c] \in S
      PROVE  c \in S
  <2> SUFFICES ASSUME c \in U \cap V PROVE w[c] = v[c]
    OBVIOUS
  <2>1. P[c] \in C /\ P[c] \in U \cap V
    BY DEF Descends, Tree
  <2>2. w[P[c]] = v[P[c]]
    BY <1>2, <2>1
  <2> QED
    BY <2>2 DEF Descends
<1>3. S = C
  <2>1. S \in SUBSET C
    OBVIOUS
  <2> HIDE DEF S
  <2> QED
    BY <1>1, <1>2, <2>1, TreeInduction
<1> QED
  BY <1>3 DEF Descends

\* A recursion down a tree has values at all nodes.
LEMMA DescendsExists ==
    ASSUME NEW C, NEW P, NEW r, NEW none, TreeFrom(C, P, r, none),
           NEW A, NEW G \in [A \X C -> A], NEW base \in A
    PROVE  \E w : Descends(w, C, C, P, none, A, G, base)
<1>0. Tree(C, P, r) /\ none \notin C /\ P[r] = none
  BY DEF TreeFrom
<1> DEFINE D == C \cup {none}
           Good(w, U) == Descends(w, U, C, P, none, A, G, base)
           Reached == {c \in C : \E U \in SUBSET C, w \in [D -> A] : c \in U /\ Good(w, U)}
<1>1. r \in Reached
  <2> DEFINE w == [d \in D |-> IF d = r THEN G[<<base, r>>] ELSE base]
  <2>1. r \in C /\ G[<<base, r>>] \in A
    BY <1>0 DEF Tree
  <2>2. w \in [D -> A] /\ w[none] = base /\ w[r] = G[<<base, r>>]
    BY <1>0, <2>1
  <2> HIDE DEF w
  <2>3. Good(w, {r})
    BY <1>0, <2>1, <2>2 DEF Descends
  <2> QED
    BY <2>1, <2>2, <2>3
<1>2. ASSUME NEW c \in C \ {r}, P[c] \in Reached
      PROVE  c \in Reached
  <2>1. PICK U \in SUBSET C, w \in [D -> A] : P[c] \in U /\ Good(w, U)
    BY <1>2
  <2>2. CASE c \in U
    BY <2>1, <2>2
  <2>3. CASE c \notin U
    <3> DEFINE v == [d \in D |-> IF d = c THEN G[<<w[P[c]], c>>] ELSE w[d]]
    <3>1. w[P[c]] \in A /\ G[<<w[P[c]], c>>] \in A /\ P[c] # c
      BY <1>0, <2>1, <2>3
    <3>2. /\ v \in [D -> A] /\ v[c] = G[<<w[P[c]], c>>]
          /\ \A d \in D \ {c} : v[d] = w[d]
      BY <3>1
    <3> HIDE DEF v
    <3>3. Good(v, U \cup {c})
      <4>1. \A d \in U : P[d] \in U \cup {none} /\ w[d] = G[<<w[P[d]], d>>]
        BY <2>1 DEF Descends
      <4>2. \A d \in U : v[d] = w[d] /\ v[P[d]] = w[P[d]]
        BY <1>0, <2>1, <2>3, <3>2, <4>1
      <4>3. v[P[c]] = w[P[c]]
        BY <1>0, <2>1, <2>3, <3>2
      <4>4. w[none] = base
        BY <2>1 DEF Descends
      <4>5. v[none] = base
        BY <1>0, <3>2, <4>4
      <4> QED
        BY <2>1, <3>2, <4>1, <4>2, <4>3, <4>5 DEF Descends
    <3> QED
      BY <3>2, <3>3
  <2> QED
    BY <2>2, <2>3
<1>3. Reached = C
  <2>1. Reached \in SUBSET C
    OBVIOUS
  <2> HIDE DEF Reached
  <2> QED
    BY <1>0, <1>1, <1>2, <2>1, TreeInduction
<1> DEFINE Value(c) == CHOOSE x \in A : \E U \in SUBSET C, w \in [D -> A] :
                          c \in U /\ Good(w, U) /\ x = w[c]
           f == [d \in D |-> IF d = none THEN base ELSE Value(d)]
<1>4. ASSUME NEW U \in SUBSET C, NEW w \in [D -> A], Good(w, U), NEW c \in U
      PROVE  Value(c) = w[c] /\ f[c] = w[c]
  <2>1. w[c] \in A
    OBVIOUS
  <2>2. ASSUME NEW V \in SUBSET C, NEW v \in [D -> A], c \in V, Good(v, V)
        PROVE  v[c] = w[c]
    <3> HIDE DEF Value, f, Reached, D
    <3>1. Descends(w, U, C, P, none, A, G, base) /\ Descends(v, V, C, P, none, A, G, base)
      BY <1>4, <2>2
    <3>2. \A d \in V \cap U : v[d] = w[d]
      BY <3>1, DescendsUnique
    <3> QED
      BY <1>4, <2>2, <3>2
  <2>3. Value(c) = w[c]
    <3> HIDE DEF Good
    <3> QED
      BY <1>4, <2>1, <2>2
  <2> HIDE DEF Value
  <2> QED
    BY <1>0, <2>3
<1>5. f \in [D -> A] /\ f[none] = base
  <2>1. \A c \in C : Value(c) \in A
    <3> TAKE c \in C
    <3>1. PICK U \in SUBSET C, w \in [D -> A] : c \in U /\ Good(w, U)
      BY <1>3
    <3> HIDE DEF Value, f, Good, Reached
    <3>2. Value(c) = w[c]
      BY <1>4, <3>1
    <3> QED
      BY <3>1, <3>2
  <2> HIDE DEF Value
  <2> QED
    BY <2>1
<1>6. ASSUME NEW c \in C
      PROVE  P[c] \in D /\ f[c] = G[<<f[P[c]], c>>]
  <2>1. PICK U \in SUBSET C, w \in [D -> A] : c \in U /\ Good(w, U)
    BY <1>3
  <2>2. P[c] \in U \cup {none} /\ w[c] = G[<<w[P[c]], c>>] /\ w[none] = base
    BY <2>1 DEF Descends
  <2> HIDE DEF f, Value, Good
  <2>3. f[c] = w[c] /\ f[P[c]] = w[P[c]]
    BY <1>4, <1>5, <2>1, <2>2
  <2> QED
    BY <2>1, <2>2, <2>3
<1> HIDE DEF f
<1>7. Descends(f, C, C, P, none, A, G, base)
  BY <1>5, <1>6 DEF Descends
<1> QED
  BY <1>7

-----------------------------------------------------------------------------
(* The entries of one channel. *)

\* What the evaluation carries along.
Accumulated == [granted : SUBSET Perms, traverse : BOOLEAN, write : BOOLEAN, blocked : BOOLEAN]

\* A sequence of well-formed entries.
IsEntries(s) ==
    /\ s \in Seq({s[i] : i \in DOMAIN s})
    /\ \A i \in DOMAIN s : IsEntry(s[i])

\* An entry leaves a value of this type, and does not bar by itself.
LEMMA EvaluateType ==
    ASSUME NEW acc \in Accumulated, NEW chan, NEW ch, NEW e, IsEntry(e), NEW u
    PROVE  /\ Evaluate(acc, chan, ch, e, u) \in Accumulated
           /\ Evaluate(acc, chan, ch, e, u).blocked = acc.blocked
<1>1. Set(acc.traverse, "Traverse", e) \in BOOLEAN /\ Set(acc.write, "Write", e) \in BOOLEAN
  BY DEF Set, Accumulated
<1>2. (acc.granted \cup Grantable(chan, ch, e)) \ e.deny \in SUBSET Perms
  BY DEF Grantable, IsEntry, Accumulated
<1> QED
  BY <1>1, <1>2 DEF Evaluate, Accumulated

\* f holds what is carried along after each entry of ch, and s the entries.
ChannelFolds(f, s, acc, chan, ch, u) ==
    LET end == f[Len(s)]
    IN  /\ s = qlACL[ch]
        /\ f \in [0 .. Len(s) -> Accumulated]
        /\ f[0] = [acc EXCEPT !.granted = Start(acc, ch)]
        /\ \A j \in 1 .. Len(s) : f[j] = Evaluate(f[j - 1], chan, ch, s[j], u)
        /\ EvaluateChannel(acc, chan, ch, u) = [end EXCEPT !.blocked = ~end.traverse /\ ~end.write]

\* The evaluation of a channel is the fold of its entries, from the values of
\* the channels before it or from the default.
LEMMA ChannelFold ==
    ASSUME NEW acc \in Accumulated, ~acc.blocked, NEW chan, NEW ch, NEW u, IsEntries(qlACL[ch])
    PROVE  \E f, s : ChannelFolds(f, s, acc, chan, ch, u)
<1> DEFINE s == qlACL[ch]
           X == {s[i] : i \in DOMAIN s}
           base == [acc EXCEPT !.granted = Start(acc, ch)]
           G == [x \in Accumulated \X X |-> Evaluate(x[1], chan, ch, x[2], u)]
<1>1. s \in Seq(X) /\ Len(s) \in Nat /\ (\A j \in 1 .. Len(s) : s[j] \in X /\ IsEntry(s[j]))
  BY DEF IsEntries
<1>2. base \in Accumulated
  BY DEF Accumulated, Start, Default, Perms
<1>3. G \in [Accumulated \X X -> Accumulated]
  BY EvaluateType DEF IsEntries
<1>4. \A a \in Accumulated, e \in X : G[<<a, e>>] = Evaluate(a, chan, ch, e, u)
  OBVIOUS
<1> HIDE DEF X, G
<1>5. PICK h \in [0 .. Len(s) -> Accumulated] : Folds(h, G, base, s)
  <2> HIDE DEF s, base
  <2> QED
    BY <1>1, <1>2, <1>3, FoldExists
<1>6. h[0] = base /\ \A j \in 1 .. Len(s) : h[j] = Evaluate(h[j - 1], chan, ch, s[j], u)
  <2> HIDE DEF base, s
  <2>1. h[0] = base /\ \A j \in 1 .. Len(s) : h[j] = G[<<h[j - 1], s[j]>>]
    BY <1>5 DEF Folds
  <2>2. \A j \in 1 .. Len(s) : h[j - 1] \in Accumulated /\ s[j] \in X
    BY <1>1
  <2> QED
    BY <1>4, <2>1, <2>2
<1> DEFINE body(f) == [j \in 0 .. Len(s) |->
                         IF j = 0 THEN base ELSE Evaluate(f[j - 1], chan, ch, s[j], u)]
           after == CHOOSE f : f = body(f)
<1>7. h = body(h)
  <2> HIDE DEF base
  <2> QED
    BY <1>1, <1>6
<1>8. after = body(after)
  <2> HIDE DEF body
  <2> QED
    BY <1>7
<1>9. EvaluateChannel(acc, chan, ch, u)
        = [after[Len(s)] EXCEPT !.blocked = ~after[Len(s)].traverse /\ ~after[Len(s)].write]
  BY DEF EvaluateChannel
<1>10. after[0] = base /\ \A j \in 1 .. Len(s) : after[j] = Evaluate(after[j - 1], chan, ch, s[j], u)
  <2> HIDE DEF after, base, s
  <2>1. after = [j \in 0 .. Len(s) |->
                   IF j = 0 THEN base ELSE Evaluate(after[j - 1], chan, ch, s[j], u)]
    BY <1>8
  <2>2. 0 \in 0 .. Len(s) /\ \A j \in 1 .. Len(s) : j \in 0 .. Len(s) /\ j # 0
    BY <1>1
  <2> HIDE DEF body
  <2> QED
    BY <2>1, <2>2
<1>11. \A j \in 0 .. Len(s) : after[j] = h[j]
  <2> HIDE DEF after, base, s, body
  <2>1. \A j \in 1 .. Len(s) : after[j - 1] = h[j - 1] => after[j] = h[j]
    BY <1>6, <1>10
  <2> QED
    <3>1. Len(s) \in Nat /\ after[0] = h[0]
      BY <1>1, <1>6, <1>10
    <3> QED
      BY <2>1, <3>1, FoldUnique, ZenonT(30)
<1>12. after \in [0 .. Len(s) -> Accumulated]
  <2>1. DOMAIN after = 0 .. Len(s) /\ after = [j \in 0 .. Len(s) |-> after[j]]
    <3> HIDE DEF after, base
    <3> QED
      BY <1>8
  <2> HIDE DEF after
  <2> QED
    BY <1>11, <2>1
<1> HIDE DEF after, base
<1> QED
  <2>1. ChannelFolds(after, s, acc, chan, ch, u)
    BY <1>9, <1>10, <1>12 DEF base, ChannelFolds
  <2> QED
    BY <2>1

\* The evaluation of a channel keeps to the type; a channel no longer reached
\* leaves everything as it is.
LEMMA ChannelType ==
    ASSUME NEW acc \in Accumulated, NEW chan, NEW ch, NEW u, IsEntries(qlACL[ch])
    PROVE  EvaluateChannel(acc, chan, ch, u) \in Accumulated
<1>1. CASE acc.blocked
  BY <1>1 DEF EvaluateChannel
<1>2. CASE ~acc.blocked
  <2>1. PICK f, s : ChannelFolds(f, s, acc, chan, ch, u)
    BY <1>2, ChannelFold
  <2>2. Len(s) \in 0 .. Len(s)
    BY <2>1 DEF ChannelFolds, IsEntries
  <2> QED
    BY <2>1, <2>2 DEF ChannelFolds, Accumulated
<1> QED
  BY <1>1, <1>2

-----------------------------------------------------------------------------
(* From the root to the channel asked about. *)

\* Every channel hangs from the root, and its entries are well formed.
Evaluable ==
    /\ TreeFrom(Channels, cParent, Root, NoChannel)
    /\ \A c \in Channels : IsEntries(qlACL[c])

First == [granted |-> Default, traverse |-> TRUE, write |-> FALSE, blocked |-> FALSE]

\* The evaluation on the way to a channel goes on from that of its parent.
LEMMA WalkUnfolds ==
    ASSUME Evaluable, NEW u, NEW chan
    PROVE  /\ WalkTo(u, chan, NoChannel) = First
           /\ \A d \in Channels :
                /\ cParent[d] \in Channels \cup {NoChannel}
                /\ WalkTo(u, chan, d) \in Accumulated
                /\ WalkTo(u, chan, d) = EvaluateChannel(WalkTo(u, chan, cParent[d]), chan, d, u)
<1>1. /\ TreeFrom(Channels, cParent, Root, NoChannel) /\ Tree(Channels, cParent, Root)
      /\ NoChannel \notin Channels /\ cParent[Root] = NoChannel
      /\ \A c \in Channels : IsEntries(qlACL[c]) /\ cParent[c] \in Channels \cup {NoChannel}
  BY DEF Evaluable, TreeFrom, Tree
<1> DEFINE D == Channels \cup {NoChannel}
           G == [x \in Accumulated \X Channels |-> EvaluateChannel(x[1], chan, x[2], u)]
           body(f) == [e \in D |-> IF e = NoChannel THEN First
                                   ELSE EvaluateChannel(f[cParent[e]], chan, e, u)]
           walk == CHOOSE f : f = body(f)
<1>2. First \in Accumulated
  BY DEF First, Accumulated, Default, Perms
<1>3. G \in [Accumulated \X Channels -> Accumulated]
  BY <1>1, ChannelType
<1>4. \A a \in Accumulated, c \in Channels : G[<<a, c>>] = EvaluateChannel(a, chan, c, u)
  OBVIOUS
<1> HIDE DEF G
<1>5. PICK h : Descends(h, Channels, Channels, cParent, NoChannel, Accumulated, G, First)
  BY <1>1, <1>2, <1>3, DescendsExists
<1>6. h = body(h)
  <2>1. h \in [D -> Accumulated] /\ h[NoChannel] = First
    BY <1>5 DEF Descends
  <2>2. \A c \in Channels : h[c] = EvaluateChannel(h[cParent[c]], chan, c, u)
    <3> TAKE c \in Channels
    <3>1. h[cParent[c]] \in Accumulated
      BY <1>1, <2>1
    <3> QED
      BY <1>4, <1>5, <3>1 DEF Descends
  <2> QED
    BY <1>1, <2>1, <2>2
<1>7. walk = body(walk)
  <2> HIDE DEF body
  <2> QED
    BY <1>6
<1>8. \A d : WalkTo(u, chan, d) = walk[d]
  BY DEF WalkTo, First
<1> HIDE DEF walk
<1>9. walk[NoChannel] = First /\ \A d \in Channels : walk[d] = EvaluateChannel(walk[cParent[d]], chan, d, u)
  <2>1. walk = [e \in D |-> IF e = NoChannel THEN First
                            ELSE EvaluateChannel(walk[cParent[e]], chan, e, u)]
    BY <1>7
  <2> HIDE DEF body
  <2> QED
    BY <1>1, <2>1
<1> HIDE DEF body
<1>10. \A d \in Channels : walk[d] \in Accumulated
  <2> DEFINE S == {d \in Channels : walk[d] \in Accumulated}
  <2>1. Root \in S
    BY <1>1, <1>2, <1>9, ChannelType DEF Tree
  <2>2. \A c \in Channels \ {Root} : cParent[c] \in S => c \in S
    BY <1>1, <1>9, ChannelType
  <2>3. S \in SUBSET Channels
    OBVIOUS
  <2>4. S = Channels
    <3> HIDE DEF S
    <3> QED
      BY <1>1, <2>1, <2>2, <2>3, TreeInduction
  <2> QED
    BY <2>4
<1> QED
  BY <1>1, <1>8, <1>9, <1>10

\* Whatever is granted is a permission.
LEMMA PermissionsType ==
    ASSUME Evaluable, NEW u, NEW chan \in Channels
    PROVE  EffectivePermissions(u, chan) \subseteq Perms
<1>1. Walk(u, chan) \in Accumulated
  BY WalkUnfolds DEF Walk
<1>2. Completed(chan, Walk(u, chan).granted) \subseteq Perms
  BY <1>1 DEF Completed, Accumulated, ImpliedByWrite, RootOnly, Perms
<1> QED
  BY <1>2 DEF EffectivePermissions

\* The path to a channel is that to its parent and the channel itself.
LEMMA PathUnfolds ==
    ASSUME TreeFrom(Channels, cParent, Root, NoChannel)
    PROVE  /\ PathTo(NoChannel) = <<>>
           /\ \A d \in Channels :
                /\ PathTo(d) \in Seq(Channels)
                /\ PathTo(d) = Append(PathTo(cParent[d]), d)
<1>1. /\ Tree(Channels, cParent, Root) /\ NoChannel \notin Channels /\ cParent[Root] = NoChannel
      /\ \A c \in Channels : cParent[c] \in Channels \cup {NoChannel}
  BY DEF TreeFrom, Tree
<1> DEFINE D == Channels \cup {NoChannel}
           A == Seq(Channels)
           G == [x \in A \X Channels |-> Append(x[1], x[2])]
           body(f) == [d \in D |-> IF d = NoChannel THEN <<>> ELSE Append(f[cParent[d]], d)]
           path == CHOOSE f : f = body(f)
<1>2. G \in [A \X Channels -> A] /\ <<>> \in A /\ \A a \in A, c \in Channels : G[<<a, c>>] = Append(a, c)
  OBVIOUS
<1> HIDE DEF G
<1>3. PICK h : Descends(h, Channels, Channels, cParent, NoChannel, A, G, <<>>)
  <2> HIDE DEF A
  <2> QED
    BY <1>2, DescendsExists
<1>4. h \in [D -> A] /\ h[NoChannel] = <<>> /\ \A c \in Channels : h[c] = Append(h[cParent[c]], c)
  <2>1. h \in [D -> A] /\ h[NoChannel] = <<>>
    BY <1>3 DEF Descends
  <2>2. \A c \in Channels : h[cParent[c]] \in A
    BY <1>1, <2>1
  <2> HIDE DEF A
  <2> QED
    BY <1>2, <1>3, <2>1, <2>2 DEF Descends
<1>5. h = body(h)
  <2> HIDE DEF A
  <2> QED
    BY <1>1, <1>4
<1>6. path = body(path)
  <2> HIDE DEF body
  <2> QED
    BY <1>5
<1>7. \A d : PathTo(d) = path[d]
  BY DEF PathTo
<1> HIDE DEF path
<1>8. path[NoChannel] = <<>> /\ \A d \in Channels : path[d] = Append(path[cParent[d]], d)
  BY <1>1, <1>6
<1> HIDE DEF body
<1>9. \A d \in Channels : path[d] \in A
  <2> DEFINE S == {d \in Channels : path[d] \in A}
  <2>1. Root \in S
    BY <1>1, <1>8 DEF Tree
  <2>2. \A c \in Channels \ {Root} : cParent[c] \in S => c \in S
    <3> TAKE c \in Channels \ {Root}
    <3> HAVE cParent[c] \in S
    <3>1. path[cParent[c]] \in Seq(Channels) /\ path[c] = Append(path[cParent[c]], c)
      BY <1>8
    <3>2. path[c] \in Seq(Channels)
      BY <3>1
    <3> QED
      BY <3>2
  <2>3. S \in SUBSET Channels
    OBVIOUS
  <2>4. S = Channels
    <3> HIDE DEF S
    <3> QED
      BY <1>1, <2>1, <2>2, <2>3, TreeInduction
  <2> QED
    BY <2>4
<1> QED
  BY <1>7, <1>8, <1>9

\* What is above a channel is on the path to it.
LEMMA AboveOnPath ==
    ASSUME TreeFrom(Channels, cParent, Root, NoChannel), NEW c \in Channels,
           NEW a \in Above(Channels, cParent, Root, c)
    PROVE  \E i \in 1 .. Len(PathTo(c)) : PathTo(c)[i] = a
<1>1. /\ Tree(Channels, cParent, Root) /\ NoChannel \notin Channels /\ cParent[Root] = NoChannel
      /\ \A d \in Channels \ {Root} : cParent[d] \in Channels
  BY DEF TreeFrom, Tree
<1>2. /\ PathTo(NoChannel) = <<>>
      /\ \A d \in Channels : PathTo(d) \in Seq(Channels) /\ PathTo(d) = Append(PathTo(cParent[d]), d)
  BY PathUnfolds
<1> DEFINE On(d) == {PathTo(d)[i] : i \in 1 .. Len(PathTo(d))}
           S == {d \in Channels : d \in On(d) /\ On(d) \subseteq Channels /\ Closed(cParent, Root, On(d))}
<1>3. On(Root) = {Root}
  <2>1. PathTo(Root) = <<Root>>
    <3>1. PathTo(Root) = Append(<<>>, Root)
      BY <1>1, <1>2 DEF Tree
    <3> QED
      BY <3>1
  <2>2. Len(<<Root>>) = 1 /\ <<Root>>[1] = Root
    OBVIOUS
  <2>3. {<<Root>>[i] : i \in 1 .. Len(<<Root>>)} = {Root}
    BY <2>2
  <2> QED
    BY <2>1, <2>3
<1>4. \A d \in Channels \ {Root} : On(d) = On(cParent[d]) \cup {d}
  <2> TAKE d \in Channels \ {Root}
  <2> DEFINE p == PathTo(cParent[d])
             q == PathTo(d)
  <2>1. p \in Seq(Channels) /\ q = Append(p, d)
    BY <1>1, <1>2
  <2> HIDE DEF p, q
  <2>2. Len(q) = Len(p) + 1 /\ Len(p) \in Nat /\ q[Len(p) + 1] = d /\ \A i \in 1 .. Len(p) : q[i] = p[i]
    BY <2>1
  <2>3. {q[i] : i \in 1 .. Len(q)} = {p[i] : i \in 1 .. Len(p)} \cup {d}
    BY <2>2
  <2> QED
    BY <2>3 DEF p, q
<1> HIDE DEF On
<1>5. Root \in S
  BY <1>1, <1>3 DEF Tree, Closed
<1>6. \A d \in Channels \ {Root} : cParent[d] \in S => d \in S
  BY <1>4 DEF Closed
<1>7. S = Channels
  <2>1. S \in SUBSET Channels
    OBVIOUS
  <2> HIDE DEF S
  <2> QED
    BY <1>1, <1>5, <1>6, <2>1, TreeInduction
<1>8. a \in On(c)
  <2>1. c \in On(c) /\ On(c) \subseteq Channels /\ Closed(cParent, Root, On(c))
    BY <1>7
  <2> QED
    BY <2>1 DEF Above
<1> QED
  BY <1>8 DEF On

-----------------------------------------------------------------------------
(* What the permissions of a user depend on. *)

\* What the server knows of u is what it was.
SameUser(u) ==
    /\ iId'[u] = iId[u] /\ cChannel'[u] = cChannel[u]
    /\ qslAccessTokens'[u] = qslAccessTokens[u]

\* The entries of other users and of the groups decide alike as long as the
\* tree is the same and the groups say the same of u.
LEMMA MatchesFrame ==
    ASSUME NEW u, SameUser(u), cParent' = cParent, Says(u)' = Says(u),
           NEW chan, NEW ch, NEW e
    PROVE  Matches(chan, ch, e, u)' = Matches(chan, ch, e, u)
BY DEF SameUser, Matches, AppliesToUser, InGroup, InSub, PathTo

\* Permissions depend on the tree, the entries and what the groups say.
LEMMA PermissionsFrame ==
    ASSUME NEW u, SameUser(u), UNCHANGED <<cParent, bInheritACL, qlACL>>, Says(u)' = Says(u),
           NEW c
    PROVE  EffectivePermissions(u, c)' = EffectivePermissions(u, c)
BY DEF SameUser, EffectivePermissions, Completed, Walk, WalkTo, EvaluateChannel, Start, Evaluate,
   Grantable, Set, Applies, AppliesTraverse, Matches, AppliesToUser, InGroup, InSub, PathTo

\* With the tree and the groups unchanged, whatever the groups say is.
LEMMA SaysFrame ==
    ASSUME NEW u, iId'[u] = iId[u], qhGroups' = qhGroups
    PROVE  Says(u)' = Says(u)
BY DEF Says, Temporary

-----------------------------------------------------------------------------
(* Entries of another account. *)

\* What EntriesFor has kept after each entry.
Keeps(left, X, s, accounts) ==
    /\ left \in [0 .. Len(s) -> Seq(X)] /\ left[0] = <<>>
    /\ \A i \in 1 .. Len(s) :
          left[i] = IF s[i].user \in accounts THEN Append(left[i - 1], s[i]) ELSE left[i - 1]
    /\ EntriesFor(s, accounts) = left[Len(s)]

\* EntriesFor goes along the sequence.
LEMMA EntriesUnfold ==
    ASSUME NEW X, NEW s \in Seq(X), NEW accounts
    PROVE  \E left : Keeps(left, X, s, accounts)
<1> DEFINE A == Seq(X)
           G == [x \in A \X X |-> IF x[2].user \in accounts THEN Append(x[1], x[2]) ELSE x[1]]
           body(f) == [i \in 0 .. Len(s) |->
                         IF i = 0 THEN <<>>
                         ELSE IF s[i].user \in accounts THEN Append(f[i - 1], s[i]) ELSE f[i - 1]]
           left == CHOOSE f : f = body(f)
<1>1. Len(s) \in Nat /\ \A i \in 1 .. Len(s) : s[i] \in X
  OBVIOUS
<1>2. /\ G \in [A \X X -> A] /\ <<>> \in A
      /\ \A a \in A, e \in X : G[<<a, e>>] = IF e.user \in accounts THEN Append(a, e) ELSE a
  OBVIOUS
<1> HIDE DEF G
<1>3. PICK h \in [0 .. Len(s) -> A] : Folds(h, G, <<>>, s)
  <2> HIDE DEF A
  <2> QED
    BY <1>2, FoldExists
<1>4. /\ h[0] = <<>>
      /\ \A i \in 1 .. Len(s) :
            h[i] = IF s[i].user \in accounts THEN Append(h[i - 1], s[i]) ELSE h[i - 1]
  <2>1. h[0] = <<>> /\ \A i \in 1 .. Len(s) : h[i] = G[<<h[i - 1], s[i]>>]
    BY <1>3 DEF Folds
  <2>2. \A i \in 1 .. Len(s) : h[i - 1] \in A
    BY <1>1
  <2> HIDE DEF A
  <2> QED
    BY <1>1, <1>2, <2>1, <2>2
<1> DEFINE next(a, i) == IF s[i].user \in accounts THEN Append(a, s[i]) ELSE a
<1>5. h = body(h)
  <2>1. \A i \in 1 .. Len(s) : h[i] = next(h[i - 1], i)
    BY <1>4
  <2>2. \A i \in 0 .. Len(s) : i = 0 \/ i \in 1 .. Len(s)
    BY <1>1
  <2>3. body(h) = [i \in 0 .. Len(s) |-> IF i = 0 THEN <<>> ELSE next(h[i - 1], i)]
    OBVIOUS
  <2> HIDE DEF A, next, body
  <2>4. h = [i \in 0 .. Len(s) |-> IF i = 0 THEN <<>> ELSE next(h[i - 1], i)]
    BY <1>4, <2>1, <2>2
  <2> QED
    BY <2>3, <2>4
<1>6. left = body(left)
  <2> HIDE DEF body
  <2> QED
    BY <1>5
<1>7. EntriesFor(s, accounts) = left[Len(s)]
  BY DEF EntriesFor
<1> HIDE DEF left
<1>8. /\ DOMAIN left = 0 .. Len(s) /\ left = [i \in 0 .. Len(s) |-> left[i]] /\ left[0] = <<>>
      /\ \A i \in 1 .. Len(s) :
            left[i] = IF s[i].user \in accounts THEN Append(left[i - 1], s[i]) ELSE left[i - 1]
  <2>1. left = [i \in 0 .. Len(s) |-> IF i = 0 THEN <<>> ELSE next(left[i - 1], i)]
    BY <1>6
  <2>2. 0 \in 0 .. Len(s) /\ \A i \in 1 .. Len(s) : i \in 0 .. Len(s) /\ i # 0
    BY <1>1
  <2>3. left[0] = <<>> /\ \A i \in 1 .. Len(s) : left[i] = next(left[i - 1], i)
    <3> HIDE DEF next, body
    <3> QED
      BY <2>1, <2>2
  <2>4. DOMAIN left = 0 .. Len(s) /\ left = [i \in 0 .. Len(s) |-> left[i]]
    <3> HIDE DEF next, body
    <3> QED
      BY <2>1
  <2> QED
    BY <2>3, <2>4
<1> HIDE DEF body
<1>9. \A i \in 0 .. Len(s) : left[i] = h[i]
  <2>1. \A i \in 1 .. Len(s) : left[i - 1] = h[i - 1] => left[i] = h[i]
    BY <1>4, <1>8
  <2>2. Len(s) \in Nat /\ left[0] = h[0]
    BY <1>1, <1>4, <1>8
  <2> QED
    BY <2>1, <2>2, FoldUnique, ZenonT(30)
<1>10. left \in [0 .. Len(s) -> Seq(X)]
  BY <1>8, <1>9
<1>11. Keeps(left, X, s, accounts)
  BY <1>7, <1>8, <1>10 DEF Keeps
<1> QED
  BY <1>11

\* What is left of well-formed entries is well formed, and holds nothing else.
LEMMA EntriesLeft ==
    ASSUME NEW s, IsEntries(s), NEW accounts
    PROVE  /\ IsEntries(EntriesFor(s, accounts))
           /\ \A i \in DOMAIN EntriesFor(s, accounts) :
                 \E k \in DOMAIN s : EntriesFor(s, accounts)[i] = s[k]
<1> DEFINE X == {s[i] : i \in DOMAIN s}
           t == EntriesFor(s, accounts)
<1>1. s \in Seq(X)
  BY DEF IsEntries
<1>2. PICK left : Keeps(left, X, s, accounts)
  <2> HIDE DEF X
  <2> QED
    BY <1>1, EntriesUnfold
<1>3. t \in Seq(X)
  <2>1. Len(s) \in 0 .. Len(s)
    BY <1>1
  <2> HIDE DEF X
  <2> QED
    BY <1>2, <2>1 DEF Keeps
<1> HIDE DEF t
<1>4. \A i \in DOMAIN t : t[i] \in X
  <2> HIDE DEF X
  <2> QED
    BY <1>3
<1>5. \A i \in DOMAIN t : \E k \in DOMAIN s : t[i] = s[k]
  BY <1>4
<1>6. \A i \in DOMAIN t : IsEntry(t[i])
  BY <1>5 DEF IsEntries
<1>7. t \in Seq({t[i] : i \in DOMAIN t})
  <2> HIDE DEF X
  <2> QED
    BY <1>3
<1> QED
  BY <1>5, <1>6, <1>7 DEF IsEntries, t

\* ChannelFold as a fact of every state.
LEMMA ChannelFoldAlways ==
    \A a \in Accumulated : \A x, c, v :
        ~a.blocked /\ IsEntries(qlACL[c]) => \E h, r : ChannelFolds(h, r, a, x, c, v)
BY ChannelFold

LEMMA ChannelFoldNext ==
    (\A a \in Accumulated : \A x, c, v :
        ~a.blocked /\ IsEntries(qlACL[c]) => \E h, r : ChannelFolds(h, r, a, x, c, v))'
BY ChannelFoldAlways, PTL

\* A channel's evaluation for u does not notice the entries of another account
\* being taken out.
LEMMA OthersEntries ==
    ASSUME NEW u, SameUser(u), UNCHANGED <<cParent, bInheritACL>>, Says(u)' = Says(u),
           NEW ch, IsEntries(qlACL[ch]), NEW id, id # -1, id # iId[u],
           qlACL'[ch] = EntriesFor(qlACL[ch], Int \ {id}),
           NEW acc \in Accumulated, NEW chan
    PROVE  EvaluateChannel(acc, chan, ch, u)' = EvaluateChannel(acc, chan, ch, u)
<1>1. CASE acc.blocked
  <2>1. EvaluateChannel(acc, chan, ch, u) = acc
    BY <1>1 DEF EvaluateChannel
  <2>2. EvaluateChannel(acc, chan, ch, u)' = acc
    BY <1>1 DEF EvaluateChannel
  <2> QED
    BY <2>1, <2>2
<1>2. CASE ~acc.blocked
  <2>1. PICK f, s : ChannelFolds(f, s, acc, chan, ch, u)
    BY <1>2, ChannelFold
  <2>2. PICK g, t : ChannelFolds(g, t, acc, chan, ch, u)'
    <3>1. IsEntries(qlACL[ch])'
      BY EntriesLeft
    <3>2. (\A a \in Accumulated : \A x, c, v :
              ~a.blocked /\ IsEntries(qlACL[c]) => \E h, r : ChannelFolds(h, r, a, x, c, v))'
      BY ChannelFoldNext
    <3> QED
      BY <1>2, <3>1, <3>2
  <2> DEFINE base == [acc EXCEPT !.granted = Start(acc, ch)]
  <2>3. /\ s = qlACL[ch] /\ f \in [0 .. Len(s) -> Accumulated] /\ f[0] = base
        /\ \A j \in 1 .. Len(s) : f[j] = Evaluate(f[j - 1], chan, ch, s[j], u)
    BY <2>1 DEF ChannelFolds
  <2>4. t = EntriesFor(s, Int \ {id}) /\ g[0] = base
    BY <2>1, <2>2 DEF ChannelFolds, Start
  <2>5. \A j \in 1 .. Len(t) : g[j] = Evaluate(g[j - 1], chan, ch, t[j], u)
    <3> TAKE j \in 1 .. Len(t)
    <3> DEFINE e == t[j]
    <3>1. Evaluate(g[j - 1], chan, ch, e, u)' = Evaluate(g[j - 1], chan, ch, e, u)
      <4> HIDE DEF e
      <4>1. Matches(chan, ch, e, u)' = Matches(chan, ch, e, u)
        BY MatchesFrame
      <4> QED
        BY <4>1 DEF Evaluate, Set, Applies, AppliesTraverse, Grantable
    <3> QED
      BY <2>2, <3>1 DEF ChannelFolds
  <2> HIDE DEF base
  <2> DEFINE X == {s[i] : i \in DOMAIN s}
  <2>6. s \in Seq(X) /\ Len(s) \in Nat /\ \A i \in 1 .. Len(s) : s[i] \in X /\ IsEntry(s[i])
    BY <2>3 DEF IsEntries
  <2> HIDE DEF X
  <2>7. PICK left : Keeps(left, X, s, Int \ {id})
    BY <2>6, EntriesUnfold
  <2> DEFINE Runs(h, q) == /\ h[0] = base
                           /\ \A j \in 1 .. Len(q) : h[j] = Evaluate(h[j - 1], chan, ch, q[j], u)
             Bad == {i \in 0 .. Len(s) : ~\A h : Runs(h, left[i]) => h[Len(left[i])] = f[i]}
  <2>8. Bad = {}
    <3> SUFFICES ASSUME Bad # {} PROVE FALSE
      OBVIOUS
    <3>1. PICK i \in Bad : \A k \in Bad : i <= k
      <4>1. Bad \in SUBSET Nat
        BY <2>6
      <4> HIDE DEF Bad
      <4> QED
        BY <4>1, LeastExists
    <3>2. PICK h : Runs(h, left[i]) /\ h[Len(left[i])] # f[i]
      BY <3>1
    <3>3. i \in 0 .. Len(s)
      OBVIOUS
    <3>4. left[0] = <<>> /\ \A k \in 0 .. Len(s) : left[k] \in Seq(X)
      BY <2>7 DEF Keeps
    <3>5. i # 0
      BY <2>3, <3>2, <3>4
    <3>6. i \in 1 .. Len(s) /\ i - 1 \in 0 .. Len(s)
      BY <2>6, <3>3, <3>5
    <3>7. \A r : Runs(r, left[i - 1]) => r[Len(left[i - 1])] = f[i - 1]
      <4>1. i - 1 \notin Bad
        <5> HIDE DEF Bad
        <5> QED
          BY <3>1, <3>6
      <4> QED
        BY <3>6, <4>1
    <3>8. f[i] = Evaluate(f[i - 1], chan, ch, s[i], u) /\ IsEntry(s[i]) /\ s[i] \in X
      BY <2>3, <2>6, <3>6
    <3>9. CASE s[i].user \in Int \ {id}
      <4> DEFINE q == left[i - 1]
                 n == Len(q) + 1
      <4>1. q \in Seq(X) /\ left[i] = Append(q, s[i])
        BY <2>7, <3>4, <3>6, <3>9 DEF Keeps
      <4> HIDE DEF q
      <4>2. /\ Len(q) \in Nat /\ Len(left[i]) = n /\ left[i][n] = s[i]
            /\ \A j \in 1 .. Len(q) : left[i][j] = q[j]
        BY <3>8, <4>1
      <4>3. Runs(h, q)
        <5> SUFFICES ASSUME NEW j \in 1 .. Len(q)
                     PROVE  h[j] = Evaluate(h[j - 1], chan, ch, q[j], u)
          BY <3>2
        <5>1. j \in 1 .. Len(left[i]) /\ left[i][j] = q[j]
          BY <4>2
        <5>2. h[j] = Evaluate(h[j - 1], chan, ch, left[i][j], u)
          BY <3>2, <5>1
        <5> QED
          BY <5>1, <5>2
      <4>4. h[n] = Evaluate(h[n - 1], chan, ch, s[i], u) /\ n - 1 = Len(q)
        <5>1. n \in 1 .. Len(left[i]) /\ n - 1 = Len(q)
          BY <4>2
        <5>2. \A j \in 1 .. Len(left[i]) : h[j] = Evaluate(h[j - 1], chan, ch, left[i][j], u)
          BY <3>2
        <5>3. left[i][n] = s[i]
          BY <4>2
        <5> HIDE DEF n, Bad, Runs
        <5> QED
          BY <5>1, <5>2, <5>3
      <4>5. h[Len(q)] = f[i - 1]
        BY <3>7, <4>3 DEF q
      <4> QED
        BY <3>2, <3>8, <4>2, <4>4, <4>5
    <3>10. CASE s[i].user \notin Int \ {id}
      <4>1. left[i] = left[i - 1]
        BY <2>7, <3>6, <3>10 DEF Keeps
      <4>2. s[i].user = id /\ s[i].group.name = ""
        BY <3>8, <3>10 DEF IsEntry
      <4>3. ~Matches(chan, ch, s[i], u)
        BY <4>2 DEF Matches, AppliesToUser
      <4>4. f[i] = f[i - 1]
        BY <3>8, <4>3 DEF Evaluate
      <4> QED
        BY <3>2, <3>7, <4>1, <4>4
    <3> QED
      BY <3>9, <3>10
  <2>11. f[Len(s)] = g[Len(t)]
    <3>1. Runs(g, t)
      BY <2>4, <2>5
    <3>2. t = left[Len(s)] /\ Len(s) \in 0 .. Len(s)
      BY <2>4, <2>6, <2>7 DEF Keeps
    <3>3. \A h : Runs(h, left[Len(s)]) => h[Len(left[Len(s)])] = f[Len(s)]
      BY <2>8, <3>2
    <3> QED
      BY <3>1, <3>2, <3>3
  <2>9. EvaluateChannel(acc, chan, ch, u) = [f[Len(s)] EXCEPT !.blocked = ~f[Len(s)].traverse /\ ~f[Len(s)].write]
    BY <2>1 DEF ChannelFolds
  <2>10. EvaluateChannel(acc, chan, ch, u)' = [g[Len(t)] EXCEPT !.blocked = ~g[Len(t)].traverse /\ ~g[Len(t)].write]
    BY <2>2 DEF ChannelFolds
  <2> QED
    BY <2>9, <2>10, <2>11
<1> QED
  BY <1>1, <1>2

\* WalkUnfolds as a fact of every state.
LEMMA WalkAlways ==
    Evaluable =>
      \A v, x :
        /\ WalkTo(v, x, NoChannel) = First
        /\ \A d \in Channels : \A p, a :
              p = cParent[d] /\ a = WalkTo(v, x, p) => WalkTo(v, x, d) = EvaluateChannel(a, x, d, v)
BY WalkUnfolds

LEMMA WalkNext ==
    (Evaluable =>
      \A v, x :
        /\ WalkTo(v, x, NoChannel) = First
        /\ \A d \in Channels : \A p, a :
              p = cParent[d] /\ a = WalkTo(v, x, p) => WalkTo(v, x, d) = EvaluateChannel(a, x, d, v))'
BY WalkAlways, PTL

\* An account that is taken out of all entries leaves the other users what they
\* may do.
LEMMA OthersPermissions ==
    ASSUME Evaluable, NEW u, SameUser(u), UNCHANGED <<cParent, bInheritACL>>, Says(u)' = Says(u),
           NEW id, id # -1, id # iId[u],
           \A c \in Channels : qlACL'[c] = EntriesFor(qlACL[c], Int \ {id}),
           NEW chan \in Channels
    PROVE  EffectivePermissions(u, chan)' = EffectivePermissions(u, chan)
<1>1. /\ TreeFrom(Channels, cParent, Root, NoChannel) /\ Tree(Channels, cParent, Root)
      /\ cParent[Root] = NoChannel
      /\ \A c \in Channels : IsEntries(qlACL[c])
  BY DEF Evaluable, TreeFrom
<1>2. Evaluable'
  <2>1. \A c \in Channels : IsEntries(EntriesFor(qlACL[c], Int \ {id}))
    BY <1>1, EntriesLeft
  <2>2. \A c \in Channels : IsEntries(qlACL'[c])
    BY <2>1
  <2> QED
    BY <1>1, <2>2 DEF Evaluable
<1>3. /\ WalkTo(u, chan, NoChannel) = First
      /\ \A d \in Channels :
            /\ WalkTo(u, chan, d) \in Accumulated
            /\ WalkTo(u, chan, d) = EvaluateChannel(WalkTo(u, chan, cParent[d]), chan, d, u)
  BY WalkUnfolds
<1>4. /\ WalkTo(u, chan, NoChannel)' = First
      /\ \A d \in Channels : \A p, a :
            p = cParent[d] /\ a = WalkTo(u, chan, p)'
              => WalkTo(u, chan, d)' = EvaluateChannel(a, chan, d, u)'
  <2>1. (\A v, x :
           /\ WalkTo(v, x, NoChannel) = First
           /\ \A d \in Channels : \A p, a :
                 p = cParent[d] /\ a = WalkTo(v, x, p)
                   => WalkTo(v, x, d) = EvaluateChannel(a, x, d, v))'
    BY <1>2, WalkNext
  <2> QED
    BY <2>1
<1> DEFINE S == {d \in Channels : WalkTo(u, chan, d)' = WalkTo(u, chan, d)}
<1>5. ASSUME NEW d \in Channels, NEW p, p = cParent[d], NEW a, a = WalkTo(u, chan, p),
             a \in Accumulated, WalkTo(u, chan, p)' = a
      PROVE  d \in S
  <2>1. WalkTo(u, chan, d)' = EvaluateChannel(a, chan, d, u)'
    BY <1>4, <1>5
  <2>2. EvaluateChannel(a, chan, d, u)' = EvaluateChannel(a, chan, d, u)
    BY <1>1, <1>5, OthersEntries
  <2>3. WalkTo(u, chan, d) = EvaluateChannel(a, chan, d, u)
    BY <1>3, <1>5
  <2> QED
    BY <2>1, <2>2, <2>3
<1>6. S = Channels
  <2>1. Root \in S
    <3>1. Root \in Channels /\ First \in Accumulated
      BY <1>1 DEF Tree, First, Accumulated, Default, Perms
    <3> HIDE DEF S
    <3> QED
      BY <1>1, <1>3, <1>4, <1>5, <3>1
  <2>2. ASSUME NEW c \in Channels \ {Root}, cParent[c] \in S
        PROVE  c \in S
    <3>1. PICK p : p = cParent[c]
      OBVIOUS
    <3>2. p \in Channels /\ WalkTo(u, chan, p)' = WalkTo(u, chan, p)
      BY <2>2, <3>1
    <3> HIDE DEF S
    <3> QED
      BY <1>3, <1>5, <3>1, <3>2
  <2>3. S \in SUBSET Channels
    OBVIOUS
  <2> HIDE DEF S
  <2> QED
    BY <1>1, <2>1, <2>2, <2>3, TreeInduction
<1>7. Walk(u, chan)' = Walk(u, chan)
  BY <1>6 DEF Walk
<1> QED
  BY <1>7 DEF EffectivePermissions, Completed, SameUser

-----------------------------------------------------------------------------
(* The last word decides. *)

\* A path leads from the root down, from parent to child.
Path(path, c) ==
    /\ path \in Seq(Channels) /\ Len(path) \in Nat \ {0}
    /\ path[1] = Root /\ path[Len(path)] = c
    /\ \A i \in 2 .. Len(path) : cParent[path[i]] = path[i - 1]
    /\ c = Root => Len(path) = 1

LEMMA PathsLead ==
    ASSUME TreeFrom(Channels, cParent, Root, NoChannel), NEW c \in Channels
    PROVE  Path(PathTo(c), c)
<1>1. /\ Tree(Channels, cParent, Root) /\ NoChannel \notin Channels /\ cParent[Root] = NoChannel
      /\ Root \in Channels /\ \A d \in Channels \ {Root} : cParent[d] \in Channels
  BY DEF TreeFrom, Tree
<1>2. /\ PathTo(NoChannel) = <<>>
      /\ \A d \in Channels : PathTo(d) \in Seq(Channels) /\ PathTo(d) = Append(PathTo(cParent[d]), d)
  BY PathUnfolds
<1> DEFINE S == {d \in Channels : Path(PathTo(d), d)}
<1>3. Root \in S
  <2>1. PathTo(Root) = Append(<<>>, Root)
    BY <1>1, <1>2
  <2>2. /\ Append(<<>>, Root) \in Seq(Channels) /\ Len(Append(<<>>, Root)) = 1
        /\ Append(<<>>, Root)[1] = Root
    BY <1>1
  <2>3. PathTo(Root) \in Seq(Channels) /\ Len(PathTo(Root)) = 1 /\ PathTo(Root)[1] = Root
    BY <2>1, <2>2
  <2>4. \A i \in 2 .. Len(PathTo(Root)) : FALSE
    BY <2>3
  <2>5. Path(PathTo(Root), Root)
    BY <2>3, <2>4 DEF Path
  <2> QED
    BY <1>1, <2>5
<1>4. ASSUME NEW d \in Channels \ {Root}, cParent[d] \in S PROVE d \in S
  <2> DEFINE p == PathTo(cParent[d])
  <2>1. /\ p \in Seq(Channels) /\ Len(p) \in Nat \ {0} /\ p[1] = Root /\ p[Len(p)] = cParent[d]
        /\ \A i \in 2 .. Len(p) : cParent[p[i]] = p[i - 1]
    BY <1>4 DEF Path
  <2>2. PathTo(d) = Append(p, d)
    BY <1>2
  <2> HIDE DEF p
  <2>3. /\ PathTo(d) \in Seq(Channels) /\ Len(PathTo(d)) = Len(p) + 1
        /\ PathTo(d)[Len(p) + 1] = d /\ \A i \in 1 .. Len(p) : PathTo(d)[i] = p[i]
    BY <2>1, <2>2
  <2>4. ASSUME NEW i \in 2 .. Len(p) + 1
        PROVE  cParent[PathTo(d)[i]] = PathTo(d)[i - 1]
    <3>1. CASE i = Len(p) + 1
      BY <2>1, <2>3, <3>1
    <3>2. CASE i # Len(p) + 1
      <4>1. i \in 2 .. Len(p) /\ i \in 1 .. Len(p) /\ i - 1 \in 1 .. Len(p)
        BY <2>1, <3>2
      <4> QED
        BY <2>1, <2>3, <4>1
    <3> QED
      BY <3>1, <3>2
  <2>5. PathTo(d)[1] = Root
    BY <2>1, <2>3
  <2> QED
    BY <2>1, <2>3, <2>4, <2>5 DEF Path
<1>5. S = Channels
  <2> HIDE DEF S
  <2>1. S \in SUBSET Channels
    BY DEF S
  <2> QED
    BY <1>1, <1>3, <1>4, <2>1, TreeInduction
<1> QED
  BY <1>5

\* The places of S up to the j-th entry of the i-th channel; with j = -1 those
\* in the channels before.
Before(S, i, j) == {w \in S : w[1] < i \/ (w[1] = i /\ w[2] <= j)}

\* The next place, where it is one, is the latest.
LEMMA LatestNext ==
    ASSUME NEW S \in SUBSET (Nat \X Nat), NEW i \in Nat, NEW j \in Nat
    PROVE  /\ <<i, j>> \in S => Before(S, i, j) # {} /\ Latest(Before(S, i, j)) = <<i, j>>
           /\ <<i, j>> \notin S => Before(S, i, j) = Before(S, i, j - 1)
<1>1. ASSUME <<i, j>> \in S
      PROVE  Before(S, i, j) # {} /\ Latest(Before(S, i, j)) = <<i, j>>
  <2> DEFINE T == Before(S, i, j)
  <2>1. <<i, j>> \in T
    BY <1>1 DEF Before
  <2>2. \A v \in T : Later(<<i, j>>, v) /\ (Later(v, <<i, j>>) => v = <<i, j>>)
    BY DEF Before, Later
  <2> HIDE DEF T
  <2>3. \A w \in T : (\A v \in T : Later(w, v)) => w = <<i, j>>
    BY <2>1, <2>2
  <2> QED
    BY <2>1, <2>2, <2>3 DEF Latest, T
<1>2. ASSUME <<i, j>> \notin S
      PROVE  Before(S, i, j) = Before(S, i, j - 1)
  <2>1. ASSUME NEW w \in S PROVE w \in Before(S, i, j) <=> w \in Before(S, i, j - 1)
    BY <1>2, <2>1 DEF Before
  <2> QED
    BY <2>1 DEF Before
<1> QED
  BY <1>1, <1>2

\* The entries on the way that speak of Traverse, of Write and of p, and the
\* channels that start over; those are places for any p.
TraverseWords(u, path) == {w \in Places(path) : Speaks(u, path, w, "Traverse", AppliesTraverse)}
WriteWords(u, path) == {w \in Places(path) : Speaks(u, path, w, "Write", Applies)}
PermWords(u, path, p) ==
    {w \in Places(path) :
        /\ Speaks(u, path, w, p, Applies)
        /\ (p \in RootOnly /\ path[Len(path)] # Root) => p \in EntryAt(path, w).deny}
      \cup {<<i, 0>> : i \in {i \in 1 .. Len(path) : ~bInheritACL[path[i]]}}

\* What the latest of these places says.
FlagSaid(S, path, p, before) == IF S = {} THEN before ELSE p \notin EntryAt(path, Latest(S)).deny
PermSaid(S, path, p) ==
    IF S = {} \/ Latest(S)[2] = 0 THEN p \in Default ELSE p \notin EntryAt(path, Latest(S)).deny

\* The values carried along are what the places up to here say.
Carried(u, path, acc, i, j) ==
    /\ acc.traverse <=> FlagSaid(Before(TraverseWords(u, path), i, j), path, "Traverse", TRUE)
    /\ acc.write <=> FlagSaid(Before(WriteWords(u, path), i, j), path, "Write", FALSE)
    /\ \A p \in Perms : p \in acc.granted <=> PermSaid(Before(PermWords(u, path, p), i, j), path, p)

\* Places are pairs of numbers, which is all LatestNext asks for.
LEMMA WordPlaces ==
    ASSUME NEW path \in Seq(Channels), NEW u, \A c \in Channels : IsEntries(qlACL[c])
    PROVE  /\ TraverseWords(u, path) \in SUBSET (Nat \X Nat)
           /\ WriteWords(u, path) \in SUBSET (Nat \X Nat)
           /\ \A p : PermWords(u, path, p) \in SUBSET (Nat \X Nat)
           /\ \A i \in 1 .. Len(path), j \in Nat :
                 <<i, j>> \in Places(path) <=> j \in 1 .. Len(qlACL[path[i]])
           /\ \A w \in Places(path) : w[1] \in 1 .. Len(path) /\ w[2] \in 1 .. Len(qlACL[path[w[1]]])
<1>1. \A i \in 1 .. Len(path) : i \in Nat /\ path[i] \in Channels /\ Len(qlACL[path[i]]) \in Nat
  BY DEF IsEntries
<1>2. \A w : w \in Places(path) <=>
        \E i \in 1 .. Len(path) : \E j \in 1 .. Len(qlACL[path[i]]) : w = <<i, j>>
  BY DEF Places
<1>3. Places(path) \in SUBSET (Nat \X Nat)
  BY <1>1, <1>2
<1>4. \A p : PermWords(u, path, p) \in SUBSET (Nat \X Nat)
  BY <1>3 DEF PermWords
<1> QED
  BY <1>2, <1>3, <1>4 DEF TraverseWords, WriteWords

\* Before the first channel nothing was said.
LEMMA CarriedFirst ==
    ASSUME NEW path \in Seq(Channels), NEW u, \A c \in Channels : IsEntries(qlACL[c])
    PROVE  Carried(u, path, First, 1, -1)
<1>1. \A w \in Places(path) : w[1] \in Nat \ {0} /\ w[2] \in Nat \ {0}
  <2>1. \A c \in Channels : Len(qlACL[c]) \in Nat
    BY DEF IsEntries
  <2>2. \A w \in Places(path) : path[w[1]] \in Channels
    BY WordPlaces
  <2> QED
    BY <2>1, <2>2, WordPlaces
<1>2. /\ Before(TraverseWords(u, path), 1, -1) = {}
      /\ Before(WriteWords(u, path), 1, -1) = {}
  BY <1>1 DEF Before, TraverseWords, WriteWords
<1>3. \A p : Before(PermWords(u, path, p), 1, -1) = {}
  <2>1. \A p : \A w \in PermWords(u, path, p) :
            w \in Places(path) \/ \E i \in 1 .. Len(path) : w = <<i, 0>>
    BY DEF PermWords
  <2>2. \A p : \A w \in PermWords(u, path, p) : w[1] \in Nat \ {0} /\ w[2] \in Nat
    BY <1>1, <2>1
  <2> QED
    BY <2>2 DEF Before
<1> QED
  BY <1>2, <1>3 DEF Carried, FlagSaid, PermSaid, First, Default, Perms

\* A channel starts over, or goes on.
LEMMA CarriedStart ==
    ASSUME NEW path \in Seq(Channels), NEW u, \A c \in Channels : IsEntries(qlACL[c]),
           NEW i \in 1 .. Len(path), NEW acc \in Accumulated, Carried(u, path, acc, i, -1)
    PROVE  Carried(u, path, [acc EXCEPT !.granted = Start(acc, path[i])], i, 0)
<1> DEFINE next == [acc EXCEPT !.granted = Start(acc, path[i])]
<1>1. /\ next.traverse = acc.traverse /\ next.write = acc.write
      /\ next.granted = IF bInheritACL[path[i]] THEN acc.granted ELSE Default
  BY DEF Accumulated, Start
<1> HIDE DEF next
<1>2. <<i, 0>> \notin Places(path) /\ i \in Nat
  BY WordPlaces
<1>3. 0 \in Nat /\ 0 - 1 = -1
  OBVIOUS
<1>4. /\ Before(TraverseWords(u, path), i, 0) = Before(TraverseWords(u, path), i, -1)
      /\ Before(WriteWords(u, path), i, 0) = Before(WriteWords(u, path), i, -1)
  <2>1. <<i, 0>> \notin TraverseWords(u, path) /\ <<i, 0>> \notin WriteWords(u, path)
    BY <1>2 DEF TraverseWords, WriteWords
  <2>2. TraverseWords(u, path) \in SUBSET (Nat \X Nat) /\ WriteWords(u, path) \in SUBSET (Nat \X Nat)
    BY WordPlaces
  <2>3. \A S \in SUBSET (Nat \X Nat) : <<i, 0>> \notin S => Before(S, i, 0) = Before(S, i, -1)
    BY <1>2, <1>3, LatestNext
  <2> QED
    BY <2>1, <2>2, <2>3
<1>5. ASSUME NEW p \in Perms
      PROVE  p \in next.granted <=> PermSaid(Before(PermWords(u, path, p), i, 0), path, p)
  <2>1. <<i, 0>> \in PermWords(u, path, p) <=> ~bInheritACL[path[i]]
    BY <1>2 DEF PermWords
  <2>2. p \in acc.granted <=> PermSaid(Before(PermWords(u, path, p), i, -1), path, p)
    BY DEF Carried
  <2>3. PermWords(u, path, p) \in SUBSET (Nat \X Nat)
    BY WordPlaces
  <2>4. CASE bInheritACL[path[i]]
    <3>1. Before(PermWords(u, path, p), i, 0) = Before(PermWords(u, path, p), i, -1)
      BY <1>2, <1>3, <2>1, <2>3, <2>4, LatestNext, SMTT(30)
    <3> QED
      BY <1>1, <2>2, <2>4, <3>1
  <2>5. CASE ~bInheritACL[path[i]]
    <3>1. Latest(Before(PermWords(u, path, p), i, 0)) = <<i, 0>>
      BY <1>2, <2>1, <2>3, <2>5, LatestNext
    <3> QED
      BY <1>1, <2>5, <3>1 DEF PermSaid
  <2> QED
    BY <2>4, <2>5
<1> QED
  BY <1>1, <1>4, <1>5 DEF Carried, next

\* An entry that speaks of a flag has the last word on it, and any other leaves
\* it as it is.
LEMMA FlagNext ==
    ASSUME NEW S \in SUBSET (Nat \X Nat), NEW i \in Nat, NEW j \in Nat, NEW path, NEW p, NEW before,
           NEW flag \in BOOLEAN, flag <=> FlagSaid(Before(S, i, j - 1), path, p, before),
           NEW next \in BOOLEAN,
           <<i, j>> \in S => (next <=> p \notin EntryAt(path, <<i, j>>).deny),
           <<i, j>> \notin S => next = flag
    PROVE  next <=> FlagSaid(Before(S, i, j), path, p, before)
<1>1. CASE <<i, j>> \in S
  BY <1>1, LatestNext DEF FlagSaid
<1>2. CASE <<i, j>> \notin S
  BY <1>2, LatestNext
<1> QED
  BY <1>1, <1>2

LEMMA CarriedEntry ==
    ASSUME NEW path \in Seq(Channels), NEW u, \A c \in Channels : IsEntries(qlACL[c]),
           NEW i \in 1 .. Len(path), NEW j \in 1 .. Len(qlACL[path[i]]),
           path[Len(path)] = Root => path[i] = Root,
           NEW acc \in Accumulated, Carried(u, path, acc, i, j - 1)
    PROVE  Carried(u, path, Evaluate(acc, path[Len(path)], path[i], qlACL[path[i]][j], u), i, j)
<1> DEFINE chan == path[Len(path)]
           ch == path[i]
           e == qlACL[ch][j]
           next == Evaluate(acc, chan, ch, e, u)
           matches == Matches(chan, ch, e, u)
<1>1. /\ i \in Nat /\ ch \in Channels /\ Len(qlACL[ch]) \in Nat /\ j \in Nat \ {0} /\ j # 0
      /\ EntryAt(path, <<i, j>>) = e /\ IsEntry(e) /\ e.allow \subseteq Perms /\ e.deny \subseteq Perms
  <2>1. i \in Nat /\ ch \in Channels /\ IsEntries(qlACL[ch])
    OBVIOUS
  <2>2. Len(qlACL[ch]) \in Nat /\ j \in DOMAIN qlACL[ch] /\ j \in Nat \ {0}
    BY <2>1 DEF IsEntries
  <2>3. EntryAt(path, <<i, j>>) = e
    BY DEF EntryAt
  <2> QED
    BY <2>1, <2>2, <2>3 DEF IsEntries, IsEntry
<1>2. <<i, j>> \in Places(path)
  BY <1>1, WordPlaces
<1>3. /\ <<i, j>> \in TraverseWords(u, path) <=>
            matches /\ AppliesTraverse(chan, ch, e) /\ "Traverse" \in e.allow \cup e.deny
      /\ <<i, j>> \in WriteWords(u, path) <=>
            matches /\ Applies(chan, ch, e) /\ "Write" \in e.allow \cup e.deny
  BY <1>1, <1>2 DEF TraverseWords, WriteWords, Speaks
<1>4. \A p : <<i, j>> \in PermWords(u, path, p) <=>
            /\ matches /\ Applies(chan, ch, e) /\ p \in e.allow \cup e.deny
            /\ (p \in RootOnly /\ chan # Root) => p \in e.deny
  BY <1>1, <1>2 DEF PermWords, Speaks
<1>5. /\ next.traverse = IF matches /\ AppliesTraverse(chan, ch, e)
                          THEN Set(acc.traverse, "Traverse", e) ELSE acc.traverse
      /\ next.write = IF matches /\ Applies(chan, ch, e) THEN Set(acc.write, "Write", e) ELSE acc.write
      /\ next.granted = IF matches /\ Applies(chan, ch, e)
                        THEN (acc.granted \cup Grantable(chan, ch, e)) \ e.deny ELSE acc.granted
  BY DEF Evaluate, Accumulated
<1>6. next \in Accumulated
  BY <1>1, EvaluateType
<1>7. /\ acc.traverse \in BOOLEAN /\ next.traverse \in BOOLEAN
      /\ acc.write \in BOOLEAN /\ next.write \in BOOLEAN
  BY <1>6 DEF Accumulated
<1>8. chan = Root => ch = Root
  OBVIOUS
<1> HIDE DEF next, matches, e, ch, chan
<1>9. next.traverse <=> FlagSaid(Before(TraverseWords(u, path), i, j), path, "Traverse", TRUE)
  <2>1. <<i, j>> \in TraverseWords(u, path) => (next.traverse <=> "Traverse" \notin e.deny)
    BY <1>3, <1>5, <1>7 DEF Set
  <2>2. <<i, j>> \notin TraverseWords(u, path) => next.traverse = acc.traverse
    BY <1>3, <1>5, <1>7 DEF Set
  <2> QED
    BY <1>1, <1>7, <2>1, <2>2, WordPlaces, FlagNext DEF Carried
<1>10. next.write <=> FlagSaid(Before(WriteWords(u, path), i, j), path, "Write", FALSE)
  <2>1. <<i, j>> \in WriteWords(u, path) => (next.write <=> "Write" \notin e.deny)
    BY <1>3, <1>5, <1>7 DEF Set
  <2>2. <<i, j>> \notin WriteWords(u, path) => next.write = acc.write
    BY <1>3, <1>5, <1>7 DEF Set
  <2> QED
    BY <1>1, <1>7, <2>1, <2>2, WordPlaces, FlagNext DEF Carried
<1>11. ASSUME NEW p \in Perms
       PROVE  p \in next.granted <=> PermSaid(Before(PermWords(u, path, p), i, j), path, p)
  <2>1. PermWords(u, path, p) \in SUBSET (Nat \X Nat)
    BY WordPlaces
  <2>2. p \in acc.granted <=> PermSaid(Before(PermWords(u, path, p), i, j - 1), path, p)
    BY DEF Carried
  <2>3. CASE <<i, j>> \in PermWords(u, path, p)
    <3>1. p \in next.granted <=> p \notin e.deny
      BY <1>4, <1>5, <1>8, <2>3 DEF Grantable
    <3>2. /\ Before(PermWords(u, path, p), i, j) # {}
          /\ Latest(Before(PermWords(u, path, p), i, j)) = <<i, j>>
      BY <1>1, <2>1, <2>3, LatestNext
    <3> QED
      BY <1>1, <3>1, <3>2 DEF PermSaid
  <2>4. CASE <<i, j>> \notin PermWords(u, path, p)
    <3>1. p \in next.granted <=> p \in acc.granted
      BY <1>4, <1>5, <2>4 DEF Grantable
    <3>2. Before(PermWords(u, path, p), i, j) = Before(PermWords(u, path, p), i, j - 1)
      BY <1>1, <2>1, <2>4, LatestNext
    <3> QED
      BY <2>2, <3>1, <3>2
  <2> QED
    BY <2>3, <2>4
<1> QED
  BY <1>9, <1>10, <1>11 DEF Carried, next, e, ch, chan

\* Through a channel, which bars where Traverse and Write are both off.
LEMMA CarriedChannel ==
    ASSUME NEW path \in Seq(Channels), NEW u, \A c \in Channels : IsEntries(qlACL[c]),
           NEW i \in 1 .. Len(path), path[Len(path)] = Root => path[i] = Root,
           NEW acc \in Accumulated, ~acc.blocked, Carried(u, path, acc, i, -1),
           NEW next, next = EvaluateChannel(acc, path[Len(path)], path[i], u)
    PROVE  Carried(u, path, next, i + 1, -1) /\ (next.blocked <=> ~next.traverse /\ ~next.write)
<1> DEFINE chan == path[Len(path)]
           ch == path[i]
<1>1. ch \in Channels /\ IsEntries(qlACL[ch]) /\ i \in Nat
  OBVIOUS
<1>2. PICK f, s : ChannelFolds(f, s, acc, chan, ch, u)
  BY <1>1, ChannelFold
<1>3. s = qlACL[ch] /\ Len(s) \in Nat
  BY <1>1, <1>2 DEF ChannelFolds, IsEntries
<1> DEFINE S == {j \in 0 .. Len(s) : Carried(u, path, f[j], i, j)}
<1>4. 0 \in S
  <2>1. f[0] = [acc EXCEPT !.granted = Start(acc, ch)]
    BY <1>2 DEF ChannelFolds
  <2>2. Carried(u, path, f[0], i, 0)
    BY <2>1, CarriedStart
  <2> QED
    BY <1>3, <2>2
<1>5. ASSUME NEW j \in 1 .. Len(s), j - 1 \in S PROVE j \in S
  <2>1. f[j - 1] \in Accumulated /\ f[j] = Evaluate(f[j - 1], chan, ch, s[j], u)
    BY <1>2, <1>3 DEF ChannelFolds
  <2>2. Carried(u, path, f[j - 1], i, j - 1)
    BY <1>5
  <2>3. Carried(u, path, Evaluate(f[j - 1], chan, ch, qlACL[ch][j], u), i, j)
    BY <1>3, <2>1, <2>2, CarriedEntry
  <2> QED
    BY <1>3, <2>1, <2>3
<1>6. Len(s) \in S
  <2> HIDE DEF S
  <2>1. 0 .. Len(s) \subseteq S
    BY <1>3, <1>4, <1>5, AlongSequence
  <2> QED
    BY <1>3, <2>1
<1> DEFINE end == f[Len(s)]
<1>7. Carried(u, path, end, i, Len(s)) /\ end \in Accumulated
  BY <1>2, <1>3, <1>6 DEF ChannelFolds
<1>8. next = [end EXCEPT !.blocked = ~end.traverse /\ ~end.write]
  BY <1>2 DEF ChannelFolds
<1> HIDE DEF end, S
<1>9. /\ next.traverse = end.traverse /\ next.write = end.write /\ next.granted = end.granted
      /\ next.blocked <=> ~next.traverse /\ ~next.write
  BY <1>7, <1>8 DEF Accumulated
<1>10. ASSUME NEW T \in SUBSET (Nat \X Nat),
              \A w \in T : w \in Places(path) \/ w[2] = 0
       PROVE  Before(T, i + 1, -1) = Before(T, i, Len(s))
  <2>1. ASSUME NEW w \in T PROVE w[1] \in Nat /\ w[2] \in Nat /\ (w[1] = i => w[2] <= Len(s))
    BY <1>3, <1>10, WordPlaces
  <2> QED
    BY <1>1, <1>3, <2>1 DEF Before
<1>11. /\ Before(TraverseWords(u, path), i + 1, -1) = Before(TraverseWords(u, path), i, Len(s))
       /\ Before(WriteWords(u, path), i + 1, -1) = Before(WriteWords(u, path), i, Len(s))
  <2>1. /\ \A w \in TraverseWords(u, path) : w \in Places(path)
        /\ \A w \in WriteWords(u, path) : w \in Places(path)
    BY DEF TraverseWords, WriteWords
  <2> QED
    BY <1>10, <2>1, WordPlaces
<1>12. \A p : Before(PermWords(u, path, p), i + 1, -1) = Before(PermWords(u, path, p), i, Len(s))
  <2>1. \A p : \A w \in PermWords(u, path, p) : w \in Places(path) \/ w[2] = 0
    BY DEF PermWords
  <2> QED
    BY <1>10, <2>1, WordPlaces
<1> QED
  BY <1>7, <1>9, <1>11, <1>12 DEF Carried

\* What LastWord asks, in terms of what was said on the way.
LEMMA HeardIsSaid ==
    ASSUME NEW path \in Seq(Channels), NEW u, \A c \in Channels : IsEntries(qlACL[c]),
           NEW i \in 1 .. Len(path)
    PROVE  /\ Heard(u, path, i, "Traverse", AppliesTraverse, TRUE)
                <=> FlagSaid(Before(TraverseWords(u, path), i + 1, -1), path, "Traverse", TRUE)
           /\ Heard(u, path, i, "Write", Applies, FALSE)
                <=> FlagSaid(Before(WriteWords(u, path), i + 1, -1), path, "Write", FALSE)
<1>1. \A w \in Places(path) : w[1] <= i <=> w[1] < i + 1 \/ (w[1] = i + 1 /\ w[2] <= -1)
  <2>1. \A c \in Channels : Len(qlACL[c]) \in Nat
    BY DEF IsEntries
  <2>2. \A w \in Places(path) :
            path[w[1]] \in Channels /\ w[1] \in 1 .. Len(path) /\ w[2] \in 1 .. Len(qlACL[path[w[1]]])
    BY WordPlaces
  <2>3. \A w \in Places(path) : w[1] \in Nat /\ w[2] \in Nat
    BY <2>1, <2>2
  <2> QED
    BY <2>3
<1>2. {w \in Places(path) : w[1] <= i /\ Speaks(u, path, w, "Traverse", AppliesTraverse)}
        = Before(TraverseWords(u, path), i + 1, -1)
  BY <1>1 DEF Before, TraverseWords
<1>3. {w \in Places(path) : w[1] <= i /\ Speaks(u, path, w, "Write", Applies)}
        = Before(WriteWords(u, path), i + 1, -1)
  BY <1>1 DEF Before, WriteWords
<1> QED
  BY <1>2, <1>3 DEF Heard, FromLatest, FlagSaid

LEMMA GrantedIsSaid ==
    ASSUME NEW path \in Seq(Channels), NEW u, \A c \in Channels : IsEntries(qlACL[c]), NEW p
    PROVE  GrantedByLast(u, path, p)
             <=> PermSaid(Before(PermWords(u, path, p), Len(path) + 1, -1), path, p)
<1>1. Before(PermWords(u, path, p), Len(path) + 1, -1) = PermWords(u, path, p)
  <2>1. \A w \in PermWords(u, path, p) :
            w \in Places(path) \/ \E i \in 1 .. Len(path) : w = <<i, 0>>
    BY DEF PermWords
  <2>2. \A w \in PermWords(u, path, p) : w[1] \in 1 .. Len(path)
    BY <2>1, WordPlaces
  <2> QED
    BY <2>2 DEF Before
<1> QED
  BY <1>1 DEF GrantedByLast, FromLatest, PermSaid, PermWords

\* Some channel on the way is left with both flags of the walk off.
BarredByFlags(u, path) ==
    \E i \in 1 .. Len(path) : /\ ~Heard(u, path, i, "Traverse", AppliesTraverse, TRUE)
                              /\ ~Heard(u, path, i, "Write", Applies, FALSE)

\* At every channel on the way, what is carried along is what was said.
LEMMA WalkIsSaid ==
    ASSUME Evaluable, NEW u, NEW c \in Channels, NEW path, path = PathTo(c),
           NEW walk, walk = WalkTo(u, c, c)
    PROVE  /\ walk.blocked <=> BarredByFlags(u, path)
           /\ ~walk.blocked => Carried(u, path, walk, Len(path) + 1, -1)
<1>1. /\ path \in Seq(Channels) /\ Len(path) \in Nat \ {0}
      /\ path[1] = Root /\ path[Len(path)] = c /\ (c = Root => Len(path) = 1)
      /\ \A i \in 2 .. Len(path) : cParent[path[i]] = path[i - 1]
      /\ cParent[Root] = NoChannel /\ \A d \in Channels : IsEntries(qlACL[d])
  BY PathsLead DEF Path, Evaluable, TreeFrom
<1> DEFINE Over(i) == IF i = 0 THEN First ELSE WalkTo(u, c, path[i])
           BarredAt(i) == /\ ~Heard(u, path, i, "Traverse", AppliesTraverse, TRUE)
                          /\ ~Heard(u, path, i, "Write", Applies, FALSE)
           Said(i) == /\ Over(i) \in Accumulated
                      /\ Over(i).blocked <=> \E k \in 1 .. i : BarredAt(k)
                      /\ ~Over(i).blocked => Carried(u, path, Over(i), i + 1, -1)
           S == {i \in 0 .. Len(path) : Said(i)}
<1>2. \A i \in 1 .. Len(path) : Over(i) = EvaluateChannel(Over(i - 1), c, path[i], u)
  <2> TAKE i \in 1 .. Len(path)
  <2>1. /\ WalkTo(u, c, NoChannel) = First
        /\ WalkTo(u, c, path[i]) = EvaluateChannel(WalkTo(u, c, cParent[path[i]]), c, path[i], u)
    BY <1>1, WalkUnfolds
  <2>2. CASE i = 1
    BY <1>1, <2>1, <2>2
  <2>3. CASE i # 1
    <3>1. i \in 2 .. Len(path) /\ i - 1 # 0 /\ i # 0
      BY <1>1, <2>3
    <3> QED
      BY <1>1, <2>1, <3>1
  <2> QED
    BY <2>2, <2>3
<1>3. Over(0) = First /\ First \in Accumulated /\ ~First.blocked
  BY DEF First, Accumulated, Default, Perms
<1>4. Over(Len(path)) = walk
  BY <1>1
<1>5. \A i : BarredAt(i) <=> /\ ~Heard(u, path, i, "Traverse", AppliesTraverse, TRUE)
                             /\ ~Heard(u, path, i, "Write", Applies, FALSE)
  OBVIOUS
<1>6. BarredByFlags(u, path) <=> \E k \in 1 .. Len(path) : BarredAt(k)
  BY DEF BarredByFlags
<1> HIDE DEF Over, BarredAt
<1>7. 0 \in S
  BY <1>1, <1>3, CarriedFirst
<1>8. ASSUME NEW i \in 1 .. Len(path), i - 1 \in S PROVE i \in S
  <2>1. /\ i \in Nat /\ (i - 1) + 1 = i /\ i \in 0 .. Len(path)
        /\ \A k : k \in 1 .. i <=> k \in 1 .. i - 1 \/ k = i
    BY <1>1
  <2>2. /\ Over(i - 1) \in Accumulated
        /\ Over(i - 1).blocked <=> \E k \in 1 .. i - 1 : BarredAt(k)
        /\ ~Over(i - 1).blocked => Carried(u, path, Over(i - 1), i, -1)
    BY <1>8, <2>1
  <2>3. Over(i) = EvaluateChannel(Over(i - 1), c, path[i], u)
    BY <1>2
  <2>4. Over(i) \in Accumulated
    BY <1>1, <2>2, <2>3, ChannelType
  <2>5. CASE Over(i - 1).blocked
    <3>1. Over(i) = Over(i - 1)
      BY <2>3, <2>5 DEF EvaluateChannel
    <3> QED
      BY <2>1, <2>2, <2>5, <3>1
  <2>6. CASE ~Over(i - 1).blocked
    <3>1. path[Len(path)] = Root => path[i] = Root
      <4>1. path[Len(path)] = Root => Len(path) = 1
        BY <1>1
      <4>2. Len(path) = 1 => i = 1
        OBVIOUS
      <4> QED
        BY <1>1, <4>1, <4>2
    <3>2. /\ Carried(u, path, Over(i), i + 1, -1)
          /\ Over(i).blocked <=> ~Over(i).traverse /\ ~Over(i).write
      BY <1>1, <2>2, <2>3, <2>6, <3>1, CarriedChannel
    <3>3. /\ Over(i).traverse <=> Heard(u, path, i, "Traverse", AppliesTraverse, TRUE)
          /\ Over(i).write <=> Heard(u, path, i, "Write", Applies, FALSE)
      BY <1>1, <3>2, HeardIsSaid DEF Carried
    <3>4. Over(i).blocked <=> BarredAt(i)
      BY <1>5, <3>2, <3>3
    <3> QED
      BY <2>1, <2>2, <2>4, <2>6, <3>2, <3>4
  <2> QED
    BY <2>5, <2>6
<1>9. Len(path) \in S
  <2> HIDE DEF S
  <2>1. 0 .. Len(path) \subseteq S
    BY <1>1, <1>7, <1>8, AlongSequence
  <2> QED
    BY <1>1, <2>1
<1> QED
  BY <1>4, <1>6, <1>9

\* Of some pairs, bounded in the first place and for each of these in the
\* second, one is the latest.
LEMMA LatestExists ==
    ASSUME NEW n \in Nat, NEW S \in SUBSET (Nat \X Nat), S # {}, NEW len,
           \A w \in S : w[1] <= n /\ len[w[1]] \in Nat /\ w[2] <= len[w[1]]
    PROVE  Latest(S) \in S /\ \A v \in S : Later(Latest(S), v)
<1>1. \A w \in S : w = <<w[1], w[2]>> /\ w[1] \in Nat /\ w[2] \in Nat
  OBVIOUS
<1> DEFINE firsts == {w[1] : w \in S}
<1>2. PICK i \in firsts : \A k \in firsts : k <= i
  <2>1. firsts \in SUBSET (0 .. n) /\ firsts # {}
    BY <1>1
  <2> HIDE DEF firsts
  <2> QED
    BY <2>1, GreatestExists
<1> DEFINE T == {w \in S : w[1] = i}
           seconds == {w[2] : w \in T}
<1>3. T # {} /\ len[i] \in Nat /\ \A w \in T : w[2] \in 0 .. len[i]
  BY <1>1, <1>2
<1>4. PICK j \in seconds : \A k \in seconds : k <= j
  <2>1. seconds \in SUBSET (0 .. len[i]) /\ seconds # {}
    BY <1>3
  <2> HIDE DEF seconds
  <2> QED
    BY <1>3, <2>1, GreatestExists
<1>5. PICK w \in T : w[2] = j
  BY <1>4
<1>6. w \in S /\ \A v \in S : Later(w, v)
  BY <1>1, <1>2, <1>4, <1>5 DEF Later
<1> QED
  BY <1>6 DEF Latest

\* Who has Write in a channel has the walk's write flag on there.
LEMMA WriteIsCarried ==
    ASSUME NEW path \in Seq(Channels), NEW u, \A c \in Channels : IsEntries(qlACL[c]),
           NEW i \in 1 .. Len(path), WriteThere(u, path, i)
    PROVE  Heard(u, path, i, "Write", Applies, FALSE)
<1> DEFINE S == {w \in Places(path) : w[1] <= i /\ Speaks(u, path, w, "Write", Applies)}
           Since(w) == \A k \in w[1] + 1 .. i : bInheritACL[path[k]]
           T == {w \in Places(path) : /\ w[1] <= i /\ Speaks(u, path, w, "Write", Applies)
                                      /\ Since(w)}
           len == [k \in 1 .. Len(path) |-> Len(qlACL[path[k]])]
<1>1. /\ T # {} /\ "Write" \notin EntryAt(path, Latest(T)).deny
      /\ T \subseteq S /\ S \subseteq Places(path)
  BY DEF WriteThere, FromLatest
<1>2. \A w \in Places(path) : w \in Nat \X Nat /\ w[1] \in 1 .. Len(path) /\ w[2] <= len[w[1]]
                              /\ len[w[1]] \in Nat
  <2>1. \A k \in 1 .. Len(path) : k \in Nat /\ len[k] \in Nat
    BY DEF IsEntries
  <2>2. \A w \in Places(path) :
            \E k \in 1 .. Len(path) : \E j \in 1 .. len[k] : w = <<k, j>>
    BY DEF Places
  <2> HIDE DEF len
  <2> QED
    BY <2>1, <2>2
<1>3. i \in Nat /\ Len(path) \in Nat
  OBVIOUS
<1>4. /\ \A w \in S : w \in T <=> Since(w)
      /\ \A w \in S : w[1] <= i
  OBVIOUS
<1> HIDE DEF S, T, len
<1>5. Latest(S) \in S /\ \A v \in S : Later(Latest(S), v)
  <2>1. S \in SUBSET (Nat \X Nat) /\ S # {}
        /\ \A w \in S : w[1] <= i /\ len[w[1]] \in Nat /\ w[2] <= len[w[1]]
    BY <1>1, <1>2, <1>4
  <2> QED
    BY <1>3, <2>1, LatestExists
<1>6. Latest(T) \in T /\ \A v \in T : Later(Latest(T), v)
  <2>1. T \in SUBSET (Nat \X Nat) /\ T # {}
        /\ \A w \in T : w[1] <= i /\ len[w[1]] \in Nat /\ w[2] <= len[w[1]]
    BY <1>1, <1>2, <1>4
  <2> QED
    BY <1>3, <2>1, LatestExists
<1> DEFINE s == Latest(S)
           t == Latest(T)
<1>7. s \in S /\ t \in S /\ t \in T /\ Later(s, t) /\ (s \in T => Later(t, s))
  BY <1>1, <1>5, <1>6
<1> HIDE DEF s, t
<1>8. s \in Nat \X Nat /\ t \in Nat \X Nat
  BY <1>1, <1>2, <1>7
<1>9. s[1] >= t[1]
  BY <1>7, <1>8 DEF Later
<1>10. Since(s)
  <2>1. Since(t)
    BY <1>4, <1>7
  <2> QED
    BY <1>3, <1>8, <1>9, <2>1
<1>11. s = t
  <2>1. Later(s, t) /\ Later(t, s)
    BY <1>4, <1>7, <1>10
  <2> QED
    BY <1>8, <2>1 DEF Later
<1>12. S # {} /\ "Write" \notin EntryAt(path, Latest(S)).deny
  BY <1>1, <1>7, <1>11 DEF s, t
<1> QED
  BY <1>12 DEF Heard, FromLatest, S

\* The evaluation from the root on comes to what the last words say, or a
\* write flag from above a channel that starts over lets the user through.
LEMMA WalkIsLastWord ==
    ASSUME Evaluable, NEW u, iId[u] # 0, NEW c \in Channels
    PROVE  \/ EffectivePermissions(u, c) = LastWord(u, c)
           \/ Barred(u, PathTo(c)) /\ WriteOutlives(u, PathTo(c))
<1> DEFINE path == PathTo(c)
           walk == WalkTo(u, c, c)
<1>1. /\ walk.blocked <=> BarredByFlags(u, path)
      /\ ~walk.blocked => Carried(u, path, walk, Len(path) + 1, -1)
  <2> HIDE DEF path, walk
  <2>1. path = PathTo(c) /\ walk = WalkTo(u, c, c)
    BY DEF path, walk
  <2> QED
    BY <2>1, WalkIsSaid
<1>2. walk \in Accumulated /\ path \in Seq(Channels) /\ \A d \in Channels : IsEntries(qlACL[d])
  BY WalkUnfolds, PathUnfolds DEF Evaluable
<1> HIDE DEF path, walk
<1>3. ~walk.blocked => walk.granted = {p \in Perms : GrantedByLast(u, path, p)}
  <2> SUFFICES ASSUME ~walk.blocked
               PROVE  \A p : p \in walk.granted <=> p \in Perms /\ GrantedByLast(u, path, p)
    OBVIOUS
  <2>1. walk.granted \subseteq Perms
    BY <1>2 DEF Accumulated
  <2>2. \A p \in Perms : p \in walk.granted <=> GrantedByLast(u, path, p)
    BY <1>1, <1>2, GrantedIsSaid DEF Carried
  <2> QED
    BY <2>1, <2>2
<1>4. \A i \in 1 .. Len(path) :
          WriteThere(u, path, i) => Heard(u, path, i, "Write", Applies, FALSE)
  BY <1>2, WriteIsCarried
<1>5. CASE BarredByFlags(u, path)
  <2>1. Barred(u, path)
    BY <1>4, <1>5 DEF BarredByFlags, Barred, MissesBoth
  <2>2. EffectivePermissions(u, c) = {} /\ LastWord(u, c) = {}
    BY <1>1, <1>5, <2>1 DEF EffectivePermissions, Walk, LastWord, path, walk
  <2> QED
    BY <2>2
<1>6. CASE ~BarredByFlags(u, path) /\ ~Barred(u, path)
  <2>1. EffectivePermissions(u, c) = LastWord(u, c)
    BY <1>1, <1>3, <1>6 DEF EffectivePermissions, Walk, LastWord, path, walk
  <2> QED
    BY <2>1
<1>7. CASE ~BarredByFlags(u, path) /\ Barred(u, path)
  <2>1. WriteOutlives(u, path)
    BY <1>7 DEF BarredByFlags, WriteOutlives, MissesBoth
  <2> QED
    BY <1>7, <2>1 DEF path
<1> QED
  BY <1>5, <1>6, <1>7
=============================================================================
