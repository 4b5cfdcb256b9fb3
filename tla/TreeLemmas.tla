------------------------------ MODULE TreeLemmas ------------------------------
(***************************************************************************)
(* Trees given by parent pointers, without induction: c is below a when    *)
(* every set that holds c and, with each node, its parent, holds a.  The   *)
(* lemmas are about any nodes, parents and root; ChannelTreeProofs uses    *)
(* them for the channels in memory and for the rows of the database.       *)
(***************************************************************************)
EXTENDS Integers, FiniteSets, FiniteSetTheorems, TLAPS

\* S holds the parents of its nodes; the root r needs none.
Closed(P, r, S) == \A c \in S \ {r} : P[c] \in S

\* The nodes of C on the way from c up to r.
Above(C, P, r, c) == {a \in C : \A S \in SUBSET (C \ {a}) : c \in S => ~Closed(P, r, S)}

\* All ways up lead to r: whoever climbs without meeting it climbs nowhere.
Tree(C, P, r) ==
    /\ r \in C
    /\ \A c \in C \ {r} : P[c] \in C
    /\ \A S \in SUBSET (C \ {r}) : S # {} => ~Closed(P, r, S)

-----------------------------------------------------------------------------
(* The order of a tree. *)

\* A node is above itself, and what is above it is closed.
LEMMA AboveSelf ==
    ASSUME NEW C, NEW P, NEW r, NEW c \in C
    PROVE  c \in Above(C, P, r, c)
BY DEF Above

LEMMA AboveTransitive ==
    ASSUME NEW C, NEW P, NEW r, NEW a, NEW b, NEW c,
           a \in Above(C, P, r, b), b \in Above(C, P, r, c)
    PROVE  a \in Above(C, P, r, c)
<1>1. ASSUME NEW S \in SUBSET (C \ {a}), c \in S
      PROVE  ~Closed(P, r, S)
  <2>1. CASE b \in S
    BY <2>1, <1>1 DEF Above
  <2>2. CASE b \notin S
    <3>1. S \in SUBSET (C \ {b})
      BY <2>2, <1>1
    <3> QED
      BY <3>1, <1>1 DEF Above
  <2> QED
    BY <2>1, <2>2
<1> QED
  BY <1>1 DEF Above

\* A parent is above its child.
LEMMA AboveParent ==
    ASSUME NEW C, NEW P, NEW r, Tree(C, P, r), NEW c \in C \ {r}
    PROVE  P[c] \in Above(C, P, r, c)
<1>1. ASSUME NEW S \in SUBSET (C \ {P[c]}), c \in S
      PROVE  ~Closed(P, r, S)
  BY <1>1 DEF Closed
<1> QED
  BY <1>1 DEF Above, Tree

LEMMA AboveClosed ==
    ASSUME NEW C, NEW P, NEW r, Tree(C, P, r), NEW c \in C
    PROVE  Closed(P, r, Above(C, P, r, c))
<1> SUFFICES ASSUME NEW d \in Above(C, P, r, c) \ {r}
             PROVE  P[d] \in Above(C, P, r, c)
  BY DEF Closed
<1>1. d \in C \ {r}
  BY DEF Above
<1> QED
  BY <1>1, AboveParent, AboveTransitive

\* Whatever is above a node and is not the node is above its parent.
LEMMA AboveStep ==
    ASSUME NEW C, NEW P, NEW r, Tree(C, P, r), NEW d \in C,
           NEW a \in Above(C, P, r, d), a # d
    PROVE  d # r /\ a \in Above(C, P, r, P[d])
<1>1. d # r
  <2>1. {d} \in SUBSET (C \ {a})
    OBVIOUS
  <2>2. ~Closed(P, r, {d})
    BY <2>1 DEF Above
  <2> QED
    BY <2>2 DEF Closed
<1>2. ASSUME NEW S \in SUBSET (C \ {a}), P[d] \in S, Closed(P, r, S)
      PROVE  FALSE
  <2>1. S \cup {d} \in SUBSET (C \ {a})
    BY <1>2
  <2>2. Closed(P, r, S \cup {d})
    BY <1>2 DEF Closed
  <2> QED
    BY <2>1, <2>2 DEF Above
<1> QED
  BY <1>1, <1>2 DEF Above

\* The root is above every node, and nothing else is above the root.
LEMMA RootAbove ==
    ASSUME NEW C, NEW P, NEW r, Tree(C, P, r), NEW c \in C
    PROVE  r \in Above(C, P, r, c)
BY DEF Above, Tree

LEMMA AboveRoot ==
    ASSUME NEW C, NEW P, NEW r, Tree(C, P, r)
    PROVE  Above(C, P, r, r) = {r}
<1>1. ASSUME NEW a \in Above(C, P, r, r), a # r
      PROVE  FALSE
  BY <1>1, AboveStep DEF Tree
<1> QED
  BY <1>1, RootAbove DEF Tree

\* Two nodes are not above each other: else all between them form a set that
\* is closed without the root.
LEMMA AboveAntisymmetric ==
    ASSUME NEW C, NEW P, NEW r, Tree(C, P, r), NEW a \in C, NEW b \in C,
           a \in Above(C, P, r, b), b \in Above(C, P, r, a)
    PROVE  a = b
<1> SUFFICES ASSUME a # b PROVE FALSE
  OBVIOUS
<1> DEFINE S == {d \in C : a \in Above(C, P, r, d) /\ b \in Above(C, P, r, d)
                            /\ d \in Above(C, P, r, a) /\ d \in Above(C, P, r, b)}
<1>1. a \in S
  BY AboveSelf
<1>2. r \notin S
  BY AboveRoot
<1>3. Closed(P, r, S)
  <2> SUFFICES ASSUME NEW d \in S \ {r} PROVE P[d] \in S
    BY DEF Closed
  <2>1. P[d] \in C /\ P[d] \in Above(C, P, r, d)
    BY AboveParent DEF Tree
  <2>2. P[d] \in Above(C, P, r, a) /\ P[d] \in Above(C, P, r, b)
    BY <2>1, AboveTransitive
  <2>3. ASSUME NEW x \in {a, b}
        PROVE  x \in Above(C, P, r, P[d])
    <3> DEFINE y == IF x = a THEN b ELSE a
    <3>1. CASE x # d
      BY <3>1, AboveStep
    <3>2. CASE x = d
      <4>1. y \in Above(C, P, r, P[d])
        BY <3>2, AboveStep
      <4> QED
        BY <4>1, AboveTransitive
    <3> QED
      BY <3>1, <3>2
  <2> QED
    BY <2>1, <2>2, <2>3
<1>4. S \in SUBSET (C \ {r})
  BY <1>2
<1> HIDE DEF S
<1> QED
  BY <1>1, <1>3, <1>4 DEF Tree

\* No child is above its parent.
LEMMA ParentNotBelow ==
    ASSUME NEW C, NEW P, NEW r, Tree(C, P, r), NEW c \in C \ {r}
    PROVE  c \notin Above(C, P, r, P[c])
<1> SUFFICES ASSUME c \in Above(C, P, r, P[c]) PROVE FALSE
  OBVIOUS
<1>1. P[c] \in C /\ P[c] = c
  BY AboveParent, AboveAntisymmetric DEF Tree
<1>2. {c} \in SUBSET (C \ {r}) /\ Closed(P, r, {c})
  BY <1>1 DEF Closed
<1> QED
  BY <1>2 DEF Tree

-----------------------------------------------------------------------------
(* Parts and copies of a tree. *)

\* g takes the nodes of a second tree to nodes of the first, each parent to the
\* parent of the image.
Embeds(g, C, P, r, D, Q, s) ==
    /\ g \in [D -> C]
    /\ s \in D /\ g[s] = r
    /\ \A x \in D \ {s} : g[x] # r /\ Q[x] \in D /\ g[Q[x]] = P[g[x]]

LEMMA EmbeddedAbove ==
    ASSUME NEW C, NEW P, NEW r, NEW D, NEW Q, NEW s, NEW g, Embeds(g, C, P, r, D, Q, s),
           NEW x \in D, NEW a \in Above(D, Q, s, x)
    PROVE  g[a] \in Above(C, P, r, g[x])
<1>1. ASSUME NEW S \in SUBSET (C \ {g[a]}), g[x] \in S, Closed(P, r, S)
      PROVE  FALSE
  <2> DEFINE T == {y \in D : g[y] \in S}
  <2>1. T \in SUBSET (D \ {a}) /\ x \in T
    BY <1>1
  <2>2. Closed(Q, s, T)
    BY <1>1 DEF Closed, Embeds
  <2> HIDE DEF T
  <2> QED
    BY <2>1, <2>2 DEF Above
<1> QED
  BY <1>1 DEF Above, Embeds

LEMMA EmbeddedTree ==
    ASSUME NEW C, NEW P, NEW r, NEW D, NEW Q, NEW s, NEW g, Embeds(g, C, P, r, D, Q, s),
           Tree(C, P, r)
    PROVE  Tree(D, Q, s)
<1>1. ASSUME NEW S \in SUBSET (D \ {s}), S # {}, Closed(Q, s, S)
      PROVE  FALSE
  <2> DEFINE T == {g[y] : y \in S}
  <2>1. T \in SUBSET (C \ {r}) /\ T # {}
    BY <1>1 DEF Embeds
  <2>2. Closed(P, r, T)
    <3> SUFFICES ASSUME NEW y \in S PROVE P[g[y]] \in T
      BY DEF Closed
    <3>1. Q[y] \in S /\ g[Q[y]] = P[g[y]]
      BY <1>1 DEF Closed, Embeds
    <3> QED
      BY <3>1
  <2> HIDE DEF T
  <2> QED
    BY <2>1, <2>2 DEF Tree
<1> QED
  BY <1>1 DEF Tree, Embeds

\* No node of a copy is deeper than its image.
LEMMA EmbeddedHeight ==
    ASSUME NEW C, NEW P, NEW r, NEW D, NEW Q, NEW s, NEW g, Embeds(g, C, P, r, D, Q, s),
           IsFiniteSet(C), \A x, y \in D : g[x] = g[y] => x = y, NEW x \in D
    PROVE  Cardinality(Above(D, Q, s, x)) <= Cardinality(Above(C, P, r, g[x]))
<1> DEFINE S == Above(D, Q, s, x)
           T == Above(C, P, r, g[x])
           h == [a \in S |-> g[a]]
<1>1. IsFiniteSet(T)
  BY FS_Subset DEF Above
<1>2. S \subseteq D
  BY DEF Above
<1>3. \A a \in S : h[a] \in T
  BY EmbeddedAbove
<1>4. h \in Injection(S, T)
  BY <1>2, <1>3 DEF Injection, IsInjective
<1> HIDE DEF S, T, h
<1> QED
  BY <1>1, <1>4, FS_Injection DEF S, T

\* What is below c.
LEMMA BelowClosed ==
    ASSUME NEW C, NEW P, NEW r, Tree(C, P, r), NEW c \in C \ {r}
    PROVE  LET X == {d \in C : c \in Above(C, P, r, d)} IN
           /\ c \in X /\ r \notin X
           /\ \A d \in C \ {r} : P[d] \in X => d \in X
           /\ Above(C, P, r, P[c]) \cap X = {}
           /\ Above(C, P, r, P[c]) # {}
<1> DEFINE X == {d \in C : c \in Above(C, P, r, d)}
<1>1. c \in X /\ r \notin X
  BY AboveSelf, AboveRoot
<1>2. ASSUME NEW d \in C \ {r}, P[d] \in X
      PROVE  d \in X
  BY <1>2, AboveParent, AboveTransitive
<1>3. ASSUME NEW d \in Above(C, P, r, P[c]), d \in X
      PROVE  FALSE
  BY <1>3, AboveTransitive, ParentNotBelow
<1>4. P[c] \in Above(C, P, r, P[c])
  BY AboveSelf DEF Tree
<1> QED
  BY <1>1, <1>2, <1>3, <1>4

-----------------------------------------------------------------------------
(* A tree that grows and one in which a part is moved. *)

LEMMA LeafTree ==
    ASSUME NEW C, NEW P, NEW Q, NEW r, Tree(C, P, r), NEW c, c \notin C, Q[c] \in C,
           \A d \in C \ {r} : Q[d] = P[d]
    PROVE  Tree(C \cup {c}, Q, r)
<1>1. ASSUME NEW S \in SUBSET ((C \cup {c}) \ {r}), S # {}, Closed(Q, r, S)
      PROVE  FALSE
  <2>1. CASE S = {c}
    BY <1>1, <2>1 DEF Closed
  <2>2. CASE S # {c}
    <3>1. S \ {c} \in SUBSET (C \ {r}) /\ S \ {c} # {}
      BY <1>1, <2>2
    <3>2. Closed(P, r, S \ {c})
      BY <1>1 DEF Closed, Tree
    <3> QED
      BY <3>1, <3>2 DEF Tree
  <2> QED
    BY <2>1, <2>2
<1> QED
  BY <1>1 DEF Tree

LEMMA LeafAbove ==
    ASSUME NEW C, NEW P, NEW Q, NEW r, Tree(C, P, r), NEW c, c \notin C, Q[c] \in C,
           \A d \in C \ {r} : Q[d] = P[d]
    PROVE  /\ \A d \in C : Above(C \cup {c}, Q, r, d) \subseteq Above(C, P, r, d)
           /\ Above(C \cup {c}, Q, r, c) \subseteq Above(C, P, r, Q[c]) \cup {c}
<1>1. ASSUME NEW d \in C
      PROVE  /\ Closed(Q, r, Above(C, P, r, d))
             /\ d \in Above(C, P, r, d) /\ Above(C, P, r, d) \subseteq C
  BY AboveClosed, AboveSelf DEF Above, Closed
<1>2. ASSUME NEW d \in C, NEW a \in Above(C \cup {c}, Q, r, d)
      PROVE  a \in Above(C, P, r, d)
  <2> SUFFICES ASSUME a \notin Above(C, P, r, d) PROVE FALSE
    OBVIOUS
  <2>1. Above(C, P, r, d) \in SUBSET ((C \cup {c}) \ {a})
    BY <1>1
  <2> QED
    BY <1>1, <2>1 DEF Above
<1>3. ASSUME NEW a \in Above(C \cup {c}, Q, r, c), a \notin Above(C, P, r, Q[c]) \cup {c}
      PROVE  FALSE
  <2> DEFINE T == Above(C, P, r, Q[c]) \cup {c}
  <2>1. T \in SUBSET ((C \cup {c}) \ {a}) /\ c \in T
    BY <1>1, <1>3
  <2>2. Closed(Q, r, T)
    BY <1>1 DEF Closed
  <2> HIDE DEF T
  <2> QED
    BY <2>1, <2>2 DEF Above
<1> QED
  BY <1>2, <1>3

\* No cycle arises when c moves below p, unless c is above p: a closed set of
\* the new tree and one of the old that holds p but not c have a closed set in
\* common.
LEMMA MovedTree ==
    ASSUME NEW C, NEW P, NEW Q, NEW r, Tree(C, P, r), NEW c \in C \ {r},
           Q[c] \in C, c \notin Above(C, P, r, Q[c]),
           \A d \in C \ {r, c} : Q[d] = P[d]
    PROVE  Tree(C, Q, r)
<1>1. ASSUME NEW S \in SUBSET (C \ {r}), S # {}, Closed(Q, r, S)
      PROVE  FALSE
  <2>1. CASE c \notin S
    <3>1. Closed(P, r, S)
      BY <1>1, <2>1 DEF Closed
    <3> QED
      BY <3>1, <1>1 DEF Tree
  <2>2. CASE c \in S
    <3> DEFINE T == S \cap Above(C, P, r, Q[c])
    <3>1. Q[c] \in T
      BY <1>1, <2>2, AboveSelf DEF Closed
    <3>2. Closed(P, r, T)
      BY <1>1, AboveClosed DEF Closed
    <3>3. T \in SUBSET (C \ {r})
      OBVIOUS
    <3> HIDE DEF T
    <3> QED
      BY <3>1, <3>2, <3>3 DEF Tree
  <2> QED
    BY <2>1, <2>2
<1> QED
  BY <1>1 DEF Tree

LEMMA MovedAbove ==
    ASSUME NEW C, NEW P, NEW Q, NEW r, Tree(C, P, r), NEW c \in C \ {r},
           Q[c] \in C, c \notin Above(C, P, r, Q[c]),
           \A d \in C \ {r, c} : Q[d] = P[d], NEW d \in C
    PROVE  Above(C, Q, r, d) \subseteq
              IF c \in Above(C, P, r, d)
              THEN {x \in Above(C, P, r, d) : c \in Above(C, P, r, x)} \cup Above(C, P, r, Q[c])
              ELSE Above(C, P, r, d)
<1> DEFINE T == IF c \in Above(C, P, r, d)
                THEN {x \in Above(C, P, r, d) : c \in Above(C, P, r, x)} \cup Above(C, P, r, Q[c])
                ELSE Above(C, P, r, d)
<1>1. d \in T /\ T \subseteq C
  BY AboveSelf DEF Above
<1>2. Closed(Q, r, T)
  <2> SUFFICES ASSUME NEW x \in T \ {r} PROVE Q[x] \in T
    BY DEF Closed
  <2>1. x \in C \ {r}
    BY <1>1
  <2>2. CASE c \notin Above(C, P, r, d)
    BY <2>1, <2>2, AboveClosed DEF Closed
  <2>3. CASE c \in Above(C, P, r, d) /\ x \in Above(C, P, r, Q[c])
    BY <2>1, <2>3, AboveClosed DEF Closed
  <2>4. CASE c \in Above(C, P, r, d) /\ x = c
    BY <2>4, AboveSelf
  <2>5. CASE c \in Above(C, P, r, d) /\ x \notin Above(C, P, r, Q[c]) /\ x # c
    <3>1. x \in Above(C, P, r, d) /\ c \in Above(C, P, r, x) /\ Q[x] = P[x]
      BY <2>1, <2>5
    <3>2. c \in Above(C, P, r, P[x])
      BY <2>1, <2>5, <3>1, AboveStep
    <3>3. P[x] \in Above(C, P, r, d)
      BY <2>1, <3>1, AboveClosed DEF Closed
    <3> QED
      BY <2>5, <3>1, <3>2, <3>3
  <2> QED
    BY <2>2, <2>3, <2>4, <2>5
<1> HIDE DEF T
<1>3. ASSUME NEW a \in Above(C, Q, r, d), a \notin T
      PROVE  FALSE
  <2>1. T \in SUBSET (C \ {a})
    BY <1>1, <1>3
  <2> QED
    BY <1>1, <1>2, <2>1 DEF Above
<1>4. Above(C, Q, r, d) \subseteq T
  BY <1>3
<1> QED
  BY <1>4 DEF T

\* How deep a node lies after c has moved below Q[c].
LEMMA MovedHeight ==
    ASSUME NEW C, NEW P, NEW Q, NEW r, Tree(C, P, r), IsFiniteSet(C), NEW c \in C \ {r},
           Q[c] \in C, c \notin Above(C, P, r, Q[c]),
           \A d \in C \ {r, c} : Q[d] = P[d], NEW d \in C
    PROVE  \/ Cardinality(Above(C, Q, r, d)) <= Cardinality(Above(C, P, r, d))
           \/ /\ c \in Above(C, P, r, d)
              /\ Cardinality(Above(C, Q, r, d)) <=
                    Cardinality(Above(C, P, r, d)) - Cardinality(Above(C, P, r, c)) + 1
                      + Cardinality(Above(C, P, r, Q[c]))
<1> DEFINE A == Above(C, P, r, d)
           M == {x \in A : c \in Above(C, P, r, x)}
           U == Above(C, P, r, Q[c])
           V == Above(C, P, r, c)
           B == Above(C, Q, r, d)
<1>1. A \subseteq C /\ M \subseteq A /\ U \subseteq C /\ V \subseteq C /\ B \subseteq C
  BY DEF Above
<1>2. \A X \in SUBSET C : IsFiniteSet(X) /\ Cardinality(X) \in Nat
  BY FS_Subset, FS_CardinalityType
<1>3. CASE c \notin A
  <2>1. B \subseteq A
    BY <1>3, MovedAbove
  <2> HIDE DEF A, B
  <2>2. Cardinality(B) <= Cardinality(A)
    BY <1>1, <1>2, <2>1, FS_Subset
  <2> QED
    BY <2>2 DEF A, B
<1>4. CASE c \in A
  <2>1. B \subseteq M \cup U
    BY <1>4, MovedAbove
  <2>2. V \subseteq A
    BY <1>4, AboveTransitive
  <2>3. (M \ {c}) \cap V = {}
    BY AboveAntisymmetric DEF Above
  <2>4. c \in M
    BY <1>4, AboveSelf
  <2> HIDE DEF A, M, U, V, B
  <2>5. Cardinality(M \ {c}) = Cardinality(M) - 1
    BY <1>1, <1>2, <2>4, FS_RemoveElement
  <2>6. Cardinality((M \ {c}) \cup V) = Cardinality(M) - 1 + Cardinality(V)
    <3>1. IsFiniteSet(M \ {c}) /\ IsFiniteSet(V)
          /\ Cardinality(M) \in Nat /\ Cardinality(V) \in Nat
      BY <1>1, <1>2
    <3>2. Cardinality((M \ {c}) \cup V)
            = Cardinality(M \ {c}) + Cardinality(V) - Cardinality((M \ {c}) \cap V)
      BY <3>1, FS_Union
    <3>3. Cardinality((M \ {c}) \cap V) = 0
      BY <2>3, FS_EmptySet
    <3> QED
      BY <2>5, <3>1, <3>2, <3>3
  <2>7. Cardinality((M \ {c}) \cup V) <= Cardinality(A)
    BY <1>1, <1>2, <2>2, FS_Subset
  <2>8. Cardinality(M \cup U) <= Cardinality(M) + Cardinality(U)
    <3>1. /\ IsFiniteSet(M) /\ IsFiniteSet(U) /\ Cardinality(M) \in Nat /\ Cardinality(U) \in Nat
          /\ Cardinality(M \cap U) \in Nat
      BY <1>1, <1>2
    <3>2. Cardinality(M \cup U) = Cardinality(M) + Cardinality(U) - Cardinality(M \cap U)
      BY <3>1, FS_Union
    <3> QED
      BY <3>1, <3>2
  <2>9. Cardinality(B) <= Cardinality(M \cup U)
    BY <1>1, <1>2, <2>1, FS_Subset
  <2>10. Cardinality(B) <= Cardinality(A) - Cardinality(V) + 1 + Cardinality(U)
    BY <1>1, <1>2, <2>6, <2>7, <2>8, <2>9
  <2> QED
    BY <1>4, <2>10 DEF A, B, U, V
<1> QED
  BY <1>3, <1>4

-----------------------------------------------------------------------------
(* The least and the greatest of some numbers. *)

LEMMA LeastExists ==
    ASSUME NEW S \in SUBSET Nat, S # {}
    PROVE  \E n \in S : \A m \in S : n <= m
<1> DEFINE Upto(n) == 0 .. n
           T == {Upto(n) : n \in S}
<1>1. T \subseteq FiniteSubsetsOf(Nat) /\ T # {}
  <2>1. ASSUME NEW n \in S
        PROVE  Upto(n) \in FiniteSubsetsOf(Nat)
    <3>1. IsFiniteSet(0 .. n) /\ 0 .. n \in SUBSET Nat
      BY FS_Interval
    <3> QED
      BY <3>1 DEF FiniteSubsetsOf
  <2> HIDE DEF Upto
  <2> QED
    BY <2>1
<1>2. IsWellFoundedOn(StrictSubsetOrdering(Nat), FiniteSubsetsOf(Nat))
  BY FS_StrictSubsetOrderingWellFounded
<1>3. PICK X \in T : \A Y \in T : ~(<<Y, X>> \in StrictSubsetOrdering(Nat))
  BY <1>1, <1>2, WFMin
<1>4. PICK n \in S : X = 0 .. n
  BY <1>3
<1>5. ASSUME NEW m \in S, m < n
      PROVE  FALSE
  <2>1. 0 .. m \in T /\ 0 .. m \subseteq 0 .. n /\ n \in 0 .. n /\ n \notin 0 .. m
    BY <1>5
  <2>2. <<0 .. m, 0 .. n>> \in StrictSubsetOrdering(Nat)
    BY <2>1 DEF StrictSubsetOrdering
  <2> QED
    BY <1>3, <1>4, <2>1, <2>2
<1> QED
  BY <1>4, <1>5

LEMMA GreatestExists ==
    ASSUME NEW b \in Nat, NEW S \in SUBSET (0 .. b), S # {}
    PROVE  \E n \in S : \A m \in S : m <= n
<1> DEFINE T == {b - n : n \in S}
<1>1. T \in SUBSET Nat /\ T # {}
  <2>1. \A n \in S : b - n \in Nat
    OBVIOUS
  <2> QED
    BY <2>1
<1>2. PICK k \in T : \A m \in T : k <= m
  <2> HIDE DEF T
  <2> QED
    BY <1>1, LeastExists
<1>3. PICK n \in S : k = b - n
  BY <1>2
<1>4. \A m \in S : b - m \in T
  OBVIOUS
<1>5. ASSUME NEW m \in S
      PROVE  m <= n
  <2>1. b - n <= b - m
    BY <1>2, <1>3, <1>4
  <2> QED
    BY <2>1
<1> QED
  BY <1>5
=============================================================================
