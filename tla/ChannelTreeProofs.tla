--------------------------- MODULE ChannelTreeProofs ---------------------------
(***************************************************************************)
(* Proofs about ChannelTree: for any number of channels and users, any     *)
(* nesting limit and every crash the channels are a tree that is nowhere   *)
(* too deep, nothing refers to a removed channel, and the rows are the     *)
(* permanent channels, or a tree that a restart turns into channels.       *)
(***************************************************************************)
EXTENDS ChannelTree, TreeLemmas

Permanent == {c \in channels : ~bTemporary[c]}
Height(c) == Cardinality(Above(channels, cParent, Root, c))

\* The tree in memory: no permanent channel is below a temporary one.
Shape ==
    /\ Tree(channels, cParent, Root)
    /\ cParent[Root] = NoChannel /\ Root \in Permanent
    /\ \A c \in Permanent \ {Root} : cParent[c] \in Permanent
    /\ \A c \in channels : Height(c) <= NestingLimit + 1

\* The ids of permanent channels are below TempOffset and are looked up
\* exactly; of the others only what is in the hash is known to be right.
Numbers ==
    /\ iId[Root] = 0
    /\ \A c \in channels : bTemporary[c] => iId[c] >= TempOffset
    /\ \A c \in Permanent :
          iId[c] < TempOffset /\ iId[c] \in DOMAIN qhChannels /\ qhChannels[iId[c]] = c
    /\ \A i \in DOMAIN qhChannels : qhChannels[i] \in channels /\ iId[qhChannels[i]] = i

\* Only removals of temporary channels are pending.
Pending == \A i \in Ids : events[i] > 0 => i >= TempOffset

Refs ==
    /\ NothingDangles
    /\ \A l \in links : \E a, b \in channels : l = {a, b}

\* The rows of a server that runs.
Stored ==
    /\ DOMAIN dbParent = {iId[c] : c \in Permanent}
    /\ dbParent[0] = 0
    /\ \A c \in Permanent \ {Root} : dbParent[iId[c]] = iId[cParent[c]]
    /\ dbLinks = {{iId[c] : c \in l} : l \in {m \in links : m \subseteq Permanent}}

InMemory == Shape /\ Numbers /\ Pending /\ Refs /\ Stored

\* The rows of a server that stopped, perhaps within a removal.
RowTree(parent, rowLinks) ==
    /\ Tree(DOMAIN parent, parent, 0) /\ parent[0] = 0
    /\ \A i \in DOMAIN parent :
          i < TempOffset /\ Cardinality(Above(DOMAIN parent, parent, 0, i)) <= NestingLimit + 1
    /\ \A l \in rowLinks : \E i, j \in DOMAIN parent : l = {i, j}

Forgotten ==
    /\ channels = {} /\ links = {} /\ qhChannels = [i \in {} |-> Root]
    /\ iId = [c \in Objs |-> 0]
    /\ bTemporary = [c \in Objs |-> FALSE]
    /\ cParent = [c \in Objs |-> NoChannel]
    /\ cChannel = [u \in Users |-> NoChannel]
    /\ events = [i \in Ids |-> 0]

Sound ==
    /\ TypeOK
    /\ server = "up" => InMemory
    /\ server # "up" => Forgotten /\ RowTree(dbParent, dbLinks)

\* Channels that never had their id in common with another have it to
\* themselves, are found by it, and are due once they are empty.
OwnIds == \A c \in channels \ shared : \A d \in channels \ {c} : iId[c] # iId[d]
Exact == OwnIds /\ HashMatches /\ EmptyTemporaryIsDue

-----------------------------------------------------------------------------
(* What the operators of ChannelTree mean in a state that satisfies Shape. *)

LEMMA AncestorsAreAbove ==
    ASSUME TypeOK, Shape, NEW c \in channels
    PROVE  Ancestors(c) = Above(channels, cParent, Root, c)
<1>1. ASSUME NEW S \in SUBSET channels
      PROVE  UpClosed(S) <=> Closed(cParent, Root, S)
  BY <1>1, ObjsAssumption DEF UpClosed, Closed, TypeOK, Shape, Tree
<1> QED
  BY <1>1 DEF Ancestors, Above

LEMMA SubtreeIsBelow ==
    ASSUME TypeOK, Shape
    PROVE  \A c : Subtree(c) = {d \in channels : c \in Above(channels, cParent, Root, d)}
BY AncestorsAreAbove DEF Subtree

\* The objects, and every set of them that the model counts, are finite.
LEMMA FiniteChannels ==
    ASSUME TypeOK
    PROVE  /\ IsFiniteSet(channels) /\ Cardinality(Objs) \in Nat
           /\ \A c \in channels : Height(c) \in Nat /\ Height(c) <= Cardinality(Objs)
<1>1. IsFiniteSet(channels) /\ Cardinality(Objs) \in Nat
      /\ \A X \in SUBSET Objs : IsFiniteSet(X) /\ Cardinality(X) \in Nat /\ Cardinality(X) <= Cardinality(Objs)
  BY ObjsAssumption, FS_Subset, FS_CardinalityType DEF TypeOK
<1>2. ASSUME NEW c \in channels
      PROVE  Above(channels, cParent, Root, c) \in SUBSET Objs
  BY DEF Above, TypeOK
<1> QED
  BY <1>1, <1>2 DEF Height

LEMMA LevelIsHeight ==
    ASSUME TypeOK, Shape, NEW c \in channels
    PROVE  Level(c) = Height(c) - 1 /\ Height(c) \in Nat
BY AncestorsAreAbove, FiniteChannels DEF Level, Height

\* No channel below c is further from c than Depth(c).
LEMMA DepthBounds ==
    ASSUME TypeOK, Shape, NEW c \in channels
    PROVE  /\ Depth(c) \in Nat
           /\ \A d \in Subtree(c) : Height(d) - Height(c) <= Depth(c)
<1> DEFINE below == [d \in Subtree(c) |-> Level(d) - Level(c)]
           N == Cardinality(Objs)
           S == {Level(d) - Level(c) : d \in Subtree(c)}
<1>1. N \in Nat
  BY FiniteChannels
<1>2. ASSUME NEW d \in Subtree(c)
      PROVE  d \in channels /\ Level(d) - Level(c) = Height(d) - Height(c)
             /\ Level(d) - Level(c) \in 0 .. N
  <2>1. d \in channels /\ c \in Above(channels, cParent, Root, d)
    BY SubtreeIsBelow
  <2>2. Above(channels, cParent, Root, c) \subseteq Above(channels, cParent, Root, d)
    BY <2>1, AboveTransitive
  <2>3. IsFiniteSet(Above(channels, cParent, Root, d))
    BY FiniteChannels, FS_Subset DEF Above
  <2>4. Height(c) <= Height(d)
    BY <2>2, <2>3, FS_Subset DEF Height
  <2> QED
    BY <2>1, <2>4, LevelIsHeight, FiniteChannels
<1>3. c \in Subtree(c)
  BY SubtreeIsBelow, AboveSelf
<1>4. S \in SUBSET (0 .. N) /\ S # {}
  BY <1>2, <1>3
<1>5. PICK n \in S : \A m \in S : m <= n
  <2> HIDE DEF S, N
  <2> QED
    BY <1>1, <1>4, GreatestExists
<1>6. PICK d \in Subtree(c) : n = Level(d) - Level(c)
  BY <1>5
<1>7. \E k \in 0 .. N : (\E e \in DOMAIN below : below[e] = k)
                        /\ \A e \in DOMAIN below : below[e] <= k
  BY <1>2, <1>5, <1>6
<1>8. /\ Depth(c) \in 0 .. N
      /\ \A e \in DOMAIN below : below[e] <= Depth(c)
  BY <1>7 DEF Depth
<1> QED
  BY <1>1, <1>2, <1>8

\* Everything above a permanent channel is permanent, so everything below a
\* temporary one is temporary.
LEMMA AbovePermanent ==
    ASSUME Shape, NEW c \in Permanent
    PROVE  Above(channels, cParent, Root, c) \subseteq Permanent
<1> SUFFICES ASSUME NEW a \in Above(channels, cParent, Root, c), a \notin Permanent
             PROVE  FALSE
  OBVIOUS
<1>1. Closed(cParent, Root, Permanent)
  BY DEF Closed, Shape
<1>2. Permanent \in SUBSET (channels \ {a})
  BY DEF Permanent
<1> QED
  BY <1>1, <1>2 DEF Above

\* The smallest id.
LEMMA ZeroIsId == 0 \in Ids /\ Cardinality(Objs) \in Nat /\ 0 \in 0 .. MaxEvents
BY OffsetAssumption, ObjsAssumption, LimitAssumption, FS_CardinalityType DEF Ids

\* The ids of two permanent channels differ.
LEMMA IdsDiffer ==
    ASSUME Numbers, NEW a \in Permanent, NEW b \in Permanent, iId[a] = iId[b]
    PROVE  a = b
BY DEF Numbers

\* createNewChannel finds an id that is free, and that is below the offset.
LEMMA FreeIdIsFree ==
    ASSUME TypeOK, Numbers, Stored
    PROVE  /\ FreeId \in Nat /\ FreeId \notin DOMAIN dbParent
           /\ FreeId <= Cardinality(Objs) /\ FreeId < TempOffset
<1> DEFINE D == DOMAIN dbParent
           K == Cardinality(DOMAIN dbParent)
           g == [i \in D |-> qhChannels[i]]
           F == {n \in 0 .. K : n \notin D}
<1>1. IsFiniteSet(D)
  <2>1. IsFiniteSet(Ids)
    BY OffsetAssumption, ObjsAssumption, FS_CardinalityType, FS_Interval DEF Ids
  <2> QED
    BY <2>1, FS_Subset DEF TypeOK
<1>2. K \in Nat /\ Cardinality(Objs) \in Nat
  BY <1>1, ObjsAssumption, FS_CardinalityType
<1>3. g \in Injection(D, Objs)
  <2>1. \A i \in D : qhChannels[i] \in Objs /\ iId[qhChannels[i]] = i
    <3> TAKE i \in D
    <3>1. PICK c \in Permanent : i = iId[c]
      BY DEF Stored
    <3> QED
      BY <3>1 DEF Numbers, TypeOK, Permanent
  <2> QED
    BY <2>1 DEF Injection, IsInjective
<1>4. K <= Cardinality(Objs)
  <2> HIDE DEF g
  <2> QED
    BY <1>1, <1>3, ObjsAssumption, FS_Injection
<1>5. F # {}
  <2> SUFFICES ASSUME 0 .. K \subseteq D PROVE FALSE
    OBVIOUS
  <2>1. Cardinality(0 .. K) <= K
    BY <1>1, FS_Subset
  <2>2. Cardinality(0 .. K) = K + 1
    BY <1>2, FS_Interval
  <2> QED
    BY <1>2, <2>1, <2>2
<1>6. PICK n \in F : \A m \in F : n <= m
  <2> HIDE DEF F
  <2>1. F \in SUBSET Nat
    BY <1>2 DEF F
  <2> QED
    BY <1>5, <2>1, LeastExists
<1>7. \E k \in 0 .. K : k \notin DOMAIN dbParent /\ \A m \in 0 .. k - 1 : m \in DOMAIN dbParent
  BY <1>2, <1>6
<1>8. FreeId \in 0 .. K /\ FreeId \notin D
  BY <1>7 DEF FreeId
<1> QED
  BY <1>2, <1>4, <1>8, OffsetAssumption

-----------------------------------------------------------------------------
(* The rows are a tree whenever the channels are. *)

\* The rows of a server that runs are a copy of the permanent channels.
LEMMA RowsOfMemory ==
    ASSUME TypeOK, Shape, Numbers, Refs, Stored
    PROVE  RowTree(dbParent, dbLinks)
<1> DEFINE D == DOMAIN dbParent
           g == [i \in D |-> qhChannels[i]]
<1>1. ASSUME NEW i \in D
      PROVE  g[i] \in Permanent /\ iId[g[i]] = i
  <2>1. PICK c \in Permanent : i = iId[c]
    BY DEF Stored
  <2> QED
    BY <2>1 DEF Numbers
<1>2. ASSUME NEW c \in Permanent
      PROVE  iId[c] \in D /\ g[iId[c]] = c
  BY DEF Stored, Numbers
<1> HIDE DEF g
<1>3. 0 \in D /\ g[0] = Root
  BY <1>2 DEF Shape, Numbers
<1>4. ASSUME NEW i \in D \ {0}
      PROVE  g[i] # Root /\ dbParent[i] \in D /\ g[dbParent[i]] = cParent[g[i]]
  <2>1. g[i] \in Permanent \ {Root} /\ iId[g[i]] = i
    BY <1>1, <1>3 DEF Numbers
  <2>2. cParent[g[i]] \in Permanent /\ dbParent[i] = iId[cParent[g[i]]]
    BY <2>1 DEF Shape, Stored
  <2> QED
    BY <1>2, <2>1, <2>2
<1>5. Embeds(g, channels, cParent, Root, D, dbParent, 0)
  <2>1. g \in [D -> channels]
    BY <1>1 DEF g, Permanent
  <2> QED
    BY <2>1, <1>3, <1>4 DEF Embeds
<1>6. Tree(D, dbParent, 0)
  BY <1>5, EmbeddedTree DEF Shape
<1>7. ASSUME NEW i \in D
      PROVE  i < TempOffset /\ Cardinality(Above(D, dbParent, 0, i)) <= NestingLimit + 1
  <2>1. i < TempOffset /\ g[i] \in channels
    BY <1>1 DEF Numbers, Permanent
  <2>2. \A x, y \in D : g[x] = g[y] => x = y
    BY <1>1
  <2>3. Cardinality(Above(D, dbParent, 0, i)) <= Height(g[i])
    BY <1>5, <2>2, FiniteChannels, EmbeddedHeight DEF Height
  <2>4. Height(g[i]) <= NestingLimit + 1 /\ Height(g[i]) \in Nat
    BY <2>1, FiniteChannels DEF Shape
  <2>5. Cardinality(Above(D, dbParent, 0, i)) \in Nat
    <3>1. IsFiniteSet(D)
      <4>1. IsFiniteSet(Ids)
        BY OffsetAssumption, ObjsAssumption, FS_CardinalityType, FS_Interval DEF Ids
      <4> QED
        BY <4>1, FS_Subset DEF TypeOK
    <3> QED
      BY <3>1, FS_Subset, FS_CardinalityType DEF Above
  <2> QED
    BY <2>1, <2>3, <2>4, <2>5, LimitAssumption
<1>8. ASSUME NEW l \in dbLinks
      PROVE  \E i, j \in D : l = {i, j}
  <2>1. PICK m \in links : m \subseteq Permanent /\ l = {iId[c] : c \in m}
    BY DEF Stored
  <2>2. PICK a \in channels, b \in channels : m = {a, b}
    BY DEF Refs
  <2>3. a \in Permanent /\ b \in Permanent /\ l = {iId[a], iId[b]}
    BY <2>1, <2>2
  <2> QED
    BY <1>2, <2>3
<1> QED
  BY <1>3, <1>6, <1>7, <1>8 DEF RowTree, Stored

\* They stay one without the rows of X, if no row left has its parent there.
Pruned(parent, rowLinks, X, rest, restLinks) ==
    /\ 0 \notin X
    /\ \A i \in DOMAIN parent \ {0} : parent[i] \in X => i \in X
    /\ DOMAIN rest = DOMAIN parent \ X
    /\ \A i \in DOMAIN rest : rest[i] = parent[i]
    /\ \A l \in restLinks : l \in rowLinks /\ l \cap X = {}

LEMMA RowsPruned ==
    ASSUME NEW parent, NEW rowLinks, NEW X, NEW rest, NEW restLinks,
           RowTree(parent, rowLinks), IsFiniteSet(DOMAIN parent),
           Pruned(parent, rowLinks, X, rest, restLinks)
    PROVE  RowTree(rest, restLinks)
<1> DEFINE D == DOMAIN parent
           E == DOMAIN parent \ X
           g == [i \in E |-> i]
<1>1. Embeds(g, D, parent, 0, E, rest, 0)
  BY DEF Embeds, RowTree, Tree, Pruned
<1>2. \A i \in E : g[i] = i
  OBVIOUS
<1> HIDE DEF g
<1>3. Tree(E, rest, 0)
  BY <1>1, EmbeddedTree DEF RowTree
<1>4. ASSUME NEW i \in E
      PROVE  i < TempOffset /\ Cardinality(Above(E, rest, 0, i)) <= NestingLimit + 1
  <2>1. Cardinality(Above(E, rest, 0, i)) <= Cardinality(Above(D, parent, 0, i))
    <3>1. \A x, y \in E : g[x] = g[y] => x = y
      BY <1>2
    <3>2. Cardinality(Above(E, rest, 0, i)) <= Cardinality(Above(D, parent, 0, g[i]))
      BY <1>1, <3>1, EmbeddedHeight
    <3> QED
      BY <1>2, <3>2
  <2>2. i < TempOffset /\ Cardinality(Above(D, parent, 0, i)) <= NestingLimit + 1
    BY DEF RowTree
  <2>3. Cardinality(Above(E, rest, 0, i)) \in Nat /\ Cardinality(Above(D, parent, 0, i)) \in Nat
    BY FS_Subset, FS_CardinalityType DEF Above
  <2> QED
    BY <2>1, <2>2, <2>3, LimitAssumption
<1>5. ASSUME NEW l \in restLinks
      PROVE  \E i, j \in E : l = {i, j}
  <2>1. PICK i \in D, j \in D : l = {i, j}
    BY DEF RowTree, Pruned
  <2> QED
    BY <2>1 DEF Pruned
<1>6. 0 \in E /\ rest[0] = 0
  BY DEF RowTree, Tree, Pruned
<1> HIDE DEF E
<1>7. DOMAIN rest = E
  BY DEF E, Pruned
<1> QED
  BY <1>3, <1>4, <1>5, <1>6, <1>7 DEF RowTree

-----------------------------------------------------------------------------
(* Every step keeps Sound. *)

LEMMA InitSound == Init => Sound
<1> SUFFICES ASSUME Init PROVE Sound
  OBVIOUS
<1> USE DEF Init
<1>1. TypeOK
  <2>1. 0 \in Ids /\ Cardinality(Objs) \in Nat
    BY ZeroIsId
  <2> QED
    BY <2>1, ObjsAssumption, LimitAssumption DEF TypeOK
<1>2. Permanent = {Root} /\ channels = {Root}
  BY ObjsAssumption DEF Permanent
<1>3. Shape
  <2>1. Tree(channels, cParent, Root)
    BY <1>2 DEF Tree
  <2>2. Height(Root) = 1
    <3>1. Above(channels, cParent, Root, Root) = {Root}
      BY <2>1, AboveRoot
    <3> QED
      BY <3>1, FS_Singleton DEF Height
  <2> QED
    BY <1>2, <2>1, <2>2, ObjsAssumption, LimitAssumption DEF Shape
<1>4. Numbers
  BY <1>2, ObjsAssumption, OffsetAssumption, FS_CardinalityType DEF Numbers
<1>5. Pending
  BY DEF Pending
<1>6. Refs
  BY <1>2 DEF Refs, NothingDangles
<1>7. Stored
  BY <1>2, ObjsAssumption DEF Stored
<1> QED
  BY <1>1, <1>3, <1>4, <1>5, <1>6, <1>7 DEF Sound, InMemory

\* Steps that only move users and post or take removals.
LEMMA UsersMove ==
    ASSUME Sound, server = "up", UNCHANGED <<server, treeVars, dbVars, shared>>,
           cChannel' \in [Users -> channels \cup {NoChannel}],
           events' \in [Ids -> 0 .. MaxEvents],
           \A i \in Ids : events'[i] > 0 => i >= TempOffset
    PROVE  Sound'
<1>1. TypeOK'
  BY DEF Sound, TypeOK, treeVars, dbVars
<1>2. Shape' /\ Numbers' /\ Stored'
  BY DEF Sound, InMemory, Shape, Numbers, Stored, Permanent, Height, treeVars, dbVars
<1>3. Pending'
  BY DEF Pending
<1>4. Refs'
  BY DEF Sound, InMemory, Refs, NothingDangles, treeVars
<1> QED
  BY <1>1, <1>2, <1>3, <1>4 DEF Sound, InMemory

\* A removal is posted for a temporary channel.
LEMMA PostedIsTemporary ==
    ASSUME Sound, server = "up", NEW u \in Users, NEW to, PostRemoval(RemovalPosted(u, to))
    PROVE  /\ events' \in [Ids -> 0 .. MaxEvents]
           /\ \A i \in Ids : events'[i] > 0 => i >= TempOffset
<1>1. \A i \in RemovalPosted(u, to) : i >= TempOffset
  BY DEF RemovalPosted, Sound, InMemory, Refs, NothingDangles, Numbers, TypeOK
<1>2. events \in [Ids -> 0 .. MaxEvents] /\ \A i \in Ids : events[i] > 0 => i >= TempOffset
  BY DEF Sound, InMemory, Pending, TypeOK
<1> HIDE DEF Sound
<1>3. events' \in [Ids -> 0 .. MaxEvents]
  BY <1>2, LimitAssumption DEF PostRemoval
<1> QED
  BY <1>1, <1>2, <1>3 DEF PostRemoval

LEMMA KnownExist ==
    ASSUME Sound, server = "up", NEW c \in Known
    PROVE  c \in channels
BY DEF Sound, InMemory, Numbers, Known

LEMMA EnterKeeps ==
    ASSUME Sound, NEW u \in Users, NEW c \in Objs, EnterChannel(u, c)
    PROVE  Sound'
<1>1. cChannel' \in [Users -> channels \cup {NoChannel}]
  BY KnownExist DEF EnterChannel, Sound, TypeOK, InMemory, Refs, NothingDangles
<1> QED
  BY <1>1, UsersMove, PostedIsTemporary DEF EnterChannel

LEMMA DisconnectKeeps ==
    ASSUME Sound, NEW u \in Users, Disconnect(u)
    PROVE  Sound'
<1>1. cChannel' \in [Users -> channels \cup {NoChannel}]
  BY DEF Disconnect, Sound, TypeOK, InMemory, Refs, NothingDangles
<1> QED
  BY <1>1, UsersMove, PostedIsTemporary DEF Disconnect

\* What remains of a server that ends without touching its rows, or within a
\* removal.
LEMMA HaltKeeps ==
    ASSUME Sound, server = "up", NEW how \in {"stopped", "database error"}, Halt(how),
           DOMAIN dbParent' \subseteq Ids, dbParent' \in [DOMAIN dbParent' -> Ids],
           dbLinks' \subseteq dbLinks, RowTree(dbParent', dbLinks')
    PROVE  Sound'
<1>1. TypeOK'
  <2>1. 0 \in Ids /\ Cardinality(Objs) \in Nat
    BY ZeroIsId
  <2>2. \A l \in dbLinks' : l \in SUBSET Ids /\ Cardinality(l) = 2
    BY DEF Sound, TypeOK
  <2>3. DOMAIN qhChannels' = {} /\ qhChannels' \in [DOMAIN qhChannels' -> Objs]
    BY DEF Halt
  <2>4. /\ server' \in {"up", "stopped", "database error"}
        /\ channels' \subseteq Objs
        /\ iId' \in [Objs -> Ids]
        /\ bTemporary' \in [Objs -> BOOLEAN]
        /\ cParent' \in [Objs -> Objs \cup {NoChannel}]
        /\ links' \subseteq SUBSET Objs
        /\ cChannel' \in [Users -> Objs \cup {NoChannel}]
    BY <2>1 DEF Halt
  <2>5. events' \in [Ids -> 0 .. MaxEvents]
    BY ZeroIsId DEF Halt
  <2>6. dbLinks' \subseteq SUBSET Ids
    BY <2>2
  <2>7. shared' \subseteq Objs
    BY DEF Halt
  <2> QED
    BY <2>2, <2>3, <2>4, <2>5, <2>6, <2>7 DEF TypeOK
<1>2. Forgotten'
  BY DEF Halt, Forgotten
<1>3. server' # "up"
  BY DEF Halt
<1> QED
  BY <1>1, <1>2, <1>3 DEF Sound

LEMMA DatabaseErrorKeeps ==
    ASSUME Sound, server = "up", DatabaseError
    PROVE  Sound'
<1>1. RowTree(dbParent', dbLinks')
  BY RowsOfMemory DEF DatabaseError, dbVars, Sound, InMemory
<1> QED
  BY <1>1, HaltKeeps DEF DatabaseError, dbVars, Sound, TypeOK

\* The id of a new channel.
LEMMA NewIdIsNew ==
    ASSUME Sound, server = "up", NEW temporary \in BOOLEAN
    PROVE  /\ NewId(temporary) \in Ids
           /\ NewId(temporary) >= TempOffset <=> temporary
           /\ \A d \in Permanent : iId[d] # NewId(temporary)
<1>1. /\ FreeId \in Nat /\ FreeId \notin DOMAIN dbParent
      /\ FreeId <= Cardinality(Objs) /\ FreeId < TempOffset
  BY FreeIdIsFree DEF Sound, InMemory
<1>2. \A d \in Permanent : iId[d] \in DOMAIN dbParent /\ iId[d] < TempOffset /\ iId[d] \in Nat
  BY DEF Sound, InMemory, Stored, Numbers, TypeOK, Ids, Permanent
<1>3. TempOffset \in Nat /\ Cardinality(Objs) \in Nat
  BY OffsetAssumption, ZeroIsId
<1> HIDE DEF Sound
<1> QED
  BY <1>1, <1>2, <1>3 DEF NewId, Ids

\* A new channel is a leaf of the tree.
LEMMA ConstructKeepsShape ==
    ASSUME Sound, server = "up", NEW c \in Objs \ channels, NEW p \in Permanent, CanNest(p, 0),
           NEW temporary \in BOOLEAN, Construct(c, p, temporary)
    PROVE  /\ Shape'
           /\ Permanent' = IF temporary THEN Permanent ELSE Permanent \cup {c}
<1>1. TypeOK /\ Shape
  BY DEF Sound, InMemory
<1>2. channels' = channels \cup {c} /\ c # Root /\ p # c /\ p \in channels
  BY <1>1 DEF Construct, Permanent, Shape
<1>3. cParent'[c] = p /\ \A d \in channels : cParent'[d] = cParent[d]
  BY <1>1 DEF Construct, TypeOK
<1>4. bTemporary'[c] = temporary /\ \A d \in channels : bTemporary'[d] = bTemporary[d]
  BY <1>1 DEF Construct, TypeOK
<1>5. Permanent' = IF temporary THEN Permanent ELSE Permanent \cup {c}
  BY <1>2, <1>4 DEF Permanent
<1>6. Tree(channels, cParent, Root)
  BY <1>1 DEF Shape
<1>7. Tree(channels', cParent', Root)
  BY <1>2, <1>3, <1>6, LeafTree
<1>8. /\ \A d \in channels : Above(channels', cParent', Root, d) \subseteq Above(channels, cParent, Root, d)
      /\ Above(channels', cParent', Root, c) \subseteq Above(channels, cParent, Root, p) \cup {c}
  BY <1>2, <1>3, <1>6, LeafAbove
<1>9. ASSUME NEW d \in channels'
      PROVE  Height(d)' <= NestingLimit + 1
  <2>1. \A e \in channels : IsFiniteSet(Above(channels, cParent, Root, e))
    BY <1>1, FiniteChannels, FS_Subset DEF Above
  <2>2. CASE d \in channels
    <3>1. Cardinality(Above(channels', cParent', Root, d)) <= Height(d)
          /\ Cardinality(Above(channels', cParent', Root, d)) \in Nat
      BY <1>8, <2>1, <2>2, FS_Subset, FS_CardinalityType DEF Height
    <3>2. Height(d) \in Nat /\ Height(d) <= NestingLimit + 1
      BY <1>1, <2>2, FiniteChannels DEF Shape
    <3> QED
      BY <3>1, <3>2, LimitAssumption DEF Height
  <2>3. CASE d = c
    <3> DEFINE A == Above(channels, cParent, Root, p)
               B == Above(channels', cParent', Root, c)
    <3>1. IsFiniteSet(A) /\ c \notin A /\ B \subseteq A \cup {c}
      BY <1>2, <1>8, <2>1 DEF Above
    <3>2. Cardinality(A) <= NestingLimit /\ Cardinality(A) \in Nat
      BY <1>1, <1>2, LevelIsHeight, LimitAssumption DEF CanNest, Height
    <3> HIDE DEF A, B
    <3>3. IsFiniteSet(A \cup {c}) /\ Cardinality(A \cup {c}) = Cardinality(A) + 1
      BY <3>1, FS_AddElement
    <3>4. Cardinality(B) <= Cardinality(A \cup {c}) /\ Cardinality(B) \in Nat
      BY <3>1, <3>3, FS_Subset, FS_CardinalityType
    <3>5. Cardinality(B) <= NestingLimit + 1
      BY <3>2, <3>3, <3>4, LimitAssumption
    <3> QED
      BY <2>3, <3>5 DEF B, Height
  <2> QED
    BY <1>2, <2>2, <2>3
<1>10. cParent'[Root] = NoChannel /\ Root \in Permanent'
  BY <1>1, <1>2, <1>3, <1>5 DEF Shape, Permanent
<1>11. \A d \in Permanent' \ {Root} : cParent'[d] \in Permanent'
  BY <1>1, <1>3, <1>5 DEF Shape, Permanent
<1>12. \A d \in channels' : Height(d)' <= NestingLimit + 1
  BY <1>9
<1> QED
  BY <1>5, <1>7, <1>10, <1>11, <1>12 DEF Shape

\* Its id is its own among the permanent channels.  A temporary channel may
\* take the place of another in the hash.
LEMMA ConstructKeepsNumbers ==
    ASSUME Sound, server = "up", NEW c \in Objs \ channels, NEW p \in Permanent, CanNest(p, 0),
           NEW temporary \in BOOLEAN, Construct(c, p, temporary)
    PROVE  /\ Numbers'
           /\ channels' \subseteq Objs
           /\ iId' \in [Objs -> Ids]
           /\ bTemporary' \in [Objs -> BOOLEAN]
           /\ cParent' \in [Objs -> Objs \cup {NoChannel}]
           /\ DOMAIN qhChannels' \subseteq Ids
           /\ qhChannels' \in [DOMAIN qhChannels' -> Objs]
<1> DEFINE id == NewId(temporary)
<1>1. TypeOK /\ Shape /\ Numbers
  BY DEF Sound, InMemory
<1>2. /\ id \in Ids /\ (id >= TempOffset <=> temporary)
      /\ \A d \in Permanent : iId[d] # id
  BY NewIdIsNew
<1>3. Permanent' = IF temporary THEN Permanent ELSE Permanent \cup {c}
  BY ConstructKeepsShape
<1>4. /\ channels' = channels \cup {c}
      /\ iId' = [iId EXCEPT ![c] = id]
      /\ bTemporary' = [bTemporary EXCEPT ![c] = temporary]
      /\ cParent' = [cParent EXCEPT ![c] = p]
      /\ qhChannels' = [i \in DOMAIN qhChannels \cup {id} |-> IF i = id THEN c ELSE qhChannels[i]]
  BY DEF Construct
<1> HIDE DEF id, Construct
<1>5. /\ channels' \subseteq Objs
      /\ iId' \in [Objs -> Ids]
      /\ bTemporary' \in [Objs -> BOOLEAN]
      /\ cParent' \in [Objs -> Objs \cup {NoChannel}]
  BY <1>1, <1>2, <1>4 DEF TypeOK, Permanent
<1>6. DOMAIN qhChannels' \subseteq Ids /\ qhChannels' \in [DOMAIN qhChannels' -> Objs]
  BY <1>1, <1>2, <1>4 DEF TypeOK
<1>7. /\ iId'[c] = id /\ \A d \in channels : iId'[d] = iId[d] /\ d # c
      /\ bTemporary'[c] = temporary /\ \A d \in channels : bTemporary'[d] = bTemporary[d]
  BY <1>1, <1>4 DEF TypeOK
<1>8. iId'[Root] = 0
  BY <1>1, <1>7 DEF Numbers, Shape, Permanent
<1>9. \A d \in channels' : bTemporary'[d] => iId'[d] >= TempOffset
  BY <1>1, <1>2, <1>4, <1>7 DEF Numbers
<1>10. ASSUME NEW d \in Permanent'
       PROVE  iId'[d] < TempOffset /\ iId'[d] \in DOMAIN qhChannels' /\ qhChannels'[iId'[d]] = d
  <2>1. CASE d \in Permanent
    BY <1>1, <1>2, <1>4, <1>7, <2>1 DEF Numbers, Permanent
  <2>2. CASE d = c /\ ~temporary
    <3>1. id < TempOffset
      BY <1>2, <2>2, OffsetAssumption, ZeroIsId DEF Ids
    <3> QED
      BY <1>4, <1>7, <2>2, <3>1
  <2> QED
    BY <1>3, <1>10, <2>1, <2>2
<1>11. \A i \in DOMAIN qhChannels' : qhChannels'[i] \in channels' /\ iId'[qhChannels'[i]] = i
  BY <1>1, <1>4, <1>7 DEF Numbers
<1> QED
  BY <1>5, <1>6, <1>8, <1>9, <1>10, <1>11 DEF Numbers

LEMMA ConstructShares ==
    ASSUME TypeOK, NEW c \in Objs, NEW p, NEW temporary, Construct(c, p, temporary)
    PROVE  shared' \subseteq Objs
BY DEF Construct, TypeOK

LEMMA CreateTemporaryKeeps ==
    ASSUME Sound, NEW u \in Users, NEW c \in Objs, NEW p \in Objs, CreateTemporary(u, c, p)
    PROVE  Sound'
<1>1. TypeOK /\ Shape /\ Numbers /\ Pending /\ Refs /\ Stored
  BY DEF Sound, InMemory, CreateTemporary
<1>2. /\ server = "up" /\ server' = "up" /\ c \in Objs \ channels
      /\ CanNest(p, 0) /\ Construct(c, p, TRUE) /\ UNCHANGED dbVars
      /\ channels' = channels \cup {c} /\ links' = links
  BY DEF CreateTemporary, Construct
<1>3. p \in Permanent
  BY KnownExist DEF CreateTemporary, Permanent
<1>4. Shape' /\ Permanent' = Permanent
  BY <1>2, <1>3, ConstructKeepsShape
<1>5. /\ Numbers' /\ channels' \subseteq Objs /\ iId' \in [Objs -> Ids]
      /\ bTemporary' \in [Objs -> BOOLEAN] /\ cParent' \in [Objs -> Objs \cup {NoChannel}]
      /\ DOMAIN qhChannels' \subseteq Ids /\ qhChannels' \in [DOMAIN qhChannels' -> Objs]
  BY <1>2, <1>3, ConstructKeepsNumbers
<1>6. /\ events' \in [Ids -> 0 .. MaxEvents]
      /\ \A i \in Ids : events'[i] > 0 => i >= TempOffset
  BY <1>2, PostedIsTemporary DEF CreateTemporary
<1>7. cChannel' = [cChannel EXCEPT ![u] = c]
  BY DEF CreateTemporary
<1>8. TypeOK'
  <2>1. shared' \subseteq Objs
    BY <1>1, <1>2, ConstructShares
  <2> QED
    BY <1>1, <1>2, <1>5, <1>6, <1>7, <2>1 DEF TypeOK, dbVars
<1>9. Refs'
  BY <1>1, <1>2, <1>7 DEF Refs, NothingDangles, TypeOK
<1>10. Stored'
  <2>1. \A d \in Permanent : iId'[d] = iId[d] /\ cParent'[d] = cParent[d]
    BY <1>1, <1>2 DEF Construct, Permanent, TypeOK
  <2>2. \A d \in Permanent \ {Root} : iId'[cParent'[d]] = iId[cParent[d]]
    BY <1>1, <2>1 DEF Shape
  <2>3. {iId'[d] : d \in Permanent} = {iId[d] : d \in Permanent}
    BY <2>1
  <2>4. {{iId'[d] : d \in l} : l \in {m \in links : m \subseteq Permanent}}
          = {{iId[d] : d \in l} : l \in {m \in links : m \subseteq Permanent}}
    <3>1. \A l \in {m \in links : m \subseteq Permanent} : {iId'[d] : d \in l} = {iId[d] : d \in l}
      BY <2>1
    <3> QED
      BY <3>1
  <2> QED
    BY <1>1, <1>2, <1>4, <2>1, <2>2, <2>3, <2>4 DEF Stored, dbVars
<1>11. Pending'
  BY <1>6 DEF Pending
<1> QED
  BY <1>2, <1>4, <1>5, <1>8, <1>9, <1>10, <1>11 DEF Sound, InMemory

LEMMA CreatePermanentKeeps ==
    ASSUME Sound, NEW c \in Objs, NEW p \in Objs, CreatePermanent(c, p)
    PROVE  Sound'
<1> DEFINE id == FreeId
<1>1. TypeOK /\ Shape /\ Numbers /\ Pending /\ Refs /\ Stored
  BY DEF Sound, InMemory, CreatePermanent
<1>2. /\ server = "up" /\ server' = "up" /\ c \in Objs \ channels
      /\ CanNest(p, 0) /\ Construct(c, p, FALSE)
      /\ UNCHANGED <<cChannel, events, dbLinks>>
      /\ channels' = channels \cup {c} /\ links' = links
      /\ iId' = [iId EXCEPT ![c] = id] /\ cParent' = [cParent EXCEPT ![c] = p]
      /\ dbParent' = [i \in DOMAIN dbParent \cup {id} |-> IF i = id THEN iId[p] ELSE dbParent[i]]
  BY DEF CreatePermanent, Construct, NewId
<1>3. p \in Permanent
  BY KnownExist DEF CreatePermanent, Permanent
<1>4. Shape' /\ Permanent' = Permanent \cup {c}
  BY <1>2, <1>3, ConstructKeepsShape
<1>5. /\ Numbers' /\ channels' \subseteq Objs /\ iId' \in [Objs -> Ids]
      /\ bTemporary' \in [Objs -> BOOLEAN] /\ cParent' \in [Objs -> Objs \cup {NoChannel}]
      /\ DOMAIN qhChannels' \subseteq Ids /\ qhChannels' \in [DOMAIN qhChannels' -> Objs]
  BY <1>2, <1>3, ConstructKeepsNumbers
<1>6. id \in Ids /\ id \notin DOMAIN dbParent
  <2>1. id = NewId(FALSE)
    BY DEF NewId
  <2> HIDE DEF id
  <2> QED
    BY <1>1, <1>2, <2>1, FreeIdIsFree, NewIdIsNew DEF id
<1> HIDE DEF id
<1>7. TypeOK'
  <2>1. DOMAIN dbParent' \subseteq Ids /\ dbParent' \in [DOMAIN dbParent' -> Ids]
    BY <1>1, <1>2, <1>3, <1>6 DEF TypeOK, Permanent
  <2>2. shared' \subseteq Objs
    BY <1>1, <1>2, ConstructShares
  <2> QED
    BY <1>1, <1>2, <1>5, <2>1, <2>2 DEF TypeOK
<1>8. Refs'
  BY <1>1, <1>2 DEF Refs, NothingDangles, TypeOK
<1>9. \A d \in Permanent : /\ d # c /\ iId'[d] = iId[d] /\ cParent'[d] = cParent[d]
                           /\ iId[d] \in DOMAIN dbParent /\ iId[d] # id
  BY <1>1, <1>2, <1>6 DEF Permanent, TypeOK, Stored
<1>10. iId'[c] = id /\ cParent'[c] = p
  BY <1>1, <1>2 DEF TypeOK
<1>11. Stored'
  <2>1. DOMAIN dbParent' = {iId'[d] : d \in Permanent'}
    <3>1. DOMAIN dbParent' = DOMAIN dbParent \cup {id}
      BY <1>2
    <3>2. {iId'[d] : d \in Permanent'} = {iId[d] : d \in Permanent} \cup {id}
      BY <1>4, <1>9, <1>10
    <3> QED
      BY <1>1, <3>1, <3>2 DEF Stored
  <2>2. dbParent'[0] = 0
    <3>1. iId[Root] = 0 /\ Root \in Permanent
      BY <1>1 DEF Shape, Numbers
    <3> QED
      BY <1>1, <1>2, <1>9, <3>1 DEF Stored
  <2>3. ASSUME NEW d \in Permanent' \ {Root}
        PROVE  dbParent'[iId'[d]] = iId'[cParent'[d]]
    <3>1. CASE d = c
      BY <1>2, <1>3, <1>9, <1>10, <3>1
    <3>2. CASE d # c
      <4>1. d \in Permanent \ {Root} /\ cParent[d] \in Permanent /\ dbParent[iId[d]] = iId[cParent[d]]
        BY <1>1, <1>4, <3>2 DEF Shape, Stored
      <4> QED
        BY <1>2, <1>9, <4>1
    <3> QED
      BY <3>1, <3>2
  <2>4. dbLinks' = {{iId'[d] : d \in l} : l \in {m \in links' : m \subseteq Permanent'}}
    <3>1. \A m \in links : m \subseteq Permanent' <=> m \subseteq Permanent
      BY <1>1, <1>2, <1>4 DEF Refs, NothingDangles
    <3>2. {m \in links' : m \subseteq Permanent'} = {m \in links : m \subseteq Permanent}
      BY <1>2, <3>1
    <3>3. \A l \in {m \in links : m \subseteq Permanent} : {iId'[d] : d \in l} = {iId[d] : d \in l}
      BY <1>9
    <3>4. {{iId'[d] : d \in l} : l \in {m \in links : m \subseteq Permanent}}
            = {{iId[d] : d \in l} : l \in {m \in links : m \subseteq Permanent}}
      BY <3>3
    <3> QED
      BY <1>1, <1>2, <3>2, <3>4 DEF Stored
  <2> QED
    BY <2>1, <2>2, <2>3, <2>4 DEF Stored
<1>12. Pending'
  BY <1>1, <1>2 DEF Pending
<1> QED
  BY <1>2, <1>4, <1>5, <1>7, <1>8, <1>11, <1>12 DEF Sound, InMemory

\* A move makes no cycle, and no channel below the moved one gets too deep.
LEMMA MoveKeepsShape ==
    ASSUME Sound, NEW c \in Objs, NEW p \in Objs, MoveChannel(c, p)
    PROVE  /\ Shape' /\ Permanent' = Permanent
           /\ c \in channels \ {Root} /\ p \in channels
           /\ c \in Permanent => p \in Permanent
           /\ cParent' = [cParent EXCEPT ![c] = p]
<1>1. TypeOK /\ Shape
  BY DEF Sound, InMemory, MoveChannel
<1>2. c \in channels \ {Root} /\ p \in channels /\ c \notin Ancestors(p) /\ CanNest(p, Depth(c))
  BY KnownExist DEF MoveChannel, MayMove
<1>3. /\ channels' = channels /\ bTemporary' = bTemporary
      /\ ~bTemporary[p] \/ bTemporary[c]
      /\ cParent' = [cParent EXCEPT ![c] = p]
  BY DEF MoveChannel
<1>4. Permanent' = Permanent /\ (c \in Permanent => p \in Permanent)
  BY <1>2, <1>3 DEF Permanent
<1>5. cParent'[c] = p /\ \A d \in channels \ {c} : cParent'[d] = cParent[d]
  BY <1>1, <1>2, <1>3 DEF TypeOK
<1>6. Tree(channels, cParent, Root) /\ IsFiniteSet(channels)
  BY <1>1, FiniteChannels DEF Shape
<1>7. c \notin Above(channels, cParent, Root, cParent'[c])
  BY <1>1, <1>2, <1>5, AncestorsAreAbove
<1>8. Tree(channels, cParent', Root)
  BY <1>2, <1>5, <1>6, <1>7, MovedTree
<1>9. ASSUME NEW d \in channels
      PROVE  Cardinality(Above(channels, cParent', Root, d)) <= NestingLimit + 1
  <2> DEFINE H == Cardinality(Above(channels, cParent', Root, d))
  <2>1. \/ H <= Height(d)
        \/ c \in Above(channels, cParent, Root, d) /\ H <= Height(d) - Height(c) + 1 + Height(p)
    BY <1>2, <1>5, <1>6, <1>7, MovedHeight DEF Height
  <2>2. H \in Nat
    BY <1>6, FS_Subset, FS_CardinalityType DEF Above
  <2> HIDE DEF H
  <2>3. Height(d) \in Nat /\ Height(c) \in Nat /\ Height(p) \in Nat /\ Height(d) <= NestingLimit + 1
    BY <1>1, <1>2, FiniteChannels DEF Shape
  <2>4. Height(p) - 1 + Depth(c) < NestingLimit
    BY <1>1, <1>2, LevelIsHeight DEF CanNest
  <2>5. c \in Above(channels, cParent, Root, d) => Height(d) - Height(c) <= Depth(c)
    BY <1>1, <1>2, DepthBounds, SubtreeIsBelow
  <2>6. Depth(c) \in Nat
    BY <1>1, <1>2, DepthBounds
  <2>7. H <= NestingLimit + 1
    BY <2>1, <2>2, <2>3, <2>4, <2>5, <2>6, LimitAssumption
  <2> QED
    BY <2>7 DEF H
<1>10. \A d \in Permanent \ {Root} : cParent'[d] \in Permanent
  BY <1>1, <1>4, <1>5 DEF Shape, Permanent
<1>11. cParent'[Root] = NoChannel /\ Root \in Permanent
  BY <1>1, <1>2, <1>5 DEF Shape, Permanent
<1>12. \A d \in channels' : Height(d)' <= NestingLimit + 1
  BY <1>3, <1>9 DEF Height
<1> QED
  BY <1>2, <1>3, <1>4, <1>8, <1>10, <1>11, <1>12 DEF Shape

LEMMA MoveKeeps ==
    ASSUME Sound, NEW c \in Objs, NEW p \in Objs, MoveChannel(c, p)
    PROVE  Sound'
<1>1. TypeOK /\ Shape /\ Numbers /\ Pending /\ Refs /\ Stored
  BY DEF Sound, InMemory, MoveChannel
<1>2. /\ Shape' /\ Permanent' = Permanent
      /\ c \in channels \ {Root} /\ p \in channels
      /\ c \in Permanent => p \in Permanent
      /\ cParent' = [cParent EXCEPT ![c] = p]
  BY MoveKeepsShape
<1>3. /\ server = "up" /\ SaveParent(c, p)
      /\ UNCHANGED <<server, channels, iId, bTemporary, qhChannels, links, cChannel, events, shared>>
  BY DEF MoveChannel
<1>4. \A d \in Permanent : iId[d] \in DOMAIN dbParent
  BY <1>1 DEF Stored
<1>5. /\ DOMAIN dbParent' = DOMAIN dbParent /\ dbParent' \in [DOMAIN dbParent' -> Ids]
      /\ dbLinks' = dbLinks
  BY <1>1, <1>2, <1>3 DEF SaveParent, TypeOK
<1>6. TypeOK'
  BY <1>1, <1>2, <1>3, <1>5 DEF TypeOK
<1>7. Numbers' /\ Pending' /\ Refs'
  BY <1>1, <1>2, <1>3 DEF Numbers, Pending, Refs, NothingDangles
<1>8. Stored'
  <2>1. dbParent'[0] = 0
    <3>1. iId[Root] = 0 /\ Root \in Permanent
      BY <1>1 DEF Shape, Numbers
    <3>2. iId[c] # 0 \/ bTemporary[c]
      BY <1>1, <1>2, <3>1, IdsDiffer DEF Permanent
    <3> QED
      BY <1>1, <1>3, <1>4, <3>1, <3>2 DEF SaveParent, Stored
  <2>2. ASSUME NEW d \in Permanent \ {Root}
        PROVE  dbParent'[iId[d]] = iId[cParent'[d]]
    <3>1. CASE d = c
      BY <1>1, <1>2, <1>3, <1>4, <3>1 DEF SaveParent, Permanent, TypeOK
    <3>2. CASE d # c
      <4>1. cParent'[d] = cParent[d] /\ dbParent[iId[d]] = iId[cParent[d]]
        BY <1>1, <1>2, <3>2 DEF TypeOK, Permanent, Stored
      <4>2. c \in Permanent => iId[d] # iId[c]
        BY <1>1, <3>2, IdsDiffer
      <4> QED
        BY <1>2, <1>3, <1>4, <4>1, <4>2 DEF SaveParent, Permanent
    <3> QED
      BY <3>1, <3>2
  <2> QED
    BY <1>1, <1>2, <1>3, <1>5, <2>1, <2>2 DEF Stored
<1> QED
  BY <1>2, <1>3, <1>6, <1>7, <1>8 DEF Sound, InMemory

\* What a step may do to the links: those between permanent channels are the
\* rows of the link table.
LEMMA LinksKeep ==
    ASSUME Sound, server = "up",
           UNCHANGED <<server, channels, iId, bTemporary, cParent, qhChannels, cChannel, events,
                       dbParent, shared>>,
           \A l \in links' : \E a, b \in channels : l = {a, b},
           dbLinks' = {{iId[c] : c \in l} : l \in {m \in links' : m \subseteq Permanent}},
           \A l \in dbLinks' : Cardinality(l) = 2
    PROVE  Sound'
<1>1. Permanent' = Permanent
  BY DEF Permanent
<1>2. Shape' /\ Numbers' /\ Pending'
  BY <1>1 DEF Sound, InMemory, Shape, Numbers, Pending, Height
<1>3. Stored'
  BY <1>1 DEF Sound, InMemory, Stored
<1>4. Refs'
  BY DEF Sound, InMemory, Refs, NothingDangles
<1>5. TypeOK'
  <2>1. dbLinks' \subseteq SUBSET Ids
    BY DEF Sound, TypeOK, Permanent
  <2>2. links' \subseteq SUBSET Objs
    BY DEF Sound, TypeOK
  <2> QED
    BY <2>1, <2>2 DEF Sound, TypeOK
<1> QED
  BY <1>1, <1>2, <1>3, <1>4, <1>5 DEF Sound, InMemory

LEMMA LinkKeeps ==
    ASSUME Sound, NEW a \in Objs, NEW b \in Objs, Link(a, b)
    PROVE  Sound'
<1> DEFINE both == ~bTemporary[a] /\ ~bTemporary[b]
           stored(ls) == {{iId[c] : c \in l} : l \in {m \in ls : m \subseteq Permanent}}
<1>1. /\ server = "up" /\ links' = links \cup {{a, b}}
      /\ dbLinks' = IF both THEN dbLinks \cup {{iId[a], iId[b]}} ELSE dbLinks
      /\ both => a # b
      /\ UNCHANGED <<server, channels, iId, bTemporary, cParent, qhChannels, cChannel, events,
                     dbParent, shared>>
  BY DEF Link, Accepts
<1>2. a \in channels /\ b \in channels
  BY KnownExist DEF Link
<1>3. /\ \A l \in links : \E d, e \in channels : l = {d, e}
      /\ dbLinks = stored(links) /\ \A l \in dbLinks : Cardinality(l) = 2
  BY <1>1 DEF Sound, InMemory, Refs, Stored, TypeOK
<1>4. \A l \in links' : \E d, e \in channels : l = {d, e}
  BY <1>1, <1>2, <1>3
<1>5. dbLinks' = stored(links')
  <2>1. {a, b} \subseteq Permanent <=> both
    BY <1>2 DEF Permanent
  <2>2. CASE ~both
    <3>1. {m \in links' : m \subseteq Permanent} = {m \in links : m \subseteq Permanent}
      BY <1>1, <2>1, <2>2
    <3> QED
      BY <1>1, <1>3, <2>2, <3>1
  <2>3. CASE both
    <3>1. {m \in links' : m \subseteq Permanent} = {m \in links : m \subseteq Permanent} \cup {{a, b}}
      BY <1>1, <2>1, <2>3
    <3>2. {iId[c] : c \in {a, b}} = {iId[a], iId[b]}
      OBVIOUS
    <3>3. stored(links') = stored(links) \cup {{iId[a], iId[b]}}
      <4> DEFINE image(l) == {iId[c] : c \in l}
      <4>1. stored(links) = {image(l) : l \in {m \in links : m \subseteq Permanent}}
            /\ stored(links') = {image(l) : l \in {m \in links' : m \subseteq Permanent}}
        OBVIOUS
      <4> HIDE DEF image, stored
      <4>2. image({a, b}) = {iId[a], iId[b]}
        BY <3>2 DEF image
      <4> QED
        BY <3>1, <4>1, <4>2
    <3> QED
      BY <1>1, <1>3, <2>3, <3>3
  <2> QED
    BY <2>2, <2>3
<1>6. \A l \in dbLinks' : Cardinality(l) = 2
  <2>1. ASSUME both
        PROVE  Cardinality({iId[a], iId[b]}) = 2
    <3>1. iId[a] # iId[b]
      BY <1>1, <1>2, <2>1, IdsDiffer DEF Sound, InMemory, Permanent
    <3>2. IsFiniteSet({iId[a]}) /\ Cardinality({iId[a]}) = 1
      BY FS_Singleton
    <3>3. Cardinality({iId[a]} \cup {iId[b]}) = 2
      BY <3>1, <3>2, FS_AddElement
    <3> QED
      BY <3>3
  <2> QED
    BY <1>1, <1>3, <2>1
<1> QED
  BY <1>1, <1>4, <1>5, <1>6, LinksKeep

LEMMA UnlinkKeeps ==
    ASSUME Sound, NEW a \in Objs, NEW b \in Objs, Unlink(a, b)
    PROVE  Sound'
<1> DEFINE both == ~bTemporary[a] /\ ~bTemporary[b]
           stored(ls) == {{iId[c] : c \in l} : l \in {m \in ls : m \subseteq Permanent}}
<1>1. /\ server = "up" /\ links' = links \ {{a, b}}
      /\ dbLinks' = IF both THEN dbLinks \ {{iId[a], iId[b]}} ELSE dbLinks
      /\ UNCHANGED <<server, channels, iId, bTemporary, cParent, qhChannels, cChannel, events,
                     dbParent, shared>>
  BY DEF Unlink
<1>2. a \in channels /\ b \in channels
  BY KnownExist DEF Unlink
<1>3. /\ \A l \in links : \E d, e \in channels : l = {d, e}
      /\ dbLinks = stored(links) /\ \A l \in dbLinks : Cardinality(l) = 2
  BY <1>1 DEF Sound, InMemory, Refs, Stored, TypeOK
<1>4. \A l \in links' : \E d, e \in channels : l = {d, e}
  BY <1>1, <1>3
<1>5. dbLinks' = stored(links')
  <2>1. {a, b} \subseteq Permanent <=> both
    BY <1>2 DEF Permanent
  <2>2. CASE ~both
    <3>1. {m \in links' : m \subseteq Permanent} = {m \in links : m \subseteq Permanent}
      BY <1>1, <2>1, <2>2
    <3> QED
      BY <1>1, <1>3, <2>2, <3>1
  <2>3. CASE both
    <3>1. {iId[c] : c \in {a, b}} = {iId[a], iId[b]}
      OBVIOUS
    <3>2. ASSUME NEW l \in links, l \subseteq Permanent, {iId[c] : c \in l} = {iId[a], iId[b]}
          PROVE  l = {a, b}
      <4>1. ASSUME NEW d \in Permanent, NEW e \in Permanent, iId[d] = iId[e]
            PROVE  d = e
        BY <1>1, <4>1, IdsDiffer DEF Sound, InMemory
      <4> QED
        BY <2>1, <2>3, <3>2, <4>1
    <3>3. stored(links') = stored(links) \ {{iId[a], iId[b]}}
      BY <1>1, <3>1, <3>2
    <3> QED
      BY <1>1, <1>3, <2>3, <3>3
  <2> QED
    BY <2>2, <2>3
<1>6. \A l \in dbLinks' : Cardinality(l) = 2
  BY <1>1, <1>3
<1> QED
  BY <1>1, <1>4, <1>5, <1>6, LinksKeep

\* What a removal takes is closed downwards, and the parent is not part of it.
LEMMA RemovedPart ==
    ASSUME TypeOK, Shape, NEW c \in channels \ {Root}
    PROVE  /\ Subtree(c) \subseteq channels /\ c \in Subtree(c) /\ Root \notin Subtree(c)
           /\ \A d \in channels \ {Root} : cParent[d] \in Subtree(c) => d \in Subtree(c)
           /\ Ancestors(cParent[c]) \subseteq channels \ Subtree(c)
           /\ bTemporary[c] => \A d \in Subtree(c) : bTemporary[d]
<1>1. cParent[c] \in channels
  BY DEF Shape, Tree
<1>2. Ancestors(cParent[c]) = Above(channels, cParent, Root, cParent[c])
  BY <1>1, AncestorsAreAbove
<1>3. Subtree(c) = {d \in channels : c \in Above(channels, cParent, Root, d)}
  BY SubtreeIsBelow
<1>4. ASSUME bTemporary[c], NEW d \in Subtree(c)
      PROVE  bTemporary[d]
  BY <1>3, <1>4, AbovePermanent DEF Permanent
<1>5. /\ c \in Subtree(c) /\ Root \notin Subtree(c)
      /\ \A d \in channels \ {Root} : cParent[d] \in Subtree(c) => d \in Subtree(c)
      /\ Above(channels, cParent, Root, cParent[c]) \cap Subtree(c) = {}
  BY <1>3, BelowClosed DEF Shape
<1>6. Above(channels, cParent, Root, cParent[c]) \subseteq channels
  BY DEF Above
<1> QED
  BY <1>2, <1>3, <1>4, <1>5, <1>6

\* The rows of what is removed.
LEMMA RemovedRows ==
    ASSUME TypeOK, Shape, Numbers, Stored, NEW S \in SUBSET (channels \ {Root})
    PROVE  /\ \A d \in Permanent : iId[d] \in Rows(S) <=> d \in S
           /\ 0 \notin Rows(S)
<1>1. \A d \in Permanent : iId[d] \in Rows(S) <=> d \in S
  BY IdsDiffer DEF Rows, Permanent
<1> QED
  BY <1>1 DEF Shape, Numbers

LEMMA RemovalKeepsShape ==
    ASSUME Sound, server = "up", NEW c \in channels \ {Root}, NEW pending, RemoveChannel(c, pending)
    PROVE  Shape' /\ Permanent' = Permanent \ Subtree(c)
<1> DEFINE S == Subtree(c)
           D == channels \ S
           g == [d \in D |-> d]
<1>1. TypeOK /\ Shape
  BY DEF Sound, InMemory
<1>2. /\ channels' = D
      /\ cParent' = [d \in Objs |-> IF d \in S THEN NoChannel ELSE cParent[d]]
      /\ bTemporary' = [d \in Objs |-> d \notin S /\ bTemporary[d]]
  BY DEF RemoveChannel
<1>3. /\ S \subseteq channels /\ Root \notin S
      /\ \A d \in channels \ {Root} : cParent[d] \in S => d \in S
  BY <1>1, RemovedPart
<1> HIDE DEF S
<1>4. \A d \in D : cParent'[d] = cParent[d] /\ (bTemporary'[d] <=> bTemporary[d])
  BY <1>1, <1>2 DEF TypeOK
<1>5. Embeds(g, channels, cParent, Root, D, cParent', Root)
  BY <1>1, <1>3, <1>4 DEF Embeds, Shape, Tree
<1>6. Tree(channels', cParent', Root)
  BY <1>1, <1>2, <1>5, EmbeddedTree DEF Shape
<1>7. Permanent' = Permanent \ S
  BY <1>2, <1>3, <1>4 DEF Permanent
<1>8. ASSUME NEW d \in D
      PROVE  Cardinality(Above(D, cParent', Root, d)) <= NestingLimit + 1
  <2>1. IsFiniteSet(channels) /\ \A x, y \in D : g[x] = g[y] => x = y
    BY <1>1, FiniteChannels
  <2>2. Cardinality(Above(D, cParent', Root, d)) <= Cardinality(Above(channels, cParent, Root, g[d]))
    BY <1>5, <2>1, EmbeddedHeight
  <2>3. Height(d) \in Nat /\ Height(d) <= NestingLimit + 1
    BY <1>1, FiniteChannels DEF Shape
  <2>4. Cardinality(Above(D, cParent', Root, d)) \in Nat
    BY <2>1, FS_Subset, FS_CardinalityType DEF Above
  <2> QED
    BY <2>2, <2>3, <2>4, LimitAssumption DEF Height
<1>9. \A d \in channels' : Height(d)' <= NestingLimit + 1
  BY <1>2, <1>8 DEF Height
<1>10. cParent'[Root] = NoChannel /\ Root \in Permanent'
  BY <1>1, <1>3, <1>4, <1>7 DEF Shape, Permanent
<1>11. \A d \in Permanent' \ {Root} : cParent'[d] \in Permanent'
  BY <1>1, <1>3, <1>4, <1>7 DEF Shape, Permanent
<1> QED
  BY <1>6, <1>7, <1>9, <1>10, <1>11 DEF Shape, S

LEMMA RemovalKeepsStored ==
    ASSUME Sound, server = "up", NEW c \in channels \ {Root}, NEW pending, RemoveChannel(c, pending)
    PROVE  Stored'
<1> DEFINE S == Subtree(c)
           X == Rows(S)
<1>1. TypeOK /\ Shape /\ Numbers /\ Refs /\ Stored
  BY DEF Sound, InMemory
<1>2. /\ iId' = [d \in Objs |-> IF d \in S THEN 0 ELSE iId[d]]
      /\ cParent' = [d \in Objs |-> IF d \in S THEN NoChannel ELSE cParent[d]]
      /\ links' = {l \in links : l \cap S = {}}
      /\ dbParent' = [i \in DOMAIN dbParent \ X |-> dbParent[i]]
      /\ dbLinks' = {l \in dbLinks : l \cap X = {}}
  BY DEF RemoveChannel, LinksWithout, DeleteRows
<1>3. S \in SUBSET (channels \ {Root})
  BY <1>1, RemovedPart
<1>4. Permanent' = Permanent \ S /\ Shape'
  BY RemovalKeepsShape
<1>5. (\A d \in Permanent : iId[d] \in X <=> d \in S) /\ 0 \notin X
  BY <1>1, <1>3, RemovedRows
<1> HIDE DEF S, X
<1>6. \A d \in Permanent \ S : iId'[d] = iId[d] /\ cParent'[d] = cParent[d] /\ iId[d] \in DOMAIN dbParent \ X
  BY <1>1, <1>2, <1>5 DEF TypeOK, Permanent, Stored
<1>7. DOMAIN dbParent' = {iId'[d] : d \in Permanent'}
  <2>1. DOMAIN dbParent' = {iId[d] : d \in Permanent \ S}
    BY <1>1, <1>2, <1>5 DEF Stored
  <2> QED
    BY <1>4, <1>6, <2>1
<1>8. dbParent'[0] = 0
  <2>1. 0 \in DOMAIN dbParent
    BY <1>1 DEF Shape, Numbers, Stored
  <2> QED
    BY <1>1, <1>2, <1>5, <2>1 DEF Stored
<1>9. ASSUME NEW d \in Permanent' \ {Root}
      PROVE  dbParent'[iId'[d]] = iId'[cParent'[d]]
  <2>1. d \in Permanent \ S /\ cParent'[d] \in Permanent \ S
    BY <1>4 DEF Shape
  <2>2. dbParent[iId[d]] = iId[cParent[d]]
    BY <1>1, <2>1 DEF Stored
  <2> QED
    BY <1>2, <1>6, <2>1, <2>2
<1>10. dbLinks' = {{iId'[d] : d \in l} : l \in {m \in links' : m \subseteq Permanent'}}
  <2> DEFINE image(l) == {iId[d] : d \in l}
             image2(l) == {iId'[d] : d \in l}
             M == {m \in links : m \subseteq Permanent}
  <2>1. dbLinks = {image(l) : l \in M}
    BY <1>1 DEF Stored
  <2>2. \A l \in M : image(l) \cap X = {} <=> l \cap S = {}
    BY <1>5
  <2>3. {m \in links' : m \subseteq Permanent'} = {m \in M : m \cap S = {}}
    BY <1>2, <1>4
  <2>4. \A l \in M : l \cap S = {} => image2(l) = image(l)
    BY <1>6
  <2> HIDE DEF image, image2, M
  <2>5. dbLinks' = {image2(l) : l \in {m \in M : m \cap S = {}}}
    BY <1>2, <2>1, <2>2, <2>4
  <2> QED
    BY <2>3, <2>5 DEF image2
<1> QED
  BY <1>7, <1>8, <1>9, <1>10 DEF Stored

\* removeChannel, asked for or posted.
LEMMA RemovalKeeps ==
    ASSUME Sound, server = "up", NEW c \in channels \ {Root},
           NEW pending \in [Ids -> 0 .. MaxEvents], \A i \in Ids : pending[i] > 0 => i >= TempOffset,
           RemoveChannel(c, pending)
    PROVE  Sound'
<1> DEFINE S == Subtree(c)
           emptied(i) == {d \in S : bTemporary[d] /\ iId[d] = i /\ Occupants(d) # {}}
<1>1. TypeOK /\ Shape /\ Numbers /\ Refs
  BY DEF Sound, InMemory
<1>2. /\ server' = "up" /\ channels' = channels \ S
      /\ iId' = [d \in Objs |-> IF d \in S THEN 0 ELSE iId[d]]
      /\ bTemporary' = [d \in Objs |-> d \notin S /\ bTemporary[d]]
      /\ cParent' = [d \in Objs |-> IF d \in S THEN NoChannel ELSE cParent[d]]
      /\ qhChannels' = [i \in DOMAIN qhChannels \ {iId[d] : d \in S} |-> qhChannels[i]]
      /\ links' = {l \in links : l \cap S = {}}
      /\ dbParent' = [i \in DOMAIN dbParent \ Rows(S) |-> dbParent[i]]
      /\ dbLinks' \subseteq dbLinks /\ shared' \subseteq shared
      /\ events' = [i \in Ids |-> pending[i] + Cardinality(emptied(i))]
      /\ \A i \in Ids : pending[i] + Cardinality(emptied(i)) <= MaxEvents
  <2>1. /\ server' = "up" /\ channels' = channels \ S
        /\ iId' = [d \in Objs |-> IF d \in S THEN 0 ELSE iId[d]]
        /\ bTemporary' = [d \in Objs |-> d \notin S /\ bTemporary[d]]
        /\ cParent' = [d \in Objs |-> IF d \in S THEN NoChannel ELSE cParent[d]]
        /\ qhChannels' = [i \in DOMAIN qhChannels \ {iId[d] : d \in S} |-> qhChannels[i]]
        /\ shared' \subseteq shared
    BY DEF RemoveChannel
  <2>2. /\ links' = {l \in links : l \cap S = {}}
        /\ dbParent' = [i \in DOMAIN dbParent \ Rows(S) |-> dbParent[i]]
        /\ dbLinks' \subseteq dbLinks
    BY DEF RemoveChannel, LinksWithout, DeleteRows
  <2>3. /\ events' = [i \in Ids |-> pending[i] + Cardinality(emptied(i))]
        /\ \A i \in Ids : pending[i] + Cardinality(emptied(i)) <= MaxEvents
    BY ZenonT(30) DEF RemoveChannel
  <2> QED
    BY <2>1, <2>2, <2>3
<1>3. PICK dest \in [MovedOut(c, S) -> Ancestors(cParent[c])] :
             cChannel' = [u \in Users |-> IF u \in MovedOut(c, S) THEN dest[u] ELSE cChannel[u]]
  BY DEF RemoveChannel
<1>4. S \subseteq channels /\ Root \notin S /\ Ancestors(cParent[c]) \subseteq channels \ S
  BY <1>1, RemovedPart
<1>5. ASSUME NEW i \in Ids
      PROVE  Cardinality(emptied(i)) \in Nat /\ (Cardinality(emptied(i)) > 0 => i >= TempOffset)
  <2>1. IsFiniteSet(emptied(i))
    BY <1>1, <1>4, FiniteChannels, FS_Subset
  <2>2. CASE emptied(i) = {}
    BY <2>2, FS_EmptySet
  <2>3. CASE emptied(i) # {}
    BY <1>1, <1>4, <2>1, <2>3, FS_CardinalityType DEF Numbers
  <2> QED
    BY <2>2, <2>3
<1> HIDE DEF S, emptied
<1>6. events' \in [Ids -> 0 .. MaxEvents] /\ Pending'
  <2>1. ASSUME NEW i \in Ids
        PROVE  events'[i] \in 0 .. MaxEvents /\ (events'[i] > 0 => i >= TempOffset)
    BY <1>2, <1>5, LimitAssumption
  <2> QED
    BY <1>2, <2>1 DEF Pending
<1>7. \A u \in Users : cChannel'[u] \in channels' \cup {NoChannel}
  <2>1. ASSUME NEW u \in Users
        PROVE  cChannel'[u] \in channels' \cup {NoChannel}
    <3>1. CASE cChannel[u] \in S
      BY <1>2, <1>3, <1>4, <3>1 DEF MovedOut
    <3>2. CASE cChannel[u] \notin S
      BY <1>1, <1>2, <1>3, <3>2 DEF MovedOut, Refs, NothingDangles, TypeOK
    <3> QED
      BY <3>1, <3>2
  <2> QED
    BY <2>1
<1>8. Refs'
  BY <1>1, <1>2, <1>7 DEF Refs, NothingDangles
<1>9. Shape' /\ Permanent' = Permanent \ S /\ Stored'
  BY RemovalKeepsShape, RemovalKeepsStored DEF S
<1>10. Numbers'
  <2>1. \A d \in channels' : iId'[d] = iId[d] /\ (bTemporary'[d] <=> bTemporary[d])
    BY <1>1, <1>2 DEF TypeOK
  <2>2. iId'[Root] = 0
    BY <1>1, <1>2, <1>4, <2>1 DEF Numbers, Shape, Permanent
  <2>3. \A d \in channels' : bTemporary'[d] => iId'[d] >= TempOffset
    BY <1>1, <1>2, <2>1 DEF Numbers
  <2>4. ASSUME NEW d \in Permanent'
        PROVE  iId'[d] < TempOffset /\ iId'[d] \in DOMAIN qhChannels' /\ qhChannels'[iId'[d]] = d
    <3>1. d \in Permanent /\ d \notin S /\ iId'[d] = iId[d]
      BY <1>9, <1>2, <2>1 DEF Permanent
    <3>2. iId[d] < TempOffset /\ iId[d] \in DOMAIN qhChannels /\ qhChannels[iId[d]] = d
      BY <1>1, <3>1 DEF Numbers
    <3>3. ASSUME NEW e \in S, iId[e] = iId[d]
          PROVE  FALSE
      <4>1. CASE bTemporary[e]
        <5>1. iId[e] >= TempOffset
          BY <1>1, <1>4, <4>1 DEF Numbers
        <5>2. iId[d] \in Int /\ TempOffset \in Int
          BY <1>1, <3>1, ZeroIsId, OffsetAssumption DEF TypeOK, Ids, Permanent
        <5> QED
          BY <3>2, <3>3, <5>1, <5>2
      <4>2. CASE ~bTemporary[e]
        BY <1>1, <1>4, <3>1, <3>3, <4>2, IdsDiffer DEF Permanent
      <4> QED
        BY <4>1, <4>2
    <3> QED
      BY <1>2, <3>1, <3>2, <3>3
  <2>5. \A i \in DOMAIN qhChannels' : qhChannels'[i] \in channels' /\ iId'[qhChannels'[i]] = i
    <3>1. ASSUME NEW i \in DOMAIN qhChannels'
          PROVE  qhChannels'[i] \in channels' /\ iId'[qhChannels'[i]] = i
      <4>1. i \in DOMAIN qhChannels /\ qhChannels'[i] = qhChannels[i] /\ \A e \in S : iId[e] # i
        BY <1>2
      <4>2. qhChannels[i] \in channels /\ iId[qhChannels[i]] = i
        BY <1>1, <4>1 DEF Numbers
      <4> QED
        BY <1>2, <2>1, <4>1, <4>2
    <3> QED
      BY <3>1
  <2> QED
    BY <2>2, <2>3, <2>4, <2>5 DEF Numbers
<1>11. TypeOK'
  <2>1. /\ channels' \subseteq Objs
        /\ cParent' \in [Objs -> Objs \cup {NoChannel}]
        /\ links' \subseteq SUBSET Objs
        /\ dbLinks' \subseteq SUBSET Ids /\ \A l \in dbLinks' : Cardinality(l) = 2
    BY <1>1, <1>2 DEF TypeOK
  <2>2. iId' \in [Objs -> Ids]
    BY <1>1, <1>2, ZeroIsId DEF TypeOK
  <2>3. bTemporary' \in [Objs -> BOOLEAN]
    BY <1>2
  <2>4. DOMAIN qhChannels' \subseteq Ids /\ qhChannels' \in [DOMAIN qhChannels' -> Objs]
    BY <1>1, <1>2 DEF TypeOK
  <2>5. DOMAIN dbParent' \subseteq Ids /\ dbParent' \in [DOMAIN dbParent' -> Ids]
    BY <1>1, <1>2 DEF TypeOK
  <2>6. cChannel' \in [Users -> Objs \cup {NoChannel}]
    <3>1. cChannel' = [u \in Users |-> cChannel'[u]]
      BY <1>3
    <3> QED
      BY <1>7, <2>1, <3>1
  <2> QED
    <3>1. shared' \subseteq Objs
      BY <1>1, <1>2 DEF TypeOK
    <3>2. server' \in {"up", "stopped", "database error"}
      BY <1>2
    <3> QED
      BY <1>6, <2>1, <2>2, <2>3, <2>4, <2>5, <2>6, <3>1, <3>2 DEF TypeOK
<1> QED
  BY <1>2, <1>6, <1>8, <1>9, <1>10, <1>11 DEF Sound, InMemory

LEMMA RemoveRequestedKeeps ==
    ASSUME Sound, NEW c \in Objs, RemoveRequested(c)
    PROVE  Sound'
<1>1. c \in channels \ {Root} /\ server = "up" /\ RemoveChannel(c, events)
  BY KnownExist DEF RemoveRequested
<1>2. events \in [Ids -> 0 .. MaxEvents] /\ \A i \in Ids : events[i] > 0 => i >= TempOffset
  BY <1>1 DEF Sound, InMemory, Pending, TypeOK
<1> QED
  BY <1>1, <1>2, RemovalKeeps

\* A posted removal finds a temporary channel, or none.
LEMMA EventFindsTemporary ==
    ASSUME Sound, server = "up", NEW i \in Ids, events[i] > 0, i \in DOMAIN qhChannels
    PROVE  qhChannels[i] \in channels \ {Root} /\ bTemporary[qhChannels[i]]
<1>1. i >= TempOffset /\ i \in Int /\ TempOffset \in Int
  BY ZeroIsId, OffsetAssumption DEF Sound, InMemory, Pending, Ids
<1>2. qhChannels[i] \in channels /\ iId[qhChannels[i]] = i
  BY DEF Sound, InMemory, Numbers
<1>3. qhChannels[i] \notin Permanent
  BY <1>1, <1>2 DEF Sound, InMemory, Numbers
<1> QED
  BY <1>2, <1>3 DEF Sound, InMemory, Shape, Permanent

LEMMA RunEventKeeps ==
    ASSUME Sound, NEW i \in Ids, RunEvent(i)
    PROVE  Sound'
<1> DEFINE pending == [events EXCEPT ![i] = @ - 1]
<1>1. server = "up" /\ events[i] > 0
  BY DEF RunEvent
<1>2. events \in [Ids -> 0 .. MaxEvents] /\ \A j \in Ids : events[j] > 0 => j >= TempOffset
  BY <1>1 DEF Sound, InMemory, Pending, TypeOK
<1>3. pending \in [Ids -> 0 .. MaxEvents] /\ \A j \in Ids : pending[j] > 0 => j >= TempOffset
  BY <1>1, <1>2, LimitAssumption
<1> HIDE DEF pending
<1>4. CASE i \in DOMAIN qhChannels /\ RemoveChannel(qhChannels[i], pending)
  BY <1>1, <1>3, <1>4, EventFindsTemporary, RemovalKeeps
<1>5. CASE events' = pending /\ UNCHANGED <<server, treeVars, cChannel, dbVars, shared>>
  <2>1. cChannel' \in [Users -> channels \cup {NoChannel}]
    BY <1>1, <1>5 DEF Sound, TypeOK, InMemory, Refs, NothingDangles
  <2> QED
    BY <1>1, <1>3, <1>5, <2>1, UsersMove
<1> QED
  BY <1>4, <1>5 DEF RunEvent, pending

-----------------------------------------------------------------------------
(* The server stops and is started again. *)

LEMMA CrashKeeps ==
    ASSUME Sound, Crash
    PROVE  Sound'
<1>1. server = "up" /\ Halt("stopped")
  BY DEF Crash
<1>2. TypeOK /\ Shape /\ Numbers /\ Refs /\ Stored
  BY <1>1 DEF Sound, InMemory
<1>3. RowTree(dbParent, dbLinks)
  BY <1>2, RowsOfMemory
<1>4. CASE UNCHANGED dbVars
  BY <1>1, <1>2, <1>3, <1>4, HaltKeeps DEF dbVars, TypeOK
<1>5. ASSUME NEW c \in Known \ {Root}, NEW S \in SUBSET Subtree(c), DownClosed(S), DeleteRows(Rows(S))
      PROVE  Sound'
  <2> DEFINE X == Rows(S)
  <2>1. c \in channels \ {Root}
    BY <1>1, KnownExist
  <2>2. S \in SUBSET (channels \ {Root})
    BY <1>2, <2>1, RemovedPart
  <2>3. 0 \notin X /\ \A d \in Permanent : iId[d] \in X <=> d \in S
    BY <1>2, <2>2, RemovedRows
  <2>4. /\ dbParent' = [i \in DOMAIN dbParent \ X |-> dbParent[i]]
        /\ dbLinks' = {l \in dbLinks : l \cap X = {}}
    BY <1>5 DEF DeleteRows
  <2> HIDE DEF X
  <2>5. ASSUME NEW i \in DOMAIN dbParent \ {0}, dbParent[i] \in X
        PROVE  i \in X
    <3>1. PICK d \in Permanent : i = iId[d]
      BY <1>2 DEF Stored
    <3>2. d # Root
      BY <1>2, <3>1 DEF Numbers
    <3>3. cParent[d] \in Permanent /\ dbParent[i] = iId[cParent[d]]
      BY <1>2, <3>1, <3>2 DEF Shape, Stored
    <3>4. cParent[d] \in S
      BY <2>3, <2>5, <3>3
    <3>5. d \in S
      BY <1>5, <3>4 DEF DownClosed, Permanent
    <3> QED
      BY <2>3, <3>1, <3>5
  <2>6. IsFiniteSet(DOMAIN dbParent)
    <3>1. IsFiniteSet(Ids)
      BY ZeroIsId, OffsetAssumption, FS_Interval DEF Ids
    <3> QED
      BY <1>2, <3>1, FS_Subset DEF TypeOK
  <2>7. RowTree(dbParent', dbLinks')
    <3>1. Pruned(dbParent, dbLinks, X, dbParent', dbLinks')
      BY <2>3, <2>4, <2>5 DEF Pruned
    <3> QED
      BY <1>3, <2>6, <3>1, RowsPruned
  <2>8. DOMAIN dbParent' \subseteq Ids /\ dbParent' \in [DOMAIN dbParent' -> Ids] /\ dbLinks' \subseteq dbLinks
    BY <1>2, <2>4 DEF TypeOK
  <2> QED
    BY <1>1, <2>7, <2>8, HaltKeeps
<1> QED
  BY <1>4, <1>5 DEF Crash

\* readChildren finds every row of a tree.
LEMMA AllRowsLoaded ==
    ASSUME RowTree(dbParent, dbLinks)
    PROVE  Loaded = DOMAIN dbParent
<1> DEFINE D == DOMAIN dbParent
<1>1. ASSUME NEW i \in D, NEW S \in SUBSET D, 0 \in S, \A j \in D : dbParent[j] \in S => j \in S, i \notin S
      PROVE  FALSE
  <2>1. D \ S \in SUBSET (D \ {0}) /\ D \ S # {}
    BY <1>1
  <2>2. Closed(dbParent, 0, D \ S)
    BY <1>1 DEF Closed, RowTree, Tree
  <2> QED
    BY <2>1, <2>2 DEF RowTree, Tree
<1> QED
  BY <1>1 DEF Loaded

\* A restart makes a channel of every row.
LEMMA RestartKeeps ==
    ASSUME Sound, Restart
    PROVE  Sound'
<1> DEFINE D == DOMAIN dbParent
<1>1. server # "up" /\ server' = "up" /\ UNCHANGED <<bTemporary, cChannel, events, dbVars, shared>>
  BY DEF Restart
<1>2. TypeOK /\ Forgotten /\ RowTree(dbParent, dbLinks)
  BY <1>1 DEF Sound
<1>3. Loaded = D
  BY <1>2, AllRowsLoaded
<1>4. PICK obj \in [D -> Objs] :
        /\ obj[0] = Root
        /\ \A i, j \in D : obj[i] = obj[j] => i = j
        /\ channels' = {obj[i] : i \in D}
        /\ qhChannels' = obj
        /\ iId' = [c \in Objs |-> IF \E i \in D : obj[i] = c
                                  THEN CHOOSE i \in D : obj[i] = c ELSE 0]
        /\ cParent' = [c \in Objs |-> IF \E i \in D \ {0} : obj[i] = c
                         THEN obj[dbParent[CHOOSE i \in D : obj[i] = c]] ELSE NoChannel]
        /\ links' = {{obj[i] : i \in l} : l \in {m \in dbLinks : m \subseteq D}}
  <2> HIDE DEF D
  <2> QED
    BY <1>3 DEF Restart
<1>5. /\ 0 \in D /\ dbParent[0] = 0
      /\ \A i \in D \ {0} : dbParent[i] \in D
      /\ \A l \in dbLinks : \E i, j \in D : l = {i, j}
  BY <1>2 DEF RowTree, Tree
<1>6. ASSUME NEW i \in D
      PROVE  /\ obj[i] \in Objs /\ obj[i] \in channels' /\ iId'[obj[i]] = i
             /\ cParent'[obj[i]] = IF i = 0 THEN NoChannel ELSE obj[dbParent[i]]
  <2>1. obj[i] \in Objs /\ obj[i] \in channels'
    BY <1>4
  <2>2. (CHOOSE j \in D : obj[j] = obj[i]) = i
    BY <1>4
  <2>3. (\E j \in D \ {0} : obj[j] = obj[i]) <=> i # 0
    BY <1>4, <1>5
  <2> QED
    BY <1>4, <2>1, <2>2, <2>3
<1>7. ASSUME NEW c \in channels'
      PROVE  iId'[c] \in D /\ obj[iId'[c]] = c
  <2>1. PICK i \in D : c = obj[i]
    BY <1>4
  <2> QED
    BY <1>6, <2>1
<1>8. \A c \in Objs : ~bTemporary'[c]
  BY <1>1, <1>2 DEF Forgotten
<1>9. Root \in channels' /\ iId'[Root] = 0 /\ cParent'[Root] = NoChannel
  BY <1>4, <1>5, <1>6
<1>10. channels' \subseteq Objs /\ Permanent' = channels'
  BY <1>4, <1>8 DEF Permanent
<1>11. Shape'
  <2> DEFINE g == [c \in channels' |-> iId'[c]]
  <2>1. ASSUME NEW c \in channels' \ {Root}
        PROVE  /\ iId'[c] # 0 /\ cParent'[c] \in channels'
               /\ iId'[cParent'[c]] = dbParent[iId'[c]]
    <3>1. iId'[c] \in D \ {0}
      BY <1>4, <1>7, <2>1
    <3>2. cParent'[c] = obj[dbParent[iId'[c]]]
      BY <1>6, <1>7, <3>1
    <3> QED
      BY <1>5, <1>6, <3>1, <3>2
  <2>2. Embeds(g, D, dbParent, 0, channels', cParent', Root)
    BY <1>7, <1>9, <2>1 DEF Embeds
  <2>3. Tree(channels', cParent', Root)
    BY <1>2, <2>2, EmbeddedTree DEF RowTree
  <2>4. ASSUME NEW c \in channels'
        PROVE  Cardinality(Above(channels', cParent', Root, c)) <= NestingLimit + 1
    <3>1. IsFiniteSet(D)
      <4>1. IsFiniteSet(Ids)
        BY ZeroIsId, OffsetAssumption, FS_Interval DEF Ids
      <4> QED
        BY <1>2, <4>1, FS_Subset DEF TypeOK
    <3>2. \A x, y \in channels' : g[x] = g[y] => x = y
      BY <1>7
    <3>3. Cardinality(Above(channels', cParent', Root, c)) <= Cardinality(Above(D, dbParent, 0, g[c]))
      BY <2>2, <3>1, <3>2, EmbeddedHeight
    <3>4. g[c] \in D
      BY <1>7
    <3> HIDE DEF g
    <3>5. Cardinality(Above(D, dbParent, 0, g[c])) <= NestingLimit + 1
          /\ Cardinality(Above(D, dbParent, 0, g[c])) \in Nat
      BY <1>2, <3>1, <3>4, FS_Subset, FS_CardinalityType DEF RowTree, Above
    <3>6. Cardinality(Above(channels', cParent', Root, c)) \in Nat
      BY <1>10, ObjsAssumption, FS_Subset, FS_CardinalityType DEF Above
    <3> QED
      BY <3>3, <3>5, <3>6, LimitAssumption
  <2>5. \A c \in channels' : Height(c)' <= NestingLimit + 1
    BY <2>4 DEF Height
  <2> QED
    BY <1>9, <1>10, <2>1, <2>3, <2>5 DEF Shape
<1>12. Numbers'
  BY <1>2, <1>4, <1>6, <1>7, <1>8, <1>9, <1>10 DEF Numbers, RowTree
<1>13. Pending'
  BY <1>1, <1>2 DEF Pending, Forgotten
<1>14. \A l \in dbLinks : \E i, j \in D : l = {i, j} /\ {obj[k] : k \in l} = {obj[i], obj[j]}
  BY <1>5
<1>15. Refs'
  <2>1. ASSUME NEW l \in links'
        PROVE  \E a, b \in channels' : l = {a, b}
    <3>1. PICK m \in dbLinks : l = {obj[k] : k \in m}
      BY <1>4
    <3>2. PICK i \in D, j \in D : l = {obj[i], obj[j]}
      BY <1>14, <3>1
    <3> QED
      BY <1>6, <3>2
  <2> QED
    BY <1>1, <1>2, <2>1 DEF Refs, NothingDangles, Forgotten
<1>16. Stored'
  <2>1. D = {iId'[c] : c \in channels'}
    BY <1>6, <1>7
  <2>2. ASSUME NEW c \in channels' \ {Root}
        PROVE  dbParent[iId'[c]] = iId'[cParent'[c]]
    <3>1. iId'[c] \in D \ {0} /\ c = obj[iId'[c]]
      BY <1>4, <1>7
    <3>2. cParent'[c] = obj[dbParent[iId'[c]]] /\ dbParent[iId'[c]] \in D
      BY <1>5, <1>6, <3>1
    <3> QED
      BY <1>6, <3>2
  <2>3. dbLinks = {{iId'[c] : c \in l} : l \in {m \in links' : m \subseteq channels'}}
    <3> DEFINE image(l) == {obj[i] : i \in l}
               back(m) == {iId'[c] : c \in m}
    <3>1. \A l \in dbLinks : l \subseteq D
      BY <1>5
    <3>2. links' = {image(l) : l \in dbLinks}
      <4>1. {m \in dbLinks : m \subseteq D} = dbLinks
        BY <3>1
      <4> QED
        BY <1>4, <4>1
    <3>3. \A l \in dbLinks : back(image(l)) = l /\ image(l) \subseteq channels'
      BY <1>6, <3>1
    <3> HIDE DEF image, back
    <3>4. dbLinks = {back(m) : m \in {k \in links' : k \subseteq channels'}}
      BY <3>2, <3>3
    <3> QED
      BY <3>4 DEF back
  <2> QED
    BY <1>1, <1>5, <1>10, <2>1, <2>2, <2>3 DEF Stored, dbVars
<1>17. TypeOK'
  <2>1. iId' \in [Objs -> Ids]
    <3>1. \A c \in Objs : iId'[c] = (IF c \in channels' THEN iId'[c] ELSE 0)
      BY <1>4
    <3>2. \A c \in Objs : iId'[c] \in Ids
      BY <1>2, <1>7, <3>1, ZeroIsId DEF TypeOK
    <3> QED
      BY <1>4, <3>2
  <2>2. cParent' \in [Objs -> Objs \cup {NoChannel}]
    <3>1. \A c \in Objs : cParent'[c] = (IF c \in channels' THEN cParent'[c] ELSE NoChannel)
      BY <1>4
    <3>2. \A c \in Objs : cParent'[c] \in Objs \cup {NoChannel}
      BY <1>5, <1>6, <1>7, <3>1
    <3> QED
      BY <1>4, <3>2
  <2>3. links' \subseteq SUBSET Objs
    BY <1>4
  <2> QED
    BY <1>1, <1>2, <1>4, <1>10, <2>1, <2>2, <2>3 DEF TypeOK, dbVars
<1> QED
  BY <1>1, <1>11, <1>12, <1>13, <1>15, <1>16, <1>17 DEF Sound, InMemory

-----------------------------------------------------------------------------
(* The theorems. *)

LEMMA SoundStep ==
    ASSUME Sound, [Next]_vars
    PROVE  Sound'
<1>1. ASSUME NEW u \in Users, Disconnect(u)
      PROVE  Sound'
  BY <1>1, DisconnectKeeps
<1>2. ASSUME NEW u \in Users, NEW c \in Objs, EnterChannel(u, c)
      PROVE  Sound'
  BY <1>2, EnterKeeps
<1>3. ASSUME NEW u \in Users, NEW c \in Objs, NEW p \in Objs, CreateTemporary(u, c, p)
      PROVE  Sound'
  BY <1>3, CreateTemporaryKeeps
<1>4. ASSUME NEW c \in Objs, NEW p \in Objs, CreatePermanent(c, p)
      PROVE  Sound'
  BY <1>4, CreatePermanentKeeps
<1>5. ASSUME NEW c \in Objs, NEW p \in Objs, MoveChannel(c, p)
      PROVE  Sound'
  BY <1>5, MoveKeeps
<1>6. ASSUME NEW c \in Objs, NEW p \in Objs, PermanentBelowTemporary(c, p)
      PROVE  Sound'
  BY <1>6, DatabaseErrorKeeps DEF PermanentBelowTemporary
<1>7. ASSUME NEW c \in Objs, NEW p \in Objs, Link(c, p)
      PROVE  Sound'
  BY <1>7, LinkKeeps
<1>8. ASSUME NEW c \in Objs, NEW p \in Objs, LinkRejectedByDatabase(c, p)
      PROVE  Sound'
  BY <1>8, DatabaseErrorKeeps DEF LinkRejectedByDatabase
<1>9. ASSUME NEW c \in Objs, NEW p \in Objs, Unlink(c, p)
      PROVE  Sound'
  BY <1>9, UnlinkKeeps
<1>10. ASSUME NEW c \in Objs, RemoveRequested(c)
       PROVE  Sound'
  BY <1>10, RemoveRequestedKeeps
<1>11. ASSUME NEW i \in Ids, RunEvent(i)
       PROVE  Sound'
  BY <1>11, RunEventKeeps
<1>12. CASE Crash
  BY <1>12, CrashKeeps
<1>13. CASE Restart
  BY <1>13, RestartKeeps
<1>14. CASE UNCHANGED vars
  <2>1. /\ TypeOK' <=> TypeOK
        /\ Shape' <=> Shape
        /\ Numbers' <=> Numbers
        /\ Pending' <=> Pending
        /\ Refs' <=> Refs
        /\ Stored' <=> Stored
        /\ Forgotten' <=> Forgotten
    BY <1>14 DEF vars, treeVars, dbVars, TypeOK, Shape, Permanent, Height, Numbers,
                 Pending, Refs, NothingDangles, Stored, Forgotten
  <2>2. server' = server /\ dbParent' = dbParent /\ dbLinks' = dbLinks
    BY <1>14 DEF vars, dbVars
  <2> QED
    BY <2>1, <2>2 DEF Sound, InMemory
<1> QED
  BY <1>1, <1>2, <1>3, <1>4, <1>5, <1>6, <1>7, <1>8, <1>9, <1>10, <1>11, <1>12, <1>13, <1>14
     DEF Next

\* In every reachable state of a server of any size Sound holds.
THEOREM AlwaysSound == Spec => []Sound
BY InitSound, SoundStep, PTL DEF Spec

\* Every variable keeps its type: in particular every id of a channel and of a
\* row is one that createNewChannel can have given out.
THEOREM TypeCorrect == Spec => []TypeOK
<1>1. Sound => TypeOK
  BY DEF Sound
<1> QED
  BY <1>1, AlwaysSound, PTL

\* No sequence of creations, moves, removals and restarts makes a cycle or
\* leaves a channel without a way up to the root.
THEOREM TreeRooted == Spec => []Rooted
<1>1. ASSUME Sound
      PROVE  Rooted
  <2>1. CASE server = "up"
    <3>1. TypeOK /\ Shape
      BY <1>1, <2>1 DEF Sound, InMemory
    <3> QED
      BY <3>1, AncestorsAreAbove, RootAbove DEF Rooted, Shape
  <2>2. CASE server # "up"
    BY <1>1, <2>2 DEF Sound, Forgotten, Rooted
  <2> QED
    BY <2>1, <2>2
<1> QED
  BY <1>1, AlwaysSound, PTL

\* No channel is ever deeper than iChannelNestingLimit, also when what moves is
\* a channel with others below it.
THEOREM NestingKept == Spec => []NestingRespected
<1>1. ASSUME Sound
      PROVE  NestingRespected
  <2>1. CASE server = "up"
    <3>1. TypeOK /\ Shape
      BY <1>1, <2>1 DEF Sound, InMemory
    <3>2. \A c \in channels : Level(c) = Height(c) - 1 /\ Height(c) \in Nat /\ Height(c) <= NestingLimit + 1
      BY <3>1, LevelIsHeight DEF Shape
    <3> QED
      BY <3>2, LimitAssumption DEF NestingRespected
  <2>2. CASE server # "up"
    BY <1>1, <2>2 DEF Sound, Forgotten, NestingRespected
  <2> QED
    BY <2>1, <2>2
<1> QED
  BY <1>1, AlwaysSound, PTL

\* Users and links never refer to a channel that was deleted.
THEOREM NoDangling == Spec => []NothingDangles
<1>1. ASSUME Sound
      PROVE  NothingDangles
  BY <1>1 DEF Sound, InMemory, Refs, Forgotten, NothingDangles
<1> QED
  BY <1>1, AlwaysSound, PTL

\* While the server runs the rows are its permanent channels, with their
\* parents and links.
THEOREM RowsMatch == Spec => []DatabaseMatches
<1>1. ASSUME Sound
      PROVE  DatabaseMatches
  BY <1>1 DEF Sound, InMemory, Shape, Stored, Permanent, DatabaseMatches
<1> QED
  BY <1>1, AlwaysSound, PTL

\* Whatever a crash leaves of a removal, readChildren finds every row again.
THEOREM RowsAreTree == Spec => []DatabaseIsTree
<1>1. ASSUME Sound
      PROVE  DatabaseIsTree
  <2>1. RowTree(dbParent, dbLinks)
    BY <1>1, RowsOfMemory DEF Sound, InMemory
  <2> QED
    BY <2>1, AllRowsLoaded DEF DatabaseIsTree
<1> QED
  BY <1>1, AlwaysSound, PTL

\* A posted removal never takes a permanent channel with it.
THEOREM PermanentStay == Spec => RemovesOnlyTemporary
<1>1. ASSUME Sound, NEW i \in Ids, RunEvent(i), NEW c \in channels \ channels'
      PROVE  bTemporary[c]
  <2>1. server = "up" /\ events[i] > 0
    BY <1>1 DEF RunEvent
  <2>2. CASE i \in DOMAIN qhChannels /\ channels' = channels \ Subtree(qhChannels[i])
    <3>1. qhChannels[i] \in channels \ {Root} /\ bTemporary[qhChannels[i]]
      BY <1>1, <2>1, <2>2, EventFindsTemporary
    <3>2. TypeOK /\ Shape
      BY <1>1, <2>1 DEF Sound, InMemory
    <3> QED
      BY <1>1, <2>2, <3>1, <3>2, RemovedPart
  <2>3. CASE channels' = channels
    BY <1>1, <2>3
  <2> QED
    BY <1>1, <2>2, <2>3 DEF RunEvent, RemoveChannel, treeVars
<1>2. Sound /\ [Next]_vars => [\A i \in Ids : RunEvent(i) => \A c \in channels \ channels' : bTemporary[c]]_vars
  BY <1>1
<1> QED
  BY <1>2, AlwaysSound, PTL DEF Spec, RemovesOnlyTemporary

-----------------------------------------------------------------------------
(* A channel that never had its id in common with another is found by it,  *)
(* and the removal posted for it is for the one that is there.             *)

\* Every channel that stays keeps its id, and its place in the hash if it never
\* had its id in common with another.
LEMMA ExactWhenKept ==
    ASSUME Sound, Sound', Exact, server' = "up", channels' \subseteq channels,
           \A d \in channels' : /\ bTemporary'[d] = bTemporary[d] /\ iId'[d] = iId[d]
                                /\ d \in shared => d \in shared',
           \A d \in channels' \ shared' : /\ iId[d] \in DOMAIN qhChannels'
                                          /\ qhChannels'[iId[d]] = qhChannels[iId[d]],
           \A d \in channels' \ shared' :
               bTemporary[d] /\ {u \in Users : cChannel'[u] = d} = {} => events'[iId[d]] > 0
    PROVE  Exact'
<1>1. HashMatches'
  <2>1. Numbers'
    BY DEF Sound, InMemory
  <2>2. ASSUME NEW d \in channels'
        PROVE  \/ iId'[d] \in DOMAIN qhChannels' /\ qhChannels'[iId'[d]] = d
               \/ bTemporary'[d] /\ d \in shared'
    <3>1. CASE d \in shared'
      BY <2>1, <3>1 DEF Numbers, Permanent
    <3>2. CASE d \notin shared'
      BY <3>2 DEF Exact, HashMatches
    <3> QED
      BY <3>1, <3>2
  <2> QED
    BY <2>1, <2>2 DEF HashMatches, Numbers
<1>2. EmptyTemporaryIsDue'
  BY DEF EmptyTemporaryIsDue, Occupants
<1>3. OwnIds'
  BY DEF Exact, OwnIds
<1> QED
  BY <1>1, <1>2, <1>3 DEF Exact

\* u leaves: the channel is still occupied, or its removal is posted.
LEMMA LeaverPosts ==
    ASSUME Sound, Exact, server = "up", NEW u \in Users, NEW to,
           PostRemoval(RemovalPosted(u, to)), cChannel' = [cChannel EXCEPT ![u] = to],
           NEW d \in channels \ shared, bTemporary[d], {v \in Users : cChannel'[v] = d} = {}
    PROVE  events'[iId[d]] > 0
<1>1. /\ cChannel \in [Users -> Objs \cup {NoChannel}] /\ events \in [Ids -> 0 .. MaxEvents]
      /\ iId[d] \in Ids /\ d \in Objs /\ d # NoChannel
  BY ObjsAssumption DEF Sound, TypeOK
<1>2. \A v \in Users \ {u} : cChannel[v] # d
  BY <1>1
<1>3. CASE cChannel[u] = d
  <2>1. Occupants(d) = {u}
    BY <1>2, <1>3 DEF Occupants
  <2>2. iId[d] \in RemovalPosted(u, to)
    BY <1>1, <1>3, <2>1 DEF RemovalPosted
  <2> QED
    BY <1>1, <2>2 DEF PostRemoval
<1>4. CASE cChannel[u] # d
  <2>1. Occupants(d) = {}
    BY <1>2, <1>4 DEF Occupants
  <2>2. events[iId[d]] > 0
    BY <2>1 DEF Exact, EmptyTemporaryIsDue
  <2> QED
    BY <1>1, <2>2 DEF PostRemoval
<1> QED
  BY <1>3, <1>4

\* A new channel and those that have its id already are put in shared.
LEMMA ConstructKeepsOwnIds ==
    ASSUME Sound, Sound', server' = "up", Exact, NEW c \in Objs \ channels, NEW p, NEW temporary \in BOOLEAN,
           Construct(c, p, temporary)
    PROVE  OwnIds' /\ HashMatches'
<1> DEFINE id == NewId(temporary)
           same == {d \in channels : iId[d] = id}
<1>1. /\ channels' = channels \cup {c}
      /\ iId' = [iId EXCEPT ![c] = id]
      /\ bTemporary' = [bTemporary EXCEPT ![c] = temporary]
      /\ qhChannels' = [i \in DOMAIN qhChannels \cup {id} |->
                          IF i = id THEN c ELSE qhChannels[i]]
      /\ shared' = IF same = {} THEN shared \ {c} ELSE shared \cup same \cup {c}
  BY DEF Construct
<1>2. TypeOK
  BY DEF Sound
<1> HIDE DEF id
<1>3. \A d \in channels : d # c /\ iId'[d] = iId[d]
  BY <1>1, <1>2 DEF TypeOK
<1>4. iId'[c] = id
  BY <1>1, <1>2 DEF TypeOK
<1>5. \A d \in channels \ shared' : iId[d] # id /\ d \notin shared
  BY <1>1, <1>3
<1>6. c \notin shared' => \A d \in channels : iId[d] # id
  BY <1>1
<1>7. OwnIds'
  <2>1. ASSUME NEW d \in channels' \ shared', NEW e \in channels' \ {d}
        PROVE  iId'[d] # iId'[e]
    <3>1. CASE d = c
      BY <1>1, <1>3, <1>4, <1>6, <3>1
    <3>2. CASE d # c /\ e = c
      BY <1>1, <1>3, <1>4, <1>5, <3>2
    <3>3. CASE d # c /\ e # c
      BY <1>1, <1>3, <1>5, <3>3 DEF Exact, OwnIds
    <3> QED
      BY <3>1, <3>2, <3>3
  <2> QED
    BY <2>1 DEF OwnIds
<1>8. Numbers'
  BY DEF Sound, InMemory
<1>9. ASSUME NEW d \in channels'
      PROVE  \/ iId'[d] \in DOMAIN qhChannels' /\ qhChannels'[iId'[d]] = d
             \/ bTemporary'[d] /\ d \in shared'
  <2>1. CASE d \in shared'
    BY <1>8, <2>1 DEF Numbers, Permanent
  <2>2. CASE d = c
    BY <1>1, <1>4, <2>2
  <2>3. CASE d # c /\ d \notin shared'
    <3>1. /\ d \in channels /\ iId'[d] = iId[d] /\ iId[d] # id
          /\ iId[d] \in DOMAIN qhChannels /\ qhChannels[iId[d]] = d
      BY <1>1, <1>3, <1>5, <2>3 DEF Exact, HashMatches
    <3> QED
      BY <1>1, <3>1
  <2> QED
    BY <2>1, <2>2, <2>3
<1>10. HashMatches'
  BY <1>8, <1>9 DEF HashMatches, Numbers
<1> QED
  BY <1>7, <1>10

LEMMA CreateTemporaryKeepsExact ==
    ASSUME Sound, Sound', Exact,
           NEW u \in Users, NEW c \in Objs, NEW p \in Objs, CreateTemporary(u, c, p)
    PROVE  Exact'
<1>1. /\ server = "up" /\ server' = "up" /\ c \in Objs \ channels /\ Construct(c, p, TRUE)
      /\ cChannel' = [cChannel EXCEPT ![u] = c] /\ PostRemoval(RemovalPosted(u, c))
  BY DEF CreateTemporary
<1>2. OwnIds' /\ HashMatches'
  BY <1>1, ConstructKeepsOwnIds
<1>3. /\ channels' = channels \cup {c}
      /\ \A d \in channels : /\ d # c /\ iId'[d] = iId[d] /\ bTemporary'[d] = bTemporary[d]
                             /\ d \in shared => d \in shared'
      /\ cChannel'[u] = c
  <2>1. TypeOK
    BY DEF Sound
  <2>2. /\ channels' = channels \cup {c}
        /\ \A d \in channels : d # c /\ iId'[d] = iId[d] /\ bTemporary'[d] = bTemporary[d]
    BY <1>1, <2>1 DEF Construct, TypeOK
  <2>3. \A d \in channels : d \in shared => d \in shared'
    BY <1>1 DEF Construct
  <2>4. cChannel'[u] = c
    BY <1>1, <2>1 DEF TypeOK
  <2> QED
    BY <2>2, <2>3, <2>4
<1>4. ASSUME NEW d \in channels' \ shared', bTemporary'[d], {v \in Users : cChannel'[v] = d} = {}
      PROVE  events'[iId'[d]] > 0
  <2>1. d \in channels \ shared /\ bTemporary[d] /\ iId'[d] = iId[d]
    BY <1>3, <1>4
  <2> QED
    BY <1>1, <1>4, <2>1, LeaverPosts
<1>5. EmptyTemporaryIsDue'
  BY <1>4 DEF EmptyTemporaryIsDue, Occupants
<1> QED
  BY <1>2, <1>5 DEF Exact

LEMMA CreatePermanentKeepsExact ==
    ASSUME Sound, Sound', Exact, NEW c \in Objs, NEW p \in Objs, CreatePermanent(c, p)
    PROVE  Exact'
<1>1. /\ server = "up" /\ server' = "up" /\ c \in Objs \ channels /\ Construct(c, p, FALSE)
      /\ cChannel' = cChannel /\ events' = events
  BY DEF CreatePermanent
<1>2. OwnIds' /\ HashMatches'
  BY <1>1, ConstructKeepsOwnIds
<1>3. /\ channels' = channels \cup {c} /\ ~bTemporary'[c]
      /\ \A d \in channels : /\ d # c /\ iId'[d] = iId[d] /\ bTemporary'[d] = bTemporary[d]
                             /\ d \in shared => d \in shared'
  BY <1>1 DEF Construct, Sound, TypeOK
<1>4. EmptyTemporaryIsDue'
  BY <1>1, <1>3 DEF Exact, EmptyTemporaryIsDue, Occupants
<1> QED
  BY <1>2, <1>4 DEF Exact

LEMMA RemovalKeepsExact ==
    ASSUME Sound, Sound', Exact, server = "up", NEW c \in channels \ {Root},
           NEW pending \in [Ids -> 0 .. MaxEvents],
           \A d \in channels \ (Subtree(c) \cup shared) : pending[iId[d]] = events[iId[d]],
           RemoveChannel(c, pending)
    PROVE  Exact'
<1> DEFINE S == Subtree(c)
           emptied(i) == {d \in S : bTemporary[d] /\ iId[d] = i /\ Occupants(d) # {}}
<1>1. TypeOK /\ Shape
  BY DEF Sound, InMemory
<1>2. /\ server' = "up" /\ channels' = channels \ S /\ shared' = shared \ S
      /\ iId' = [d \in Objs |-> IF d \in S THEN 0 ELSE iId[d]]
      /\ bTemporary' = [d \in Objs |-> d \notin S /\ bTemporary[d]]
      /\ qhChannels' = [i \in DOMAIN qhChannels \ {iId[d] : d \in S} |-> qhChannels[i]]
      /\ events' = [i \in Ids |-> pending[i] + Cardinality(emptied(i))]
      /\ \A u \in Users : cChannel[u] \notin S => cChannel'[u] = cChannel[u]
  BY DEF RemoveChannel, MovedOut
<1>3. S \subseteq channels
  BY <1>1, RemovedPart
<1>4. \A i \in Ids : Cardinality(emptied(i)) \in Nat
  <2>1. ASSUME NEW i \in Ids
        PROVE  IsFiniteSet(emptied(i))
    BY <1>1, <1>3, FiniteChannels, FS_Subset
  <2> QED
    BY <2>1, FS_CardinalityType
<1>5. \A d \in channels \ (S \cup shared) : pending[iId[d]] = events[iId[d]]
  OBVIOUS
<1> HIDE DEF S, emptied
<1>6. HashMatches /\ EmptyTemporaryIsDue /\ OwnIds
  BY DEF Exact
<1>7. ASSUME NEW d \in channels'
      PROVE  /\ iId'[d] = iId[d] /\ (bTemporary'[d] <=> bTemporary[d])
             /\ d \in shared => d \in shared'
             /\ bTemporary'[d] \in BOOLEAN /\ bTemporary[d] \in BOOLEAN
  BY <1>1, <1>2 DEF TypeOK
<1>8. ASSUME NEW d \in channels' \ shared'
      PROVE  iId[d] \in DOMAIN qhChannels' /\ qhChannels'[iId[d]] = qhChannels[iId[d]]
  <2>1. d \in channels \ S /\ d \notin shared
    BY <1>2, <1>8
  <2>2. \A e \in S : iId[e] # iId[d]
    BY <1>3, <1>6, <2>1 DEF OwnIds
  <2>3. iId[d] \in DOMAIN qhChannels
    BY <1>6, <2>1 DEF HashMatches
  <2> QED
    BY <1>2, <2>2, <2>3
<1>9. ASSUME NEW d \in channels' \ shared', bTemporary[d], {u \in Users : cChannel'[u] = d} = {}
      PROVE  events'[iId[d]] > 0
  <2>1. d \in channels /\ d \notin S /\ d \notin shared /\ iId[d] \in Ids
    BY <1>1, <1>2 DEF TypeOK
  <2>2. Occupants(d) = {}
    BY <1>2, <1>9, <2>1 DEF Occupants
  <2>3. events[iId[d]] > 0
    BY <1>6, <1>9, <2>1, <2>2 DEF EmptyTemporaryIsDue
  <2>4. pending[iId[d]] > 0
    BY <1>5, <2>1, <2>3
  <2> QED
    BY <1>2, <1>4, <2>1, <2>4
<1>10. \A d \in channels' : bTemporary'[d] = bTemporary[d]
  BY <1>7
<1> QED
  BY <1>2, <1>7, <1>8, <1>9, <1>10, ExactWhenKept

\* A server that starts has no temporary channel.
LEMMA RestartIsExact ==
    ASSUME Sound, Sound', Restart
    PROVE  Exact'
<1>1. server # "up" /\ server' = "up" /\ bTemporary' = bTemporary
  BY DEF Restart
<1>2. \A c \in channels' : ~bTemporary'[c]
  BY <1>1 DEF Sound, Forgotten, TypeOK
<1>3. Numbers'
  BY <1>1 DEF Sound, InMemory
<1>4. \A c \in channels' : iId'[c] \in DOMAIN qhChannels' /\ qhChannels'[iId'[c]] = c
  BY <1>2, <1>3 DEF Numbers, Permanent
<1>5. HashMatches' /\ OwnIds'
  BY <1>3, <1>4 DEF Numbers, HashMatches, OwnIds
<1> QED
  BY <1>2, <1>5 DEF Exact, EmptyTemporaryIsDue

LEMMA HaltIsExact ==
    ASSUME NEW how, Halt(how)
    PROVE  Exact'
BY DEF Halt, Exact, OwnIds, HashMatches, EmptyTemporaryIsDue

LEMMA ExactStep ==
    ASSUME Sound, Sound', Exact, [Next]_vars
    PROVE  Exact'
<1>1. ASSUME NEW u \in Users, NEW to, server = "up", PostRemoval(RemovalPosted(u, to)),
             cChannel' = [cChannel EXCEPT ![u] = to],
             UNCHANGED <<server, treeVars, shared>>
      PROVE  Exact'
  <2>1. \A d \in channels' \ shared' : iId[d] \in DOMAIN qhChannels
    BY <1>1 DEF Exact, HashMatches, treeVars
  <2>2. \A d \in channels' \ shared' :
            bTemporary[d] /\ {v \in Users : cChannel'[v] = d} = {} => events'[iId[d]] > 0
    BY <1>1, LeaverPosts DEF treeVars
  <2> QED
    BY <1>1, <2>1, <2>2, ExactWhenKept DEF treeVars
<1>2. ASSUME NEW u \in Users, Disconnect(u) \/ \E c \in Objs : EnterChannel(u, c)
      PROVE  Exact'
  BY <1>1, <1>2 DEF EnterChannel, Disconnect
<1>3. ASSUME NEW u \in Users, NEW c \in Objs, NEW p \in Objs, CreateTemporary(u, c, p)
      PROVE  Exact'
  BY <1>3, CreateTemporaryKeepsExact
<1>4. ASSUME NEW c \in Objs, NEW p \in Objs, CreatePermanent(c, p)
      PROVE  Exact'
  BY <1>4, CreatePermanentKeepsExact
<1>5. ASSUME UNCHANGED <<server, channels, iId, bTemporary, qhChannels, cChannel, events, shared>>
      PROVE  Exact'
  BY <1>5 DEF Exact, OwnIds, HashMatches, EmptyTemporaryIsDue, Occupants
<1>6. ASSUME NEW c \in Objs, RemoveRequested(c)
      PROVE  Exact'
  <2>1. c \in channels \ {Root} /\ server = "up" /\ RemoveChannel(c, events)
    BY <1>6, KnownExist DEF RemoveRequested
  <2>2. events \in [Ids -> 0 .. MaxEvents]
    BY DEF Sound, TypeOK
  <2> QED
    BY <2>1, <2>2, RemovalKeepsExact
<1>7. ASSUME NEW i \in Ids, RunEvent(i)
      PROVE  Exact'
  <2> DEFINE pending == [events EXCEPT ![i] = @ - 1]
  <2>1. server = "up" /\ events[i] > 0 /\ TypeOK
    BY <1>7 DEF RunEvent, Sound
  <2>2. pending \in [Ids -> 0 .. MaxEvents] /\ \A j \in Ids \ {i} : pending[j] = events[j]
    BY <2>1, LimitAssumption DEF TypeOK
  <2>3. \A d \in channels \ shared : /\ iId[d] \in Ids /\ iId[d] \in DOMAIN qhChannels
                                     /\ qhChannels[iId[d]] = d
    BY <2>1 DEF Exact, HashMatches, TypeOK
  <2> HIDE DEF pending
  <2>4. CASE i \in DOMAIN qhChannels /\ RemoveChannel(qhChannels[i], pending)
    <3>1. qhChannels[i] \in channels \ {Root}
      BY <1>7, <2>1, <2>4, EventFindsTemporary
    <3>2. qhChannels[i] \in Subtree(qhChannels[i])
      BY <2>1, <3>1, RemovedPart DEF Sound, InMemory
    <3>3. \A d \in channels \ (Subtree(qhChannels[i]) \cup shared) :
              pending[iId[d]] = events[iId[d]]
      BY <2>2, <2>3, <3>2
    <3> QED
      BY <2>1, <2>2, <2>4, <3>1, <3>3, RemovalKeepsExact
  <2>5. CASE /\ i \notin DOMAIN qhChannels
             /\ events' = pending
             /\ UNCHANGED <<server, treeVars, cChannel, dbVars, shared>>
    <3>1. \A d \in channels \ shared : events'[iId[d]] = events[iId[d]]
      BY <2>2, <2>3, <2>5
    <3> QED
      BY <2>5, <3>1 DEF Exact, OwnIds, HashMatches, EmptyTemporaryIsDue, Occupants, treeVars
  <2> QED
    BY <1>7, <2>4, <2>5 DEF RunEvent, pending
<1>8. ASSUME NEW c \in Objs, NEW p \in Objs,
             MoveChannel(c, p) \/ Link(c, p) \/ Unlink(c, p)
      PROVE  Exact'
  BY <1>5, <1>8 DEF MoveChannel, Link, Unlink
<1>9. ASSUME NEW c \in Objs, NEW p \in Objs,
             PermanentBelowTemporary(c, p) \/ LinkRejectedByDatabase(c, p)
      PROVE  Exact'
  BY <1>9, HaltIsExact DEF PermanentBelowTemporary, LinkRejectedByDatabase, DatabaseError
<1>10. CASE Crash
  BY <1>10, HaltIsExact DEF Crash
<1>11. CASE Restart
  BY <1>11, RestartIsExact
<1>12. CASE UNCHANGED vars
  BY <1>5, <1>12 DEF vars, treeVars
<1> QED
  BY <1>2, <1>3, <1>4, <1>6, <1>7, <1>8, <1>9, <1>10, <1>11, <1>12 DEF Next

LEMMA AlwaysExact == Spec => []Exact
<1>1. Init => Exact
  BY ObjsAssumption DEF Init, Exact, OwnIds, HashMatches, EmptyTemporaryIsDue
<1>2. Sound /\ Sound' /\ Exact /\ [Next]_vars => Exact'
  BY ExactStep
<1> QED
  BY <1>1, <1>2, AlwaysSound, PTL DEF Spec

\* Whatever qhChannels finds is right, and it finds every channel by its id,
\* however ids are freed and given out again, but temporary ones that had
\* theirs in common with another (createNewChannel, Server.cpp:3128-3141).
THEOREM HashExact == Spec => []HashMatches
<1>1. Exact => HashMatches
  BY DEF Exact
<1> QED
  BY <1>1, AlwaysExact, PTL

\* A temporary channel that is empty has its removal posted (userEnterChannel,
\* connectionClosed), and no other step of the server takes that removal away,
\* unless its id was given to another one too.
THEOREM EmptyIsDue == Spec => []EmptyTemporaryIsDue
<1>1. Exact => EmptyTemporaryIsDue
  BY DEF Exact
<1> QED
  BY <1>1, AlwaysExact, PTL
=============================================================================
