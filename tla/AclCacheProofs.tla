----------------------------- MODULE AclCacheProofs -----------------------------
(***************************************************************************)
(* The permission cache says what an evaluation would say, editors stay    *)
(* in and no group keeps a member that has left: proofs for any channels,  *)
(* users, accounts and edits.                                              *)
(***************************************************************************)
EXTENDS AclCache, PermissionLemmas

\* Which handler the main thread is in, before and after it clears caches.
In(next) == main.at = next \/ (main.at = "clear" /\ main.next = next)

\* The values the variables have; the tree hangs from the root.
Typed ==
    /\ Evaluable
    /\ cParent \in [Channels -> Channels \cup {NoChannel}]
    /\ bInheritACL \in [Channels -> BOOLEAN]
    /\ DOMAIN qlACL = Channels
    /\ qhGroups \in [Channels -> GroupRecords \cup {NoGroup}]
    /\ \A c \in Channels : qhGroups[c] # NoGroup => qhGroups[c].temp \subseteq {-u : u \in Users}
    /\ iId \in [Users -> Accounts \cup {-1}]
    /\ cChannel \in [Users -> Channels \cup {NoChannel}]
    /\ qslAccessTokens \in [Users -> BOOLEAN]
    /\ registered \subseteq Accounts
    /\ acCache \in [Users -> [Channels -> (SUBSET Perms) \cup {NotCached}]]
    /\ bSuppress \in [Users -> BOOLEAN] /\ shown \in [Users -> BOOLEAN]
    /\ overlooked \subseteq Users

\* Where the main thread stands: an editor is there until it is done, and
\* whoever enters or leaves is not.
Standing ==
    /\ main \in [at : {"idle", "clear", "enter", "regrant", "clearTempGroups", "forget"},
                 next : {"idle", "enter", "regrant", "forget"},
                 whom : SUBSET Users, u : Users \cup {0}, c : Channels \cup {NoChannel}]
    /\ main.at = "idle" => main = Idle
    /\ In("enter") => main.u \in Users \ Online /\ main.c \in Channels
    /\ In("regrant") => main.u \in Online /\ main.c \in Channels
    /\ main.at = "clear" /\ main.next = "regrant" => main.whom = Users
    /\ main.at = "clearTempGroups" => main.u \in Users \ Online
    /\ In("forget") => main.u \in Users

\* No two users have the same account, also while one of them comes in; only
\* the one that is about to be forgotten has an account that is gone.
Ids ==
    LET present == Online \cup (IF In("enter") THEN {main.u} ELSE {})
    IN  /\ \A u \in present : \/ iId[u] \in registered \cup {-1}
                              \/ In("forget") /\ u = main.u
        /\ \A u, v \in present : iId[u] = iId[v] /\ iId[u] # -1 => u = v

\* A cache is wrong only while it is about to be cleared, or overlooked; before
\* msgACL is done, none is.
Fresh ==
    /\ \A u \in (Online \ overlooked) \ (IF main.at = "clear" THEN main.whom ELSE {}) : Agrees(u)
    /\ main.at = "regrant" => \A u \in Online : Agrees(u)

\* Once msgACL has added the entry for the editor, it is the last one.
LetIn ==
    main.at = "clear" /\ main.next = "idle" /\ main.u \in Users /\ main.c \in Channels =>
        LET s == qlACL[main.c] IN s # <<>> /\ s[Len(s)] = OwnEntry(main.u)

Inv == Typed /\ Standing /\ Ids /\ Fresh /\ LetIn /\ TempMembersPresent

-----------------------------------------------------------------------------
(* Caches that agree. *)

\* What a cache says of u is what an evaluation says.
Right(cache, u) ==
    \A c \in Channels : cache[u][c] # NotCached => cache[u][c] = EffectivePermissions(u, c)

\* The step changes none of u's permissions.
Unaffected(u) == \A c \in Channels : EffectivePermissions(u, c)' = EffectivePermissions(u, c)

\* A cache stays right when neither the permissions nor the cache change, or
\* when the cache changes to what is right.
LEMMA AgreesKept ==
    ASSUME NEW u, Unaffected(u), Right(acCache', u)
    PROVE  Agrees(u)'
BY DEF Unaffected, Right, Agrees

\* Nobody's permissions follow from the cache, the suppression, the accounts or
\* from other users.
LEMMA OthersUnaffected ==
    ASSUME NEW u, SameUser(u), UNCHANGED treeVars
    PROVE  Unaffected(u)
<1>1. Says(u)' = Says(u)
  BY SaysFrame DEF treeVars, SameUser
<1> QED
  BY <1>1, PermissionsFrame DEF treeVars, Unaffected

Caches == [Users -> [Channels -> (SUBSET Perms) \cup {NotCached}]]

\* Looking up channels adds what is right and leaves other users' entries.
LEMMA FilledRight ==
    ASSUME Evaluable, acCache \in Caches, NEW u \in Users, NEW cs
    PROVE  /\ Filled(acCache, u, cs) \in Caches
           /\ \A v \in Users : Agrees(v) => Right(Filled(acCache, u, cs), v)
<1>1. \A c \in Channels : EffectivePermissions(u, c) \in SUBSET Perms
  BY PermissionsType
<1> DEFINE row == [c \in Channels |-> IF c \in cs THEN Lookup(u, c) ELSE acCache[u][c]]
<1>2. row \in [Channels -> (SUBSET Perms) \cup {NotCached}]
  BY <1>1 DEF Lookup, Caches
<1>3. Filled(acCache, u, cs) = IF iId[u] = 0 THEN acCache ELSE [acCache EXCEPT ![u] = row]
  BY DEF Filled
<1>4. \A c \in Channels : row[c] = acCache[u][c] \/ row[c] = EffectivePermissions(u, c)
  BY DEF Lookup
<1> HIDE DEF row
<1>5. Filled(acCache, u, cs) \in Caches
  BY <1>2, <1>3 DEF Caches
<1>6. ASSUME NEW v \in Users, Agrees(v)
      PROVE  Right(Filled(acCache, u, cs), v)
  <2>1. Right(acCache, v)
    BY <1>6 DEF Agrees, Right
  <2> QED
    BY <1>3, <1>4, <2>1 DEF Right, Caches
<1> QED
  BY <1>5, <1>6

\* Looked up through a cache that agrees, a permission is what it is.
LEMMA LookupRight ==
    ASSUME NEW u, Agrees(u), NEW c \in Channels
    PROVE  Lookup(u, c) = EffectivePermissions(u, c)
BY DEF Lookup, Agrees

\* The state that handlers that are done, and those about to clear caches,
\* leave main in.
LEMMA Handlers ==
    /\ Idle.at = "idle"
    /\ \A whom, next, u, c :
          LET m == ClearFor(whom, next, u, c)
          IN  m.at = "clear" /\ m.next = next /\ m.whom = whom /\ m.u = u /\ m.c = c
    /\ \A u : LET m == ClearThen(u)
              IN  m.at = "clear" /\ m.next = "idle" /\ m.whom = {u} /\ m.u = u /\ m.c = NoChannel
BY DEF Idle, ClearFor, ClearThen

-----------------------------------------------------------------------------
(* The handlers, step by step. *)

LEMMA QueryKeeps ==
    ASSUME Inv, NEW u \in Users, NEW c \in Asked, Query(u, c)
    PROVE  Inv'
<1> USE DEF Query
<1>1. UNCHANGED <<treeVars, userVars, registered, bSuppress, shown, main, overlooked>>
  OBVIOUS
<1>2. Typed /\ Evaluable /\ acCache \in Caches
  BY DEF Inv, Typed, Caches
<1>3. acCache' \in Caches /\ \A v \in Users : Agrees(v) => Right(acCache', v)
  BY <1>2, FilledRight
<1>4. Typed'
  BY <1>1, <1>2, <1>3 DEF Typed, Evaluable, Caches, treeVars, userVars
<1>5. Standing' /\ Ids' /\ LetIn' /\ TempMembersPresent'
  <2>1. Online' = Online
    BY <1>1 DEF Online, userVars
  <2>2. Standing'
    BY <1>1, <2>1 DEF Inv, Standing, In
  <2>3. Ids'
    BY <1>1, <2>1 DEF Inv, Ids, In, userVars
  <2>4. LetIn'
    BY <1>1 DEF Inv, LetIn, OwnEntry, treeVars, userVars
  <2>5. TempMembersPresent'
    BY <1>1, <2>1 DEF Inv, TempMembersPresent, treeVars
  <2> QED
    BY <2>2, <2>3, <2>4, <2>5
<1>6. ASSUME NEW v \in Users, Agrees(v)
      PROVE  Agrees(v)'
  <2>1. Unaffected(v)
    BY <1>1, OthersUnaffected DEF SameUser, treeVars, userVars
  <2> QED
    BY <1>3, <1>6, <2>1, AgreesKept
<1>7. Fresh'
  <2>1. Online' = Online /\ overlooked' = overlooked /\ main' = main /\ Online \subseteq Users
    BY <1>1 DEF Online, userVars
  <2> QED
    BY <1>6, <2>1 DEF Inv, Fresh
<1> QED
  BY <1>4, <1>5, <1>7 DEF Inv

\* What clearACLCache leaves of a cache is right.
LEMMA ClearKeeps ==
    ASSUME Inv, ClearACLCache
    PROVE  Inv'
<1>1. /\ main.at = "clear" /\ UNCHANGED <<treeVars, userVars, registered>>
      /\ \/ main.next = "idle" /\ main' = Idle /\ overlooked' = overlooked \ main.whom
         \/ main.next # "idle" /\ main' = [main EXCEPT !.at = main.next] /\ overlooked' = overlooked
  BY DEF ClearACLCache
<1>2. Typed /\ Evaluable /\ acCache \in Caches /\ Standing /\ Online \subseteq Users /\ Online' = Online
  BY <1>1 DEF Inv, Typed, Caches, Online, userVars
<1>3. PICK told : acCache' = Refilled(Cleared(main.whom), main.whom, told)
  BY DEF ClearACLCache
<1>4. \A v \in Users, c \in Channels :
         acCache'[v][c] = IF v \in main.whom /\ iId[v] # 0 /\ (c = cChannel[v] \/ <<v, c>> \in told)
                          THEN EffectivePermissions(v, c)
                          ELSE IF v \in main.whom THEN NotCached ELSE acCache[v][c]
  BY <1>3 DEF Refilled, Cleared, Empty
<1>5. acCache' \in Caches
  <2>1. \A v : \A c \in Channels : EffectivePermissions(v, c) \in SUBSET Perms
    BY <1>2, PermissionsType
  <2> DEFINE row(v) == [c \in Channels |->
                IF v \in main.whom /\ iId[v] # 0 /\ (c = cChannel[v] \/ <<v, c>> \in told)
                THEN EffectivePermissions(v, c) ELSE Cleared(main.whom)[v][c]]
  <2>2. acCache' = [v \in Users |-> row(v)]
    BY <1>3 DEF Refilled
  <2>3. \A v \in Users : row(v) \in [Channels -> (SUBSET Perms) \cup {NotCached}]
    <3> TAKE v \in Users
    <3>1. Cleared(main.whom)[v] \in [Channels -> (SUBSET Perms) \cup {NotCached}]
      BY <1>2 DEF Cleared, Empty, Caches
    <3> QED
      BY <2>1, <3>1
  <2> HIDE DEF row
  <2> QED
    BY <2>2, <2>3 DEF Caches
<1>6. Typed'
  <2>1. bSuppress' \in [Users -> BOOLEAN] /\ shown' \in [Users -> BOOLEAN]
    BY DEF ClearACLCache
  <2>2. overlooked' \subseteq Users
    BY <1>1, <1>2 DEF Typed
  <2> QED
    BY <1>1, <1>2, <1>5, <2>1, <2>2 DEF Typed, Evaluable, Caches, treeVars, userVars
<1>7. Standing'
  BY <1>1, <1>2 DEF Standing, In, Idle
<1>8. Ids'
  BY <1>1, <1>2, <1>7 DEF Inv, Ids, In, Idle, Standing, userVars
<1>9. \A v \in Users : (v \in main.whom \/ Agrees(v)) => Agrees(v)'
  <2> SUFFICES ASSUME NEW v \in Users, v \in main.whom \/ Agrees(v) PROVE Agrees(v)'
    OBVIOUS
  <2>1. Unaffected(v)
    BY <1>1, OthersUnaffected DEF SameUser, userVars
  <2>2. Right(acCache', v)
    BY <1>4 DEF Right, Agrees
  <2> QED
    BY <2>1, <2>2, AgreesKept
<1>10. Fresh'
  <2>1. CASE main.next = "idle"
    BY <1>1, <1>2, <1>9, <2>1 DEF Inv, Fresh, Idle
  <2>2. CASE main.next # "idle"
    BY <1>1, <1>2, <1>9, <2>2 DEF Inv, Fresh, Standing
  <2> QED
    BY <2>1, <2>2
<1>11. LetIn'
  BY <1>1, <1>2 DEF LetIn, Idle, Standing
<1>12. TempMembersPresent'
  BY <1>1, <1>2 DEF Inv, TempMembersPresent, treeVars
<1> QED
  BY <1>6, <1>7, <1>8, <1>10, <1>11, <1>12 DEF Inv

\* A handler that is about to clear the cache of one user has left the others'
\* as they were.
LEMMA FreshButOne ==
    ASSUME Fresh, main.at # "clear", NEW u, main'.at = "clear", u \in main'.whom,
           overlooked' = overlooked, Online' \ {u} \subseteq Online,
           \A v \in Online \ {u} : Agrees(v) => Agrees(v)'
    PROVE  Fresh'
BY DEF Fresh

\* With what groups and entries say unchanged, a step that touches only u and
\* fills only u's cache leaves the others' right.
LEMMA OthersAgree ==
    ASSUME NEW u, NEW v, Agrees(v), SameUser(v), UNCHANGED treeVars, acCache'[v] = acCache[v]
    PROVE  Agrees(v)'
<1>1. Unaffected(v)
  BY OthersUnaffected
<1>2. Right(acCache', v)
  BY DEF Agrees, Right
<1> QED
  BY <1>1, <1>2, AgreesKept

\* Nobody is in a handler's way while main is idle.
LEMMA IdleIn ==
    ASSUME main = Idle
    PROVE  /\ ~In("enter") /\ ~In("regrant") /\ ~In("forget")
           /\ main.at = "idle" /\ main.next = "idle"
BY DEF In, Idle

LEMMA AuthenticateKeeps ==
    ASSUME Inv, NEW u \in Users, NEW id \in registered \cup {-1}, NEW tokens \in BOOLEAN,
           NEW c \in Channels, Authenticate(u, id, tokens, c)
    PROVE  Inv'
<1>1. /\ main = Idle /\ u \notin Online /\ \A v \in Online : id # -1 => iId[v] # id
      /\ iId' = [iId EXCEPT ![u] = id]
      /\ qslAccessTokens' = [qslAccessTokens EXCEPT ![u] = tokens]
      /\ bSuppress' = [bSuppress EXCEPT ![u] = FALSE] /\ shown' = [shown EXCEPT ![u] = FALSE]
      /\ UNCHANGED <<treeVars, cChannel, registered, acCache, overlooked>>
  BY DEF Authenticate
<1>2. main' = [at |-> "clear", next |-> "enter", whom |-> {u}, u |-> u, c |-> c]
  BY DEF Authenticate, ClearFor
<1>3. Typed /\ Evaluable /\ Standing /\ Online \subseteq Users /\ Online' = Online
  BY <1>1 DEF Inv, Typed, Online
<1>4. Typed'
  BY <1>1, <1>3 DEF Typed, Evaluable, treeVars
<1>5. Standing'
  BY <1>1, <1>2, <1>3 DEF Standing, In
<1>6. Ids'
  <2>1. Ids /\ ~In("enter") /\ ~In("forget")
    BY <1>1, IdleIn DEF Inv
  <2>2. In("enter")' /\ main.u' = u /\ u \notin Online
    BY <1>1, <1>2 DEF In
  <2>3. iId'[u] = id /\ \A v \in Online : iId'[v] = iId[v]
    BY <1>1, <1>3 DEF Typed
  <2> QED
    BY <1>1, <1>3, <2>1, <2>2, <2>3 DEF Ids
<1>7. Fresh'
  <2>1. \A v \in Online \ {u} : Agrees(v) => Agrees(v)'
    BY <1>1, <1>3, OthersAgree DEF SameUser, Typed
  <2> QED
    BY <1>1, <1>2, <1>3, <2>1, FreshButOne DEF Inv, Idle
<1>8. LetIn'
  BY <1>2 DEF LetIn
<1>9. TempMembersPresent'
  BY <1>1, <1>3 DEF Inv, TempMembersPresent, treeVars, Idle
<1> QED
  BY <1>4, <1>5, <1>6, <1>7, <1>8, <1>9 DEF Inv

\* Coming into a channel, from outside or from another one.
LEMMA EntersKeeps ==
    ASSUME Inv, NEW u \in Users, NEW c \in Channels, Enters(u, c), main.at \in {"idle", "enter"},
           acCache' \in Caches, \A v \in Users : Agrees(v) => Right(acCache', v),
           \/ main.at = "idle" /\ u \in Online
           \/ main.at = "enter" /\ main.u = u
    PROVE  Inv'
<1>1. /\ cChannel' = [cChannel EXCEPT ![u] = c]
      /\ UNCHANGED <<treeVars, iId, qslAccessTokens, registered, overlooked>>
      /\ main' = [at |-> "clear", next |-> "idle", whom |-> {u}, u |-> u, c |-> NoChannel]
  BY DEF Enters, ClearThen, ClearFor
<1>2. Typed /\ Evaluable /\ Standing /\ Online \subseteq Users
  BY DEF Inv, Typed, Online
<1>3. Online' = Online \cup {u}
  BY <1>1, <1>2, RootAssumption DEF Online, Typed
<1>4. Typed'
  <2>1. bSuppress' \in [Users -> BOOLEAN]
    BY <1>2 DEF Enters, Typed
  <2>2. shown' \in [Users -> BOOLEAN]
    BY <1>2, <2>1 DEF Enters, Typed
  <2> QED
    BY <1>1, <1>2, <2>1, <2>2 DEF Typed, Evaluable, Caches, treeVars
<1>5. Standing'
  BY <1>1, <1>2, RootAssumption DEF Standing, In
<1>6. Ids'
  <2>1. ~In("enter")' /\ ~In("forget") /\ (main.at = "enter" => In("enter"))
    BY <1>1 DEF In
  <2>2. \A v \in Online' : v \in Online \/ (In("enter") /\ v = main.u)
    BY <1>3, <2>1
  <2> QED
    BY <1>1, <2>1, <2>2 DEF Inv, Ids
<1>7. Fresh'
  <2>1. ASSUME NEW v \in Online \ {u}, Agrees(v)
        PROVE  Agrees(v)'
    <3>1. Unaffected(v)
      BY <1>1, <1>2, OthersUnaffected DEF SameUser, Typed
    <3> QED
      BY <1>2, <2>1, <3>1, AgreesKept
  <2> QED
    BY <1>1, <1>3, <2>1, FreshButOne DEF Inv
<1>8. LetIn'
  BY <1>1, RootAssumption DEF LetIn
<1>9. TempMembersPresent'
  BY <1>1, <1>3 DEF Inv, TempMembersPresent, treeVars
<1> QED
  BY <1>4, <1>5, <1>6, <1>7, <1>8, <1>9 DEF Inv

LEMMA EnterAfterAuthenticateKeeps ==
    ASSUME Inv, EnterAfterAuthenticate
    PROVE  Inv'
<1>1. Evaluable /\ acCache \in Caches /\ main.u \in Users
  BY DEF EnterAfterAuthenticate, Inv, Typed, Standing, Caches, In
<1>2. acCache' = Filled(acCache, main.u, {main.c})
  BY DEF EnterAfterAuthenticate
<1>3. acCache' \in Caches /\ \A v \in Users : Agrees(v) => Right(acCache', v)
  BY <1>1, <1>2, FilledRight
<1> QED
  BY <1>3, EntersKeeps DEF EnterAfterAuthenticate

LEMMA UserEnterChannelKeeps ==
    ASSUME Inv, NEW u \in Users, NEW c \in Channels, UserEnterChannel(u, c)
    PROVE  Inv'
<1>1. acCache' \in Caches /\ \A v \in Users : Agrees(v) => Right(acCache', v)
  BY DEF UserEnterChannel, Inv, Typed, Caches, Agrees, Right
<1> QED
  BY <1>1, EntersKeeps DEF UserEnterChannel, Idle

LEMMA SetTokensKeeps ==
    ASSUME Inv, NEW u \in Users, NEW tokens \in BOOLEAN, SetTokens(u, tokens)
    PROVE  Inv'
<1>1. /\ main = Idle /\ u \in Online
      /\ qslAccessTokens' = [qslAccessTokens EXCEPT ![u] = tokens]
      /\ UNCHANGED <<treeVars, iId, cChannel, registered, acCache, bSuppress, shown, overlooked>>
      /\ main' = [at |-> "clear", next |-> "idle", whom |-> {u}, u |-> u, c |-> NoChannel]
  BY DEF SetTokens, ClearThen, ClearFor
<1>2. Typed /\ Evaluable /\ Standing /\ Online \subseteq Users /\ Online' = Online
  BY <1>1 DEF Inv, Typed, Online
<1>3. Typed'
  BY <1>1, <1>2 DEF Typed, Evaluable, treeVars
<1>4. Standing'
  BY <1>1, <1>2 DEF Standing, In
<1>5. Ids'
  <2>1. ~In("enter") /\ ~In("enter")' /\ ~In("forget")
    BY <1>1, IdleIn DEF In
  <2> QED
    BY <1>1, <1>2, <2>1 DEF Inv, Ids
<1>6. Fresh'
  <2>1. \A v \in Online \ {u} : Agrees(v) => Agrees(v)'
    BY <1>1, <1>2, OthersAgree DEF SameUser, Typed
  <2> QED
    BY <1>1, <1>2, <2>1, FreshButOne DEF Inv, Idle
<1>7. LetIn'
  BY <1>1, RootAssumption DEF LetIn
<1>8. TempMembersPresent'
  BY <1>1, <1>2 DEF Inv, TempMembersPresent, treeVars, Idle
<1> QED
  BY <1>3, <1>4, <1>5, <1>6, <1>7, <1>8 DEF Inv

LEMMA ConnectionClosedKeeps ==
    ASSUME Inv, NEW u \in Users, ConnectionClosed(u)
    PROVE  Inv'
<1>1. /\ main = Idle /\ u \in Online
      /\ cChannel' = [cChannel EXCEPT ![u] = NoChannel]
      /\ main' = [Idle EXCEPT !.at = "clearTempGroups", !.u = u]
      /\ UNCHANGED <<treeVars, iId, qslAccessTokens, registered, acCache, bSuppress, shown, overlooked>>
  BY DEF ConnectionClosed
<1>2. Typed /\ Evaluable /\ Standing /\ Online \subseteq Users /\ Online' = Online \ {u}
  BY <1>1 DEF Inv, Typed, Online
<1>3. main' = [at |-> "clearTempGroups", next |-> "idle", whom |-> {}, u |-> u, c |-> NoChannel]
  BY <1>1 DEF Idle
<1>4. Typed'
  BY <1>1, <1>2 DEF Typed, Evaluable, treeVars
<1>5. Standing'
  BY <1>2, <1>3 DEF Standing, In
<1>6. Ids'
  <2>1. ~In("enter") /\ ~In("enter")' /\ ~In("forget")
    BY <1>1, <1>3, IdleIn DEF In
  <2> QED
    BY <1>1, <1>2, <2>1 DEF Inv, Ids
<1>7. Fresh'
  <2>1. \A v \in Online \ {u} : Agrees(v) => Agrees(v)'
    BY <1>1, <1>2, OthersAgree DEF SameUser, Typed
  <2> QED
    BY <1>1, <1>2, <1>3, <2>1 DEF Inv, Fresh, Idle
<1>8. LetIn'
  BY <1>3 DEF LetIn
<1>9. TempMembersPresent'
  BY <1>1, <1>2, <1>3 DEF Inv, TempMembersPresent, treeVars, Idle
<1> QED
  BY <1>4, <1>5, <1>6, <1>7, <1>8, <1>9 DEF Inv

\* A negative session id is nobody's account.
LEMMA SessionNoAccount ==
    ASSUME Typed, NEW u \in Users, NEW v \in Users
    PROVE  iId[v] # -u /\ (-u = -v => u = v)
<1>1. u \in Nat /\ v \in Nat /\ u # 0 /\ u # 1
  BY SessionsAssumption, AccountsAssumption
<1>2. iId[v] \in Nat \/ iId[v] = -1
  BY AccountsAssumption DEF Typed
<1> QED
  BY <1>1, <1>2

\* g and h are groups that say the same of v.
SameFor(v, g, h) ==
    /\ h \in GroupRecords /\ h.inherit = g.inherit /\ h.inheritable = g.inheritable
    /\ iId[v] \in h.add <=> iId[v] \in g.add
    /\ iId[v] \in h.remove <=> iId[v] \in g.remove
    /\ Temporary(h, v) <=> Temporary(g, v)

\* A channel without a group says what an empty group says.
LEMMA SaysOfOthers ==
    ASSUME Typed, NEW v \in Users, iId'[v] = iId[v],
           \A c \in Channels : qhGroups'[c] = qhGroups[c] \/ SameFor(v, GroupOf(c), qhGroups'[c])
    PROVE  Says(v)' = Says(v)
<1>1. ASSUME NEW c \in Channels
      PROVE  Says(v)'[c] = Says(v)[c]
  <2>1. CASE qhGroups'[c] = qhGroups[c]
    BY <2>1 DEF Says, Temporary
  <2>2. CASE SameFor(v, GroupOf(c), qhGroups'[c])
    <3>1. qhGroups'[c] # NoGroup
      BY <2>2, NoGroupAssumption DEF SameFor
    <3>2. Says(v)'[c] = [inheritable |-> GroupOf(c).inheritable, inherit |-> GroupOf(c).inherit,
                         removes |-> iId[v] \in GroupOf(c).remove,
                         adds |-> iId[v] \in GroupOf(c).add \/ Temporary(GroupOf(c), v)]
      BY <2>2, <3>1 DEF SameFor, Says, Temporary
    <3>3. Says(v)[c] = [inheritable |-> GroupOf(c).inheritable, inherit |-> GroupOf(c).inherit,
                        removes |-> iId[v] \in GroupOf(c).remove,
                        adds |-> iId[v] \in GroupOf(c).add \/ Temporary(GroupOf(c), v)]
      <4>1. CASE qhGroups[c] # NoGroup
        BY <4>1 DEF Says, GroupOf
      <4>2. CASE qhGroups[c] = NoGroup
        <5>1. /\ GroupOf(c).inherit = TRUE /\ GroupOf(c).inheritable = TRUE
              /\ (iId[v] \in GroupOf(c).remove) = FALSE
              /\ (iId[v] \in GroupOf(c).add \/ Temporary(GroupOf(c), v)) = FALSE
          BY <4>2 DEF GroupOf, NewGroup, Temporary
        <5> HIDE DEF GroupOf
        <5>2. Says(v)[c] = [inheritable |-> TRUE, inherit |-> TRUE, removes |-> FALSE, adds |-> FALSE]
          BY <4>2 DEF Says
        <5> QED
          BY <5>1, <5>2
      <4> QED
        BY <4>1, <4>2
    <3> QED
      BY <3>2, <3>3
  <2> QED
    BY <1>1, <2>1, <2>2
<1> QED
  BY <1>1 DEF Says

LEMMA ClearTempGroupsKeeps ==
    ASSUME Inv, ClearTempGroups
    PROVE  Inv'
<1> DEFINE u == main.u
<1>1. /\ main.at = "clearTempGroups"
      /\ qhGroups' = [c \in Channels |->
                         IF qhGroups[c] # NoGroup
                         THEN [qhGroups[c] EXCEPT !.temp = @ \ {iId[u], -u}]
                         ELSE qhGroups[c]]
      /\ main' = [at |-> "clear", next |-> "idle", whom |-> {u}, u |-> u, c |-> NoChannel]
      /\ UNCHANGED <<cParent, bInheritACL, qlACL, userVars, registered, acCache,
                     bSuppress, shown, overlooked>>
  BY DEF ClearTempGroups, TempGroupsOf, ClearThen, ClearFor
<1>2. Typed /\ Evaluable /\ Standing /\ Online \subseteq Users /\ Online' = Online
      /\ u \in Users \ Online
  BY <1>1 DEF Inv, Typed, Online, userVars, Standing
<1> HIDE DEF u
<1>3. ASSUME NEW c \in Channels
      PROVE  \/ qhGroups[c] = NoGroup /\ qhGroups'[c] = NoGroup
             \/ /\ qhGroups[c] \in GroupRecords
                /\ qhGroups'[c] = [qhGroups[c] EXCEPT !.temp = @ \ {iId[u], -u}]
                /\ qhGroups'[c] \in GroupRecords /\ qhGroups'[c].temp = qhGroups[c].temp \ {iId[u], -u}
                /\ qhGroups[c].temp \subseteq {-v : v \in Users}
  <2>1. /\ qhGroups[c] \in GroupRecords \cup {NoGroup}
        /\ qhGroups[c] # NoGroup => qhGroups[c].temp \subseteq {-v : v \in Users}
    BY <1>2 DEF Typed
  <2>2. qhGroups'[c] = IF qhGroups[c] # NoGroup
                       THEN [qhGroups[c] EXCEPT !.temp = @ \ {iId[u], -u}] ELSE qhGroups[c]
    BY <1>1
  <2>3. \A g \in GroupRecords : \A S : LET h == [g EXCEPT !.temp = @ \ S]
                                     IN  h \in GroupRecords /\ h.temp = g.temp \ S
    BY DEF GroupRecords
  <2> QED
    BY <2>1, <2>2, <2>3
<1>4. Typed'
  <2>1. qhGroups' \in [Channels -> GroupRecords \cup {NoGroup}]
    BY <1>1, <1>3
  <2>2. \A c \in Channels : qhGroups'[c] # NoGroup => qhGroups'[c].temp \subseteq {-v : v \in Users}
    BY <1>3
  <2> QED
    BY <1>1, <1>2, <2>1, <2>2 DEF Typed, Evaluable, userVars
<1>5. Standing'
  BY <1>1, <1>2, RootAssumption DEF Standing, In
<1>6. Ids'
  <2>1. ~In("enter") /\ ~In("enter")' /\ ~In("forget")
    BY <1>1 DEF In
  <2> QED
    BY <1>1, <1>2, <2>1 DEF Inv, Ids, userVars
<1>7. Fresh'
  <2>1. ASSUME NEW v \in Online \ {u}, Agrees(v)
        PROVE  Agrees(v)'
    <3>1. \A c \in Channels : qhGroups'[c] = qhGroups[c] \/ SameFor(v, GroupOf(c), qhGroups'[c])
      <4> SUFFICES ASSUME NEW c \in Channels, qhGroups'[c] # qhGroups[c]
                   PROVE  SameFor(v, GroupOf(c), qhGroups'[c])
        OBVIOUS
      <4>3. /\ GroupOf(c) = qhGroups[c] /\ qhGroups[c] \in GroupRecords
            /\ qhGroups'[c] = [qhGroups[c] EXCEPT !.temp = @ \ {iId[u], -u}]
            /\ qhGroups'[c] \in GroupRecords /\ qhGroups'[c].temp = qhGroups[c].temp \ {iId[u], -u}
            /\ qhGroups[c].temp \subseteq {-w : w \in Users}
        BY <1>3, NoGroupAssumption DEF GroupOf
      <4>1. iId[v] \notin qhGroups[c].temp /\ iId[v] \notin qhGroups'[c].temp
        <5>1. \A w \in Users : iId[v] # -w
          BY <1>2, SessionNoAccount
        <5> QED
          BY <4>3, <5>1
      <4>2. -v # -u /\ -v # iId[u]
        BY <1>2, <2>1, SessionNoAccount
      <4> QED
        BY <4>1, <4>2, <4>3 DEF SameFor, Temporary, GroupRecords
    <3>2. Says(v)' = Says(v)
      BY <1>1, <1>2, <3>1, SaysOfOthers DEF userVars
    <3>3. Unaffected(v)
      BY <1>1, <3>2, PermissionsFrame DEF Unaffected, SameUser, userVars
    <3>4. Right(acCache', v)
      BY <1>1, <2>1 DEF Agrees, Right
    <3> QED
      BY <3>3, <3>4, AgreesKept
  <2> QED
    BY <1>1, <1>2, <2>1, FreshButOne DEF Inv
<1>8. LetIn'
  BY <1>1, RootAssumption DEF LetIn
<1>9. TempMembersPresent'
  <2> SUFFICES ASSUME NEW c \in Channels, qhGroups'[c] # NoGroup, NEW v \in Users, -v \in qhGroups'[c].temp
               PROVE  v \in Online
    BY <1>2 DEF TempMembersPresent
  <2>1. -v \in qhGroups[c].temp /\ v # u /\ qhGroups[c] # NoGroup
    <3>1. qhGroups[c] # NoGroup /\ qhGroups'[c].temp = qhGroups[c].temp \ {iId[u], -u}
      BY <1>3, NoGroupAssumption
    <3> QED
      BY <3>1
  <2> QED
    BY <1>1, <2>1 DEF Inv, TempMembersPresent, u
<1> QED
  BY <1>4, <1>5, <1>6, <1>7, <1>8, <1>9 DEF Inv

\* A user becomes or ceases to be a temporary member, or stays what it is.
LEMMA RegroupKeeps ==
    ASSUME Inv, NEW u \in Users, NEW c \in Channels,
           NEW temp, temp \in {GroupOf(c).temp \cup {-u}, GroupOf(c).temp \ {-u}},
           Regroup(u, c, temp)
    PROVE  Inv'
<1>1. /\ main = Idle /\ u \in Online
      /\ qhGroups' = [qhGroups EXCEPT ![c] = [GroupOf(c) EXCEPT !.temp = temp]]
      /\ main' = [at |-> "clear", next |-> "idle", whom |-> {u}, u |-> u, c |-> NoChannel]
      /\ UNCHANGED <<cParent, bInheritACL, qlACL, userVars, registered, acCache,
                     bSuppress, shown, overlooked>>
  BY DEF Regroup, ClearThen, ClearFor
<1>2. Typed /\ Evaluable /\ Standing /\ Online \subseteq Users /\ Online' = Online
  BY <1>1 DEF Inv, Typed, Online, userVars
<1>3. /\ GroupOf(c) \in GroupRecords /\ GroupOf(c).temp \subseteq {-v : v \in Users}
      /\ temp \subseteq {-v : v \in Users} /\ temp \in SUBSET Int
  <2>1. GroupOf(c) \in GroupRecords /\ GroupOf(c).temp \subseteq {-v : v \in Users}
    BY <1>2 DEF GroupOf, NewGroup, Typed, GroupRecords
  <2>2. -u \in Int /\ \A v \in Users : -v \in Int
    BY SessionsAssumption
  <2> HIDE DEF GroupOf
  <2> QED
    BY <2>1, <2>2
<1>4. /\ qhGroups'[c] \in GroupRecords /\ qhGroups'[c].temp = temp
      /\ qhGroups'[c].add = GroupOf(c).add /\ qhGroups'[c].remove = GroupOf(c).remove
      /\ qhGroups'[c].inherit = GroupOf(c).inherit /\ qhGroups'[c].inheritable = GroupOf(c).inheritable
      /\ \A d \in Channels \ {c} : qhGroups'[d] = qhGroups[d]
  BY <1>1, <1>2, <1>3 DEF Typed, GroupRecords
<1>5. Typed'
  <2>1. qhGroups' \in [Channels -> GroupRecords \cup {NoGroup}]
    BY <1>1, <1>2, <1>4 DEF Typed
  <2>2. \A d \in Channels : qhGroups'[d] # NoGroup => qhGroups'[d].temp \subseteq {-v : v \in Users}
    BY <1>2, <1>3, <1>4 DEF Typed
  <2> QED
    BY <1>1, <1>2, <2>1, <2>2 DEF Typed, Evaluable, userVars
<1>6. Standing'
  BY <1>1, <1>2, RootAssumption DEF Standing, In
<1>7. Ids'
  <2>1. ~In("enter") /\ ~In("enter")' /\ ~In("forget")
    BY <1>1, IdleIn DEF In
  <2> QED
    BY <1>1, <1>2, <2>1 DEF Inv, Ids, userVars
<1>8. Fresh'
  <2>1. ASSUME NEW v \in Online \ {u}, Agrees(v)
        PROVE  Agrees(v)'
    <3>1. SameFor(v, GroupOf(c), qhGroups'[c])
      <4>1. iId[v] \notin GroupOf(c).temp /\ iId[v] \notin temp
        BY <1>2, <1>3, SessionNoAccount
      <4>2. -v # -u
        BY <1>2, <2>1, SessionNoAccount
      <4> QED
        BY <1>4, <4>1, <4>2 DEF SameFor, Temporary
    <3>2. Says(v)' = Says(v)
      <4>1. \A d \in Channels : qhGroups'[d] = qhGroups[d] \/ SameFor(v, GroupOf(d), qhGroups'[d])
        BY <1>4, <3>1
      <4> QED
        BY <1>1, <1>2, <4>1, SaysOfOthers DEF userVars
    <3>3. Unaffected(v)
      BY <1>1, <3>2, PermissionsFrame DEF Unaffected, SameUser, userVars
    <3>4. Right(acCache', v)
      BY <1>1, <2>1 DEF Agrees, Right
    <3> QED
      BY <3>3, <3>4, AgreesKept
  <2> QED
    BY <1>1, <1>2, <2>1, FreshButOne DEF Inv, Idle
<1>9. LetIn'
  BY <1>1, RootAssumption DEF LetIn
<1>10. TempMembersPresent'
  <2> SUFFICES ASSUME NEW d \in Channels, qhGroups'[d] # NoGroup, NEW v \in Users, -v \in qhGroups'[d].temp
               PROVE  v \in Online
    BY <1>2 DEF TempMembersPresent
  <2>1. CASE v = u
    BY <1>1, <2>1
  <2>2. CASE v # u
    <3>1. -v # -u
      BY <2>2, <1>2, SessionNoAccount
    <3>2. qhGroups[d] # NoGroup /\ -v \in qhGroups[d].temp
      BY <1>4, <3>1 DEF GroupOf, NewGroup
    <3> QED
      BY <1>1, <3>2 DEF Inv, TempMembersPresent, Idle
  <2> QED
    BY <2>1, <2>2
<1> QED
  BY <1>5, <1>6, <1>7, <1>8, <1>9, <1>10 DEF Inv

\* Entries and a group are replaced and all caches are to be cleared.
LEMMA PutKeeps ==
    ASSUME Inv, main = Idle, NEW c \in Channels, NEW edit \in Edits,
           NEW entries, IsEntries(entries), NEW group \in GroupRecords \cup {NoGroup},
           Put(c, edit, entries, group), acCache' \in Caches,
           NEW next, NEW u, main' = ClearFor(Users, next, u, c),
           (next = "idle" /\ u = 0) \/ (next = "regrant" /\ u \in Online)
    PROVE  Inv'
<1>1. /\ bInheritACL' = [bInheritACL EXCEPT ![c] = edit.inherit]
      /\ qlACL' = [qlACL EXCEPT ![c] = entries]
      /\ qhGroups' = [qhGroups EXCEPT ![c] =
                         IF group = NoGroup THEN NoGroup
                         ELSE [group EXCEPT !.temp = IF qhGroups[c] = NoGroup THEN {}
                                                     ELSE qhGroups[c].temp]]
      /\ UNCHANGED <<cParent, userVars, registered, bSuppress, shown, overlooked>>
      /\ main' = [at |-> "clear", next |-> next, whom |-> Users, u |-> u, c |-> c]
  BY DEF Put, ClearFor
<1>2. Typed /\ Evaluable /\ Standing /\ Online \subseteq Users /\ Online' = Online
  BY <1>1 DEF Inv, Typed, Online, userVars
<1>3. ASSUME NEW d \in Channels, qhGroups'[d] # NoGroup
      PROVE  /\ qhGroups'[d] \in GroupRecords
             /\ \/ qhGroups'[d].temp = {}
                \/ qhGroups[d] # NoGroup /\ qhGroups'[d].temp = qhGroups[d].temp
  <2>1. CASE d # c
    BY <1>1, <1>2, <1>3, <2>1 DEF Typed
  <2>2. CASE d = c
    <3>1. /\ group # NoGroup /\ group \in GroupRecords
          /\ qhGroups'[c] = [group EXCEPT !.temp = IF qhGroups[c] = NoGroup THEN {}
                                                   ELSE qhGroups[c].temp]
      BY <1>1, <1>2, <1>3, <2>2 DEF Typed
    <3>2. qhGroups[c] # NoGroup => qhGroups[c].temp \in SUBSET Int
      BY <1>2 DEF Typed, GroupRecords
    <3> QED
      BY <2>2, <3>1, <3>2 DEF GroupRecords
  <2> QED
    BY <2>1, <2>2
<1>4. Typed'
  <2>1. qhGroups' \in [Channels -> GroupRecords \cup {NoGroup}]
    <3>1. qhGroups' = [d \in Channels |-> qhGroups'[d]]
      BY <1>1, <1>2 DEF Typed
    <3> QED
      BY <1>3, <3>1
  <2>2. \A d \in Channels : qhGroups'[d] # NoGroup => qhGroups'[d].temp \subseteq {-v : v \in Users}
    BY <1>2, <1>3 DEF Typed
  <2>3. /\ DOMAIN qlACL' = Channels /\ \A d \in Channels : IsEntries(qlACL'[d])
        /\ bInheritACL' \in [Channels -> BOOLEAN]
    BY <1>1, <1>2, EditsAssumption DEF Typed, Evaluable
  <2>4. Evaluable'
    BY <1>1, <1>2, <2>3 DEF Evaluable
  <2> QED
    BY <1>1, <1>2, <2>1, <2>2, <2>3, <2>4 DEF Typed, userVars, Caches
<1>5. Standing'
  BY <1>1, <1>2 DEF Standing, In
<1>6. Ids'
  <2>1. ~In("enter") /\ ~In("enter")' /\ ~In("forget")
    BY <1>1, IdleIn DEF In
  <2> QED
    BY <1>1, <1>2, <2>1 DEF Inv, Ids, userVars
<1>7. Fresh'
  BY <1>1, <1>2 DEF Fresh
<1>8. LetIn'
  BY <1>1, SessionsAssumption DEF LetIn
<1>9. TempMembersPresent'
  <2> SUFFICES ASSUME NEW d \in Channels, qhGroups'[d] # NoGroup, NEW v \in Users, -v \in qhGroups'[d].temp
               PROVE  v \in Online
    BY <1>2 DEF TempMembersPresent
  <2>1. qhGroups[d] # NoGroup /\ -v \in qhGroups[d].temp
    BY <1>3
  <2> QED
    BY <2>1 DEF Inv, TempMembersPresent, Idle
<1> QED
  BY <1>4, <1>5, <1>6, <1>7, <1>8, <1>9 DEF Inv

LEMMA SetACLKeeps ==
    ASSUME Inv, NEW edit \in Edits, SetACL(edit.c, edit)
    PROVE  Inv'
<1>1. /\ edit.c \in Channels /\ IsEntries(edit.acls) /\ edit.group \in GroupRecords \cup {NoGroup}
  BY EditsAssumption DEF IsEntries
<1>2. acCache' \in Caches
  BY DEF SetACL, Inv, Typed, Caches
<1> QED
  BY <1>1, <1>2, PutKeeps DEF SetACL

LEMMA MsgACLKeeps ==
    ASSUME Inv, NEW u \in Users, NEW edit \in Edits, MsgACL(u, edit.c, edit)
    PROVE  Inv'
<1>1. /\ edit.c \in Channels /\ IsEntries(edit.acls) /\ edit.group \in GroupRecords \cup {NoGroup}
  BY EditsAssumption DEF IsEntries
<1>2. IsEntries(Known(edit.acls))
  BY <1>1, EntriesLeft DEF Known
<1>3. KnownMembers(edit.group) \in GroupRecords \cup {NoGroup}
  <2>1. CASE edit.group = NoGroup
    BY <2>1 DEF KnownMembers
  <2>2. CASE edit.group # NoGroup
    BY <1>1, <2>2 DEF KnownMembers, GroupRecords
  <2> QED
    BY <2>1, <2>2
<1>4. acCache' \in Caches
  <2>1. Evaluable /\ acCache \in Caches
    BY DEF Inv, Typed, Caches
  <2> QED
    BY <2>1, FilledRight DEF MsgACL
<1> QED
  BY <1>1, <1>2, <1>3, <1>4, PutKeeps DEF MsgACL

LEMMA OwnEntryIsEntry ==
    ASSUME Typed, NEW u \in Users
    PROVE  IsEntry(OwnEntry(u))
<1>1. iId[u] \in Int /\ (iId[u] # -1 => iId[u] >= 0)
  <2>1. iId[u] \in Accounts \/ iId[u] = -1
    BY DEF Typed
  <2>2. iId[u] \in Nat \/ iId[u] = -1
    BY <2>1, AccountsAssumption
  <2> QED
    BY <2>2
<1> DEFINE name == IF iId[u] >= 0 THEN "" ELSE "hash"
           e == OwnEntry(u)
<1>2. name \in Names /\ (iId[u] # -1 => name = "")
  BY <1>1 DEF Names
<1> HIDE DEF name
<1>3. /\ e.user = iId[u] /\ e.here = TRUE /\ e.subs = FALSE /\ e.group.name = name
      /\ e.allow = {"Write", "Traverse"} /\ e.deny = {}
  BY DEF OwnEntry, name
<1>4. {"Write", "Traverse"} \subseteq Perms
  BY DEF Perms
<1> HIDE DEF e
<1>5. IsEntry(e)
  BY <1>1, <1>2, <1>3, <1>4 DEF IsEntry
<1> QED
  BY <1>5 DEF e

LEMMA RegrantKeeps ==
    ASSUME Inv, Regrant
    PROVE  Inv'
<1>0. PICK u, c : u = main.u /\ c = main.c
  OBVIOUS
<1>1. /\ main.at = "regrant" /\ acCache' = Filled(acCache, u, {c})
      /\ \/ main' = Idle /\ overlooked' = {} /\ UNCHANGED qlACL
         \/ /\ overlooked' = overlooked /\ qlACL' = [qlACL EXCEPT ![c] = Append(@, OwnEntry(u))]
            /\ main' = [at |-> "clear", next |-> "idle", whom |-> Users, u |-> u, c |-> c]
      /\ UNCHANGED <<cParent, bInheritACL, qhGroups, userVars, registered, bSuppress, shown>>
  BY <1>0 DEF Regrant, ClearFor
<1>2. Typed /\ Evaluable /\ Standing /\ Online \subseteq Users /\ Online' = Online
      /\ u \in Online /\ c \in Channels /\ \A v \in Online : Agrees(v)
  BY <1>0, <1>1 DEF Inv, Typed, Online, userVars, Standing, In, Fresh
<1>3. acCache' \in Caches /\ \A v \in Users : Agrees(v) => Right(acCache', v)
  <2>1. Evaluable /\ acCache \in Caches /\ u \in Users
    BY <1>2 DEF Typed, Caches
  <2> QED
    BY <1>1, <2>1, FilledRight
<1>4. \A d \in Channels : IsEntries(qlACL'[d])
  <2>1. \A d \in Channels : IsEntries(qlACL[d])
    BY <1>2 DEF Evaluable
  <2>2. IsEntries(Append(qlACL[c], OwnEntry(u)))
    <3> DEFINE s == qlACL[c]
               e == OwnEntry(u)
               t == Append(s, e)
               X == {s[i] : i \in DOMAIN s} \cup {e}
    <3>1. s \in Seq(X) /\ (\A i \in DOMAIN s : IsEntry(s[i])) /\ IsEntry(e)
      <4>1. IsEntries(s) /\ IsEntry(e)
        BY <1>2, <2>1, OwnEntryIsEntry
      <4> HIDE DEF e
      <4> QED
        BY <4>1 DEF IsEntries
    <3> HIDE DEF s, e
    <3>2. /\ t \in Seq(X) /\ DOMAIN t = 1 .. Len(s) + 1 /\ Len(s) \in Nat /\ DOMAIN s = 1 .. Len(s)
          /\ t[Len(s) + 1] = e /\ \A i \in 1 .. Len(s) : t[i] = s[i]
      <4> HIDE DEF X
      <4>1. e \in X
        BY DEF X
      <4> QED
        BY <3>1, <4>1
    <3> HIDE DEF t
    <3>3. \A i \in DOMAIN t : IsEntry(t[i])
      BY <3>1, <3>2
    <3>4. t \in Seq({t[i] : i \in DOMAIN t})
      <4> HIDE DEF X
      <4> QED
        BY <3>2
    <3> QED
      BY <3>3, <3>4 DEF IsEntries, t, s, e
  <2> QED
    BY <1>1, <1>2, <2>1, <2>2 DEF Typed
<1>5. Typed'
  <2>1. Evaluable' /\ DOMAIN qlACL' = Channels /\ overlooked' \subseteq Users
    BY <1>1, <1>2, <1>4 DEF Evaluable, Typed
  <2> QED
    BY <1>1, <1>2, <1>3, <2>1 DEF Typed, userVars, Caches
<1>6. Standing'
  BY <1>1, <1>2 DEF Standing, In, Idle
<1>7. Ids'
  <2>1. ~In("enter") /\ ~In("enter")' /\ ~In("forget")
    BY <1>1 DEF In, Idle
  <2> QED
    BY <1>1, <1>2, <2>1 DEF Inv, Ids, userVars
<1>8. Fresh'
  <2>1. CASE main' = Idle /\ UNCHANGED qlACL
    <3>1. ASSUME NEW v \in Online
          PROVE  Agrees(v)'
      <4>1. Unaffected(v)
        BY <1>1, <2>1, OthersUnaffected DEF SameUser, treeVars, userVars
      <4> QED
        BY <1>2, <1>3, <4>1, AgreesKept
    <3> QED
      BY <1>2, <2>1, <3>1 DEF Fresh, Idle
  <2>2. CASE main'.at = "clear" /\ main'.whom = Users
    BY <1>2, <2>2 DEF Fresh
  <2> QED
    BY <1>1, <2>1, <2>2
<1>9. LetIn'
  <2>1. CASE main' = Idle
    BY <2>1 DEF LetIn, Idle
  <2>2. CASE main' # Idle
    <3>1. main'.u = u /\ main'.c = c /\ qlACL'[c] = Append(qlACL[c], OwnEntry(u)) /\ OwnEntry(u)' = OwnEntry(u)
      <4>1. iId' = iId
        BY <1>1 DEF userVars
      <4>2. OwnEntry(u)' = OwnEntry(u)
        BY <4>1 DEF OwnEntry
      <4>3. DOMAIN qlACL = Channels
        BY <1>2 DEF Typed
      <4> QED
        BY <1>1, <1>2, <2>2, <4>2, <4>3
    <3> DEFINE s == qlACL[c]
               e == OwnEntry(u)
               t == Append(s, e)
    <3>2. t # <<>> /\ t[Len(t)] = e
      <4>1. IsEntries(s)
        BY <1>2 DEF Evaluable
      <4> HIDE DEF s, e
      <4> DEFINE X == {s[i] : i \in DOMAIN s}
      <4>2. s \in Seq(X)
        BY <4>1 DEF IsEntries
      <4>3. s \in Seq(X \cup {e}) /\ e \in X \cup {e}
        <5> HIDE DEF X
        <5> QED
          BY <4>2
      <4> HIDE DEF X
      <4> QED
        BY <4>3
    <3> QED
      BY <3>1, <3>2 DEF LetIn
  <2> QED
    BY <2>1, <2>2
<1>10. TempMembersPresent'
  BY <1>1, <1>2 DEF Inv, TempMembersPresent
<1> QED
  BY <1>5, <1>6, <1>7, <1>8, <1>9, <1>10 DEF Inv

\* A channel goes below another one that is not below it; everybody's cache is
\* overlooked.
LEMMA MoveChannelKeeps ==
    ASSUME Inv, NEW c \in Channels, NEW p \in Channels, MoveChannel(c, p)
    PROVE  Inv'
<1>1. /\ main = Idle /\ c # Root
      /\ \A i \in 1 .. Len(PathTo(p)) : PathTo(p)[i] # c
      /\ cParent' = [cParent EXCEPT ![c] = p]
      /\ overlooked' = overlooked \cup Online
      /\ UNCHANGED <<bInheritACL, qlACL, qhGroups, userVars, registered, acCache,
                     bSuppress, shown, main>>
  BY DEF MoveChannel
<1>2. Typed /\ Evaluable /\ Standing /\ Online \subseteq Users /\ Online' = Online
  BY <1>1 DEF Inv, Typed, Online, userVars
<1>3. Evaluable'
  <2>1. TreeFrom(Channels, cParent, Root, NoChannel) /\ Tree(Channels, cParent, Root)
    BY <1>2 DEF Evaluable, TreeFrom
  <2>2. c \notin Above(Channels, cParent, Root, p)
    BY <1>1, <2>1, AboveOnPath
  <2> DEFINE Q == cParent'
  <2>3. Q[c] = p /\ (\A d \in Channels \ {c} : Q[d] = cParent[d])
    BY <1>1, <1>2 DEF Typed
  <2> HIDE DEF Q
  <2>4. Tree(Channels, Q, Root)
    BY <1>1, <2>1, <2>2, <2>3, MovedTree
  <2>5. TreeFrom(Channels, Q, Root, NoChannel)
    BY <1>1, <2>1, <2>3, <2>4, RootAssumption DEF TreeFrom
  <2> QED
    BY <1>1, <1>2, <2>5 DEF Evaluable, Q
<1>4. Typed'
  BY <1>1, <1>2, <1>3 DEF Typed, userVars
<1>5. Standing'
  BY <1>1, <1>2 DEF Standing, In
<1>6. Ids'
  BY <1>1, <1>2 DEF Inv, Ids, In, userVars
<1>7. Fresh'
  BY <1>1, <1>2 DEF Fresh, Idle
<1>8. LetIn'
  BY <1>1 DEF LetIn, Idle
<1>9. TempMembersPresent'
  BY <1>1, <1>2 DEF Inv, TempMembersPresent
<1> QED
  BY <1>4, <1>5, <1>6, <1>7, <1>8, <1>9 DEF Inv

LEMMA RegisterUserKeeps ==
    ASSUME Inv, NEW u \in Users, NEW id \in Accounts, RegisterUser(u, id)
    PROVE  Inv'
<1>1. /\ main = Idle /\ u \in Online /\ id \in Accounts \ registered
      /\ registered' = registered \cup {id}
      /\ iId' = [iId EXCEPT ![u] = id]
      /\ main' = [at |-> "clear", next |-> "idle", whom |-> {u}, u |-> u, c |-> NoChannel]
      /\ UNCHANGED <<treeVars, cChannel, qslAccessTokens, acCache, bSuppress, shown, overlooked>>
  BY DEF RegisterUser, ClearThen, ClearFor
<1>2. Typed /\ Evaluable /\ Standing /\ Online \subseteq Users /\ Online' = Online
  BY <1>1 DEF Inv, Typed, Online
<1>3. Typed'
  BY <1>1, <1>2 DEF Typed, Evaluable, treeVars
<1>4. Standing'
  BY <1>1, <1>2, RootAssumption DEF Standing, In
<1>5. Ids'
  <2>1. Ids /\ ~In("enter") /\ ~In("enter")' /\ ~In("forget")
    BY <1>1, IdleIn DEF Inv, In
  <2>2. iId'[u] = id /\ \A v \in Online \ {u} : iId'[v] = iId[v]
    BY <1>1, <1>2 DEF Typed
  <2>3. id # -1
    BY <1>1, AccountsAssumption
  <2> QED
    BY <1>1, <1>2, <2>1, <2>2, <2>3 DEF Ids
<1>6. Fresh'
  <2>1. \A v \in Online \ {u} : Agrees(v) => Agrees(v)'
    BY <1>1, <1>2, OthersAgree DEF SameUser, Typed
  <2> QED
    BY <1>1, <1>2, <2>1, FreshButOne DEF Inv, Idle
<1>7. LetIn'
  BY <1>1, RootAssumption DEF LetIn
<1>8. TempMembersPresent'
  BY <1>1, <1>2 DEF Inv, TempMembersPresent, treeVars, Idle
<1> QED
  BY <1>3, <1>4, <1>5, <1>6, <1>7, <1>8 DEF Inv

\* The user that has the account is the only one whose permissions change.
LEMMA UnregisterUserKeeps ==
    ASSUME Inv, NEW id \in registered, UnregisterUser(id)
    PROVE  Inv'
<1>1. /\ main = Idle
      /\ registered' = registered \ {id}
      /\ qlACL' = [c \in Channels |-> EntriesFor(qlACL[c], Int \ {id})]
      /\ qhGroups' = [c \in Channels |->
                         IF qhGroups[c] = NoGroup THEN NoGroup
                         ELSE [qhGroups[c] EXCEPT !.add = @ \ {id}, !.remove = @ \ {id}]]
      /\ UNCHANGED <<cParent, bInheritACL, userVars, acCache, bSuppress, shown, overlooked>>
  BY DEF UnregisterUser
<1>2. Typed /\ Evaluable /\ Standing /\ Online \subseteq Users /\ Online' = Online
  BY <1>1 DEF Inv, Typed, Online, userVars
<1>3. id # -1 /\ id \in Accounts
  BY <1>2, AccountsAssumption DEF Typed
<1>4. Ids /\ ~In("enter") /\ ~In("forget")
  BY <1>1, IdleIn DEF Inv
<1>5. \/ main' = Idle /\ \A v \in Online : iId[v] # id
      \/ \E u \in Online :
            /\ iId[u] = id /\ \A v \in Online : iId[v] = id => v = u
            /\ main' = [at |-> "clear", next |-> "forget", whom |-> {u}, u |-> u, c |-> NoChannel]
  <2>1. CASE \E u \in Online : iId[u] = id
    <3>1. PICK u : u = CHOOSE v \in Online : iId[v] = id
      OBVIOUS
    <3>2. u \in Online /\ iId[u] = id
      BY <2>1, <3>1
    <3>3. main' = ClearFor({u}, "forget", u, NoChannel)
      BY <2>1, <3>1 DEF UnregisterUser
    <3>4. \A v \in Online : iId[v] = id => v = u
      BY <1>3, <1>4, <3>2 DEF Ids
    <3> QED
      BY <3>2, <3>3, <3>4 DEF ClearFor
  <2>2. CASE ~\E u \in Online : iId[u] = id
    BY <2>2 DEF UnregisterUser
  <2> QED
    BY <2>1, <2>2
<1>6. ASSUME NEW c \in Channels
      PROVE  \/ qhGroups[c] = NoGroup /\ qhGroups'[c] = NoGroup
             \/ /\ qhGroups[c] # NoGroup /\ qhGroups[c] \in GroupRecords
                /\ qhGroups'[c] \in GroupRecords
                /\ qhGroups'[c].temp = qhGroups[c].temp
                /\ qhGroups'[c].inherit = qhGroups[c].inherit
                /\ qhGroups'[c].inheritable = qhGroups[c].inheritable
                /\ qhGroups'[c].add = qhGroups[c].add \ {id}
                /\ qhGroups'[c].remove = qhGroups[c].remove \ {id}
  <2>1. CASE qhGroups[c] = NoGroup
    BY <1>1, <2>1
  <2>2. CASE qhGroups[c] # NoGroup
    <3>1. qhGroups[c] \in GroupRecords
      BY <1>2, <2>2 DEF Typed
    <3>2. qhGroups'[c] = [qhGroups[c] EXCEPT !.add = @ \ {id}, !.remove = @ \ {id}]
      BY <1>1, <2>2
    <3> QED
      BY <2>2, <3>1, <3>2 DEF GroupRecords
  <2> QED
    BY <2>1, <2>2
<1>7. Typed'
  <2>1. qhGroups' \in [Channels -> GroupRecords \cup {NoGroup}]
    <3>1. qhGroups' = [c \in Channels |-> qhGroups'[c]]
      BY <1>1
    <3> QED
      BY <1>6, <3>1
  <2>2. \A c \in Channels : qhGroups'[c] # NoGroup => qhGroups'[c].temp \subseteq {-v : v \in Users}
    BY <1>2, <1>6 DEF Typed
  <2>3. DOMAIN qlACL' = Channels /\ \A c \in Channels : IsEntries(qlACL'[c])
    BY <1>1, <1>2, EntriesLeft DEF Evaluable
  <2>4. Evaluable'
    BY <1>1, <1>2, <2>3 DEF Evaluable
  <2> QED
    BY <1>1, <1>2, <2>1, <2>2, <2>3, <2>4 DEF Typed, userVars
<1>8. Standing'
  <2>1. CASE main' = Idle
    BY <1>1, <1>2, <2>1 DEF Standing, In, Idle
  <2>2. CASE main' # Idle
    <3>1. PICK u \in Online :
             main' = [at |-> "clear", next |-> "forget", whom |-> {u}, u |-> u, c |-> NoChannel]
      BY <1>5, <2>2
    <3> QED
      BY <1>2, <3>1 DEF Standing, In
  <2> QED
    BY <2>1, <2>2
<1>9. Ids'
  <2>1. CASE main' = Idle /\ \A v \in Online : iId[v] # id
    <3>1. ~In("enter")' /\ ~In("forget")'
      BY <2>1 DEF In, Idle
    <3> QED
      BY <1>1, <1>2, <1>4, <2>1, <3>1 DEF Ids, userVars
  <2>2. CASE ~(main' = Idle /\ \A v \in Online : iId[v] # id)
    <3>1. PICK u \in Online :
             /\ iId[u] = id /\ \A v \in Online : iId[v] = id => v = u
             /\ main' = [at |-> "clear", next |-> "forget", whom |-> {u}, u |-> u, c |-> NoChannel]
      BY <1>5, <2>2
    <3>2. ~In("enter")' /\ In("forget")' /\ main'.u = u
      BY <3>1 DEF In
    <3> QED
      BY <1>1, <1>2, <1>4, <3>1, <3>2 DEF Ids, userVars
  <2> QED
    BY <2>1, <2>2
<1>10. Fresh'
  <2>1. ASSUME NEW v \in Online, Agrees(v), iId[v] # id
        PROVE  Agrees(v)'
    <3>1. \A c \in Channels : qhGroups'[c] = qhGroups[c] \/ SameFor(v, GroupOf(c), qhGroups'[c])
      BY <1>6, <2>1 DEF SameFor, Temporary, GroupOf
    <3>2. Says(v)' = Says(v)
      BY <1>1, <1>2, <3>1, SaysOfOthers DEF userVars
    <3>3. SameUser(v) /\ UNCHANGED <<cParent, bInheritACL>>
          /\ \A c \in Channels : qlACL'[c] = EntriesFor(qlACL[c], Int \ {id})
      BY <1>1 DEF SameUser, userVars
    <3>4. Unaffected(v)
      BY <1>2, <1>3, <2>1, <3>2, <3>3, OthersPermissions DEF Unaffected
    <3>5. Right(acCache', v)
      BY <1>1, <2>1 DEF Agrees, Right
    <3> QED
      BY <3>4, <3>5, AgreesKept
  <2>2. Fresh /\ main.at = "idle"
    BY <1>1, IdleIn DEF Inv
  <2>3. CASE main' = Idle /\ \A v \in Online : iId[v] # id
    BY <1>1, <1>2, <2>1, <2>2, <2>3 DEF Fresh, Idle
  <2>4. CASE ~(main' = Idle /\ \A v \in Online : iId[v] # id)
    <3>1. PICK u \in Online :
             /\ iId[u] = id /\ \A v \in Online : iId[v] = id => v = u
             /\ main' = [at |-> "clear", next |-> "forget", whom |-> {u}, u |-> u, c |-> NoChannel]
      BY <1>5, <2>4
    <3> QED
      BY <1>1, <1>2, <2>1, <2>2, <3>1, FreshButOne
  <2> QED
    BY <2>3, <2>4
<1>11. LetIn'
  BY <1>5 DEF LetIn, Idle
<1>12. TempMembersPresent'
  <2> SUFFICES ASSUME NEW c \in Channels, qhGroups'[c] # NoGroup, NEW v \in Users, -v \in qhGroups'[c].temp
               PROVE  v \in Online
    BY <1>2 DEF TempMembersPresent
  <2>1. qhGroups[c] # NoGroup /\ -v \in qhGroups[c].temp
    BY <1>6
  <2> QED
    BY <1>1, <2>1 DEF Inv, TempMembersPresent, Idle
<1> QED
  BY <1>7, <1>8, <1>9, <1>10, <1>11, <1>12 DEF Inv

LEMMA ForgetIdKeeps ==
    ASSUME Inv, ForgetId
    PROVE  Inv'
<1>0. PICK u : u = main.u
  OBVIOUS
<1>1. /\ main.at = "forget" /\ main' = Idle
      /\ iId' = [iId EXCEPT ![u] = -1] /\ overlooked' = overlooked \cup {u}
      /\ UNCHANGED <<treeVars, cChannel, qslAccessTokens, registered, acCache, bSuppress, shown>>
  BY <1>0 DEF ForgetId
<1>2. Typed /\ Evaluable /\ Standing /\ Online \subseteq Users /\ Online' = Online /\ u \in Users
  BY <1>0, <1>1 DEF Inv, Typed, Online, Standing, In
<1>3. Typed'
  BY <1>1, <1>2 DEF Typed, Evaluable, treeVars
<1>4. Standing'
  BY <1>1, RootAssumption DEF Standing, In, Idle
<1>5. Ids'
  <2>1. Ids /\ ~In("enter") /\ ~In("enter")' /\ ~In("forget")'
    BY <1>1 DEF Inv, In, Idle
  <2>2. iId'[u] = -1 /\ \A v \in Online \ {u} : iId'[v] = iId[v]
    BY <1>1, <1>2 DEF Typed
  <2> QED
    BY <1>0, <1>1, <1>2, <2>1, <2>2 DEF Ids
<1>6. Fresh'
  <2>1. \A v \in Online \ {u} : Agrees(v) => Agrees(v)'
    BY <1>1, <1>2, OthersAgree DEF SameUser, Typed
  <2> QED
    BY <1>1, <1>2, <2>1 DEF Inv, Fresh, Idle
<1>7. LetIn'
  BY <1>1 DEF LetIn, Idle
<1>8. TempMembersPresent'
  BY <1>1, <1>2 DEF Inv, TempMembersPresent, treeVars
<1> QED
  BY <1>3, <1>4, <1>5, <1>6, <1>7, <1>8 DEF Inv

-----------------------------------------------------------------------------
(* The invariant and what follows from it. *)

LEMMA InitInv ==
    ASSUME Init
    PROVE  Inv
<1>1. TreeFrom(Channels, cParent, Root, NoChannel)
  <2>1. cParent[Root] = NoChannel /\ \A c \in Channels \ {Root} : cParent[c] = Root
    BY RootAssumption DEF Init
  <2>2. \A S \in SUBSET (Channels \ {Root}) : S # {} => ~Closed(cParent, Root, S)
    BY <2>1 DEF Closed
  <2> QED
    BY <2>1, <2>2, RootAssumption DEF TreeFrom, Tree
<1>2. Evaluable
  <2>1. IsEntries(<<>>)
    BY DEF IsEntries
  <2> QED
    BY <1>1, <2>1 DEF Evaluable, Init
<1>3. Online = {} /\ main = Idle /\ main.at = "idle" /\ main.next = "idle"
  BY DEF Init, Online, Idle
<1>4. Typed
  <2>1. /\ cParent \in [Channels -> Channels \cup {NoChannel}] /\ bInheritACL \in [Channels -> BOOLEAN]
        /\ DOMAIN qlACL = Channels
        /\ iId \in [Users -> Accounts \cup {-1}] /\ cChannel \in [Users -> Channels \cup {NoChannel}]
        /\ acCache \in [Users -> [Channels -> (SUBSET Perms) \cup {NotCached}]]
    BY RootAssumption DEF Init, Empty
  <2>2. /\ \A c \in Channels : qhGroups[c] = NoGroup
        /\ qhGroups \in [Channels -> GroupRecords \cup {NoGroup}]
    BY DEF Init
  <2>3. /\ qslAccessTokens \in [Users -> BOOLEAN] /\ bSuppress \in [Users -> BOOLEAN]
        /\ shown \in [Users -> BOOLEAN] /\ registered \subseteq Accounts /\ overlooked \subseteq Users
    BY DEF Init
  <2> QED
    BY <1>2, <2>1, <2>2, <2>3 DEF Typed
<1>5. Standing
  BY <1>3 DEF Standing, In, Idle
<1>6. Ids /\ Fresh /\ LetIn
  BY <1>3 DEF Ids, Fresh, LetIn, In
<1>7. TempMembersPresent
  BY DEF Init, TempMembersPresent
<1> QED
  BY <1>4, <1>5, <1>6, <1>7 DEF Inv

LEMMA StutterInv ==
    ASSUME Inv, UNCHANGED vars
    PROVE  Inv'
<1>1. UNCHANGED <<treeVars, userVars, registered, acCache, bSuppress, shown, main, overlooked>>
  BY DEF vars
<1>2. Online' = Online
  BY <1>1 DEF Online, userVars
<1>3. Typed'
  BY <1>1 DEF Inv, Typed, Evaluable, treeVars, userVars
<1>4. Standing' /\ Ids'
  BY <1>1, <1>2 DEF Inv, Standing, Ids, In, userVars
<1>5. Fresh'
  <2>1. ASSUME NEW v, Agrees(v)
        PROVE  Agrees(v)'
    BY <1>1, <2>1, OthersAgree DEF SameUser, userVars
  <2> QED
    BY <1>1, <1>2, <2>1 DEF Inv, Fresh
<1>6. LetIn'
  BY <1>1 DEF Inv, LetIn, OwnEntry, treeVars, userVars
<1>7. TempMembersPresent'
  BY <1>1, <1>2 DEF Inv, TempMembersPresent, treeVars
<1> QED
  BY <1>3, <1>4, <1>5, <1>6, <1>7 DEF Inv

LEMMA NextInv ==
    ASSUME Inv, [Next]_vars
    PROVE  Inv'
<1>1. Asked \cup {Root} \subseteq Channels /\ Asked \subseteq Channels /\ Movable \subseteq Channels
      /\ Editors \subseteq Users
  BY BoundsAssumption, RootAssumption
<1>2. registered \subseteq Accounts
  BY DEF Inv, Typed
<1>3. CASE UNCHANGED vars
  BY <1>3, StutterInv
<1>4. CASE ClearACLCache \/ EnterAfterAuthenticate \/ ClearTempGroups \/ Regrant \/ ForgetId
  BY <1>4, ClearKeeps, EnterAfterAuthenticateKeeps, ClearTempGroupsKeeps, RegrantKeeps, ForgetIdKeeps
<1>5. ASSUME NEW u \in Users, ConnectionClosed(u)
      PROVE  Inv'
  BY <1>5, ConnectionClosedKeeps
<1>6. ASSUME NEW u \in Users, NEW tokens \in {t \in BOOLEAN : t => u \in Tokened}, SetTokens(u, tokens)
      PROVE  Inv'
  <2>1. tokens \in BOOLEAN
    OBVIOUS
  <2> QED
    BY <1>6, <2>1, SetTokensKeeps
<1>7. ASSUME NEW u \in Users, NEW tokens \in {t \in BOOLEAN : t => u \in Tokened}, NEW id \in registered \cup {-1},
             NEW c \in Asked \cup {Root}, Authenticate(u, id, tokens, c)
      PROVE  Inv'
  <2>1. tokens \in BOOLEAN
    OBVIOUS
  <2> QED
    BY <1>1, <1>7, <2>1, AuthenticateKeeps
<1>8. ASSUME NEW u \in Users, NEW id \in Accounts, RegisterUser(u, id)
      PROVE  Inv'
  BY <1>8, RegisterUserKeeps
<1>9. ASSUME NEW u \in Users, NEW c \in Asked \cup {Root}, UserEnterChannel(u, c)
      PROVE  Inv'
  BY <1>1, <1>9, UserEnterChannelKeeps
<1>10. ASSUME NEW u \in Users, NEW c \in Asked, Query(u, c)
       PROVE  Inv'
  BY <1>10, QueryKeeps
<1>11. ASSUME NEW u \in Users, NEW c \in Asked, AddUserToGroup(u, c) \/ RemoveUserFromGroup(u, c)
       PROVE  Inv'
  BY <1>1, <1>11, RegroupKeeps DEF AddUserToGroup, RemoveUserFromGroup
<1>12. ASSUME NEW edit \in Edits, SetACL(edit.c, edit)
       PROVE  Inv'
  BY <1>12, SetACLKeeps
<1>13. ASSUME NEW edit \in Edits, NEW u \in Editors, MsgACL(u, edit.c, edit)
       PROVE  Inv'
  BY <1>1, <1>13, MsgACLKeeps
<1>14. ASSUME NEW c \in Movable, NEW p \in Channels, MoveChannel(c, p)
       PROVE  Inv'
  BY <1>1, <1>14, MoveChannelKeeps
<1>15. ASSUME NEW id \in registered, UnregisterUser(id)
       PROVE  Inv'
  BY <1>15, UnregisterUserKeeps
<1> QED
  BY <1>3, <1>4, <1>5, <1>6, <1>7, <1>8, <1>9, <1>10, <1>11, <1>12, <1>13, <1>14, <1>15 DEF Next

\* The invariant holds always, whatever is edited, asked about and moved.
THEOREM AlwaysInv == Spec => []Inv
BY InitInv, NextInv, PTL DEF Spec

\* The variables keep to their types: entries are well formed, temporary
\* members are sessions, what is cached is a set of permissions.
THEOREM TypeCorrect == Spec => []TypeOK
<1>1. ASSUME Inv
      PROVE  TypeOK
  <2>1. \A c \in Channels : IsEntries(qlACL[c])
    BY <1>1 DEF Inv, Typed, Evaluable
  <2>2. \A c \in Channels :
          /\ \A i \in DOMAIN qlACL[c] : IsEntry(qlACL[c][i])
          /\ qhGroups[c] = NoGroup \/ qhGroups[c].temp \subseteq {-u : u \in Users}
    BY <1>1, <2>1 DEF Inv, Typed, IsEntries
  <2>3. \A u \in Users, c \in Channels : acCache[u][c] = NotCached \/ acCache[u][c] \subseteq Perms
    BY <1>1 DEF Inv, Typed
  <2> QED
    BY <1>1, <2>2, <2>3 DEF Inv, Typed, Standing, TypeOK
<1> QED
  BY <1>1, AlwaysInv, PTL

\* Between two handlers the cache of everybody who is not overlooked says what
\* an evaluation would say (clearACLCache and its callers).
THEOREM CachesFresh == Spec => []CacheFresh
<1>1. ASSUME Inv
      PROVE  CacheFresh
  BY <1>1 DEF Inv, Fresh, CacheFresh, Idle
<1> QED
  BY <1>1, AlwaysInv, PTL

\* No group keeps a temporary member that has left (clearTempGroups).
THEOREM TempsPresent == Spec => []TempMembersPresent
<1>1. ASSUME Inv
      PROVE  TempMembersPresent
  BY <1>1 DEF Inv
<1> QED
  BY <1>1, AlwaysInv, PTL

\* The walk from the root down to a channel (ChanACL::effectivePermissions)
\* grants what the last word on each permission says, in every state.
THEOREM LastWordTells == Spec => []LastWordDecides
<1>1. ASSUME Inv
      PROVE  LastWordDecides
  BY <1>1, WalkIsLastWord DEF Inv, Typed, LastWordDecides
<1> QED
  BY <1>1, AlwaysInv, PTL

-----------------------------------------------------------------------------
(* Editors stay in. *)

\* Whoever has the last entry of a channel to itself may write it, unless the
\* evaluation does not come that far.
LEMMA OwnEntryGrants ==
    ASSUME Typed, NEW u \in Users, NEW c \in Channels,
           qlACL[c] # <<>>, qlACL[c][Len(qlACL[c])] = OwnEntry(u)
    PROVE  "Write" \in EffectivePermissions(u, c) \/ BarredAbove(u, c)
<1>1. CASE iId[u] = 0
  BY <1>1 DEF EffectivePermissions, Perms
<1>2. CASE iId[u] # 0 /\ ~BarredAbove(u, c)
  <2> DEFINE acc == WalkTo(u, c, cParent[c])
             e == OwnEntry(u)
  <2>1. /\ Evaluable /\ TreeFrom(Channels, cParent, Root, NoChannel)
        /\ cParent[Root] = NoChannel /\ \A d \in Channels \ {Root} : cParent[d] \in Channels
    BY DEF Typed, Evaluable, TreeFrom, Tree
  <2>2. /\ WalkTo(u, c, NoChannel) = First
        /\ \A d \in Channels : WalkTo(u, c, d) \in Accumulated
        /\ WalkTo(u, c, c) = EvaluateChannel(acc, c, c, u)
    BY <2>1, WalkUnfolds
  <2>3. acc \in Accumulated /\ ~acc.blocked
    <3>1. CASE c = Root
      <4>1. cParent[c] = NoChannel
        BY <2>1, <3>1
      <4>2. acc = First
        BY <2>2, <4>1
      <4> HIDE DEF acc
      <4> QED
        BY <4>2 DEF First, Accumulated, Default, Perms
    <3>2. CASE c # Root
      BY <1>2, <2>1, <2>2, <3>2 DEF BarredAbove
    <3> QED
      BY <3>1, <3>2
  <2> HIDE DEF acc
  <2>4. PICK f, s : ChannelFolds(f, s, acc, c, c, u)
    BY <2>1, <2>3, ChannelFold DEF Evaluable
  <2>5. /\ s = qlACL[c] /\ IsEntries(s) /\ s[Len(s)] = e
        /\ Len(s) \in 1 .. Len(s) /\ Len(s) - 1 \in 0 .. Len(s)
    <3>1. s = qlACL[c] /\ IsEntries(s) /\ s # <<>>
      BY <2>1, <2>4 DEF ChannelFolds, Evaluable
    <3> DEFINE X == {s[i] : i \in DOMAIN s}
    <3>2. s \in Seq(X)
      BY <3>1 DEF IsEntries
    <3> HIDE DEF X
    <3>3. Len(s) \in Nat /\ Len(s) # 0
      BY <3>1, <3>2
    <3> QED
      BY <3>1, <3>3
  <2> DEFINE before == f[Len(s) - 1]
             end == f[Len(s)]
  <2>6. /\ before \in Accumulated /\ end \in Accumulated
        /\ end = Evaluate(before, c, c, e, u)
        /\ WalkTo(u, c, c) = [end EXCEPT !.blocked = ~end.traverse /\ ~end.write]
    BY <2>2, <2>4, <2>5, SMTT(20) DEF ChannelFolds
  <2> HIDE DEF before, end
  <2>7. Matches(c, c, e, u)
    <3>1. CASE iId[u] # -1
      BY <3>1 DEF Matches, OwnEntry
    <3>2. CASE iId[u] = -1
      <4> DEFINE spec == e.group
      <4>1. spec.name = "hash" /\ spec.owner = u /\ spec.invert = FALSE /\ spec.name # ""
        <5>1. (IF iId[u] >= 0 THEN "" ELSE "hash") = "hash"
          BY <3>2
        <5>2. spec = [name |-> IF iId[u] >= 0 THEN "" ELSE "hash", owner |-> u,
                      invert |-> FALSE, local |-> FALSE]
          BY DEF OwnEntry
        <5> HIDE DEF spec
        <5> QED
          BY <5>1, <5>2
      <4> HIDE DEF spec
      <4>2. AppliesToUser(c, c, spec, u)
        BY <4>1, Zenon DEF AppliesToUser
      <4> QED
        BY <4>2 DEF Matches, spec
    <3> QED
      BY <3>1, <3>2
  <2>8. e.here = TRUE /\ e.allow = {"Write", "Traverse"} /\ e.deny = {}
    BY DEF OwnEntry
  <2> HIDE DEF e
  <2>9. Set(before.write, "Write", e) = TRUE /\ "Write" \in Grantable(c, c, e)
    BY <2>8 DEF Set, Grantable, RootOnly
  <2>10. end.write /\ "Write" \in end.granted
    <3>1. end = [before EXCEPT
                   !.traverse = IF AppliesTraverse(c, c, e) THEN Set(@, "Traverse", e) ELSE @,
                   !.write = Set(@, "Write", e),
                   !.granted = (@ \cup Grantable(c, c, e)) \ e.deny]
      BY <2>6, <2>7, <2>8 DEF Evaluate, Applies
    <3> QED
      BY <2>6, <2>8, <2>9, <3>1 DEF Accumulated
  <2>11. "Write" \in WalkTo(u, c, c).granted /\ ~WalkTo(u, c, c).blocked
    BY <2>6, <2>10 DEF Accumulated
  <2> QED
    BY <1>2, <2>11 DEF EffectivePermissions, Walk, Completed
<1> QED
  BY <1>1, <1>2

\* Whoever is barred stays barred as long as nothing of this changes.
LEMMA BarredFrame ==
    ASSUME NEW u, NEW c, UNCHANGED <<treeVars, userVars>>
    PROVE  BarredAbove(u, c)' = BarredAbove(u, c)
<1>1. Says(u)' = Says(u)
  BY SaysFrame DEF treeVars, userVars
<1> QED
  BY <1>1 DEF treeVars, userVars, BarredAbove, WalkTo, EvaluateChannel, Start, Evaluate,
     Grantable, Set, Applies, AppliesTraverse, Matches, AppliesToUser, InGroup, InSub, PathTo

\* What msgACL leaves its sender: the permission to write the channel it
\* edited, unless an entry further up bars it (Messages.cpp:1972-1989).
THEOREM EditorsStay == Spec => EditorStays
<1>1. ASSUME Inv, [Next]_vars, NEW u \in Users, NEW c \in Channels,
             main.at \in {"clear", "regrant"}, main.u = u, main.c = c, main' = Idle
      PROVE  "Write" \in EffectivePermissions(u, c)' \/ BarredAbove(u, c)'
  <2>1. main # Idle /\ main' # main
    BY <1>1 DEF Idle
  <2>2. ClearACLCache \/ Regrant
    <3>1. ~UNCHANGED vars
      BY <2>1 DEF vars
    <3>2. ASSUME NEW v, NEW d, NEW e
          PROVE  ~Query(v, d) /\ ~ConnectionClosed(v) /\ ~MoveChannel(d, e)
      BY <2>1 DEF Query, ConnectionClosed, MoveChannel
    <3>3. ASSUME NEW v, NEW d, NEW e, NEW t
          PROVE  ~SetTokens(v, t) /\ ~Authenticate(v, e, t, d)
      BY <2>1 DEF SetTokens, Authenticate
    <3>4. ASSUME NEW v, NEW d
          PROVE  ~RegisterUser(v, d) /\ ~UserEnterChannel(v, d) /\ ~UnregisterUser(d)
      BY <2>1 DEF RegisterUser, UserEnterChannel, UnregisterUser
    <3>5. ASSUME NEW v, NEW d, NEW e
          PROVE  /\ ~AddUserToGroup(v, d) /\ ~RemoveUserFromGroup(v, d)
                 /\ ~SetACL(d, e) /\ ~MsgACL(v, d, e)
      BY <2>1 DEF AddUserToGroup, RemoveUserFromGroup, Regroup, SetACL, MsgACL
    <3>6. ~EnterAfterAuthenticate /\ ~ClearTempGroups /\ ~ForgetId
      BY <1>1 DEF EnterAfterAuthenticate, ClearTempGroups, ForgetId
    <3> QED
      BY <1>1, <3>1, <3>2, <3>3, <3>4, <3>5, <3>6 DEF Next
  <2>3. Typed
    BY <1>1 DEF Inv
  <2>4. CASE ClearACLCache
    <3>1. main.at = "clear" /\ main.next = "idle" /\ UNCHANGED <<treeVars, userVars>>
      <4>1. main'.at = "idle"
        BY <1>1 DEF Idle
      <4>2. main.next # "idle" => main'.at = main.next
        BY <1>1, <2>4 DEF ClearACLCache, Inv, Standing
      <4> QED
        BY <2>4, <4>1, <4>2 DEF ClearACLCache
    <3>2. qlACL[c] # <<>> /\ qlACL[c][Len(qlACL[c])] = OwnEntry(u)
      BY <1>1, <3>1 DEF Inv, LetIn
    <3>3. "Write" \in EffectivePermissions(u, c) \/ BarredAbove(u, c)
      BY <2>3, <3>2, OwnEntryGrants
    <3>4. Unaffected(u)
      BY <3>1, OthersUnaffected DEF SameUser, userVars
    <3>5. BarredAbove(u, c)' = BarredAbove(u, c)
      BY <3>1, BarredFrame
    <3> QED
      BY <3>3, <3>4, <3>5 DEF Unaffected
  <2>5. CASE Regrant
    <3>1. main.at = "regrant" /\ Agrees(u)
      BY <1>1, <2>5 DEF Regrant, Inv, Fresh, Standing, In
    <3>2. "Write" \in Lookup(u, c) /\ UNCHANGED <<treeVars, userVars>>
      <4>1. main' # ClearFor(Users, "idle", u, c)
        BY <1>1 DEF Idle, ClearFor
      <4> QED
        BY <1>1, <2>5, <4>1 DEF Regrant, treeVars
    <3>3. "Write" \in EffectivePermissions(u, c)
      BY <3>1, <3>2, LookupRight
    <3>4. Unaffected(u)
      BY <3>2, OthersUnaffected DEF SameUser, userVars
    <3> QED
      BY <3>3, <3>4 DEF Unaffected
  <2> QED
    BY <2>2, <2>4, <2>5
<1>2. Inv /\ [Next]_vars =>
        [\A u \in Users, c \in Channels :
            main.at \in {"clear", "regrant"} /\ main.u = u /\ main.c = c /\ main' = Idle =>
            \/ "Write" \in EffectivePermissions(u, c)'
            \/ BarredAbove(u, c)']_vars
  BY <1>1
<1> QED
  BY <1>2, AlwaysInv, PTL DEF Spec, EditorStays
=============================================================================
