----------------------------- MODULE SessionPool -----------------------------
(***************************************************************************)
(* Connections, session ids and user names of one virtual server, as the   *)
(* main thread of Server keeps them: newClient, msgAuthenticate,           *)
(* connectionClosed and the live change of the user limit.                 *)
(*                                                                         *)
(* A session id is drawn from the queue qqIds when a client authenticates  *)
(* and put back when its connection closes.  A rejected client keeps its   *)
(* id, its name and its entry in qhUsers until its socket has closed, and  *)
(* what it sent before that is still read: a second Authenticate draws a   *)
(* second id, and the entry of the first stays behind.                     *)
(***************************************************************************)
EXTENDS Integers, Sequences, FiniteSets

CONSTANTS
    Conns,       \* ServerUser objects: bound on how many there are at once
    Names,       \* user names
    Registered,  \* names of registered accounts
    SuperUser,   \* the account with id 0, exempt from the user limit
    Addrs,       \* client identities: address, or certificate hash
    UserLimits,  \* values iMaxUsers takes
    NoOne        \* no connection

ASSUME NamesAssumption == Registered \subseteq Names /\ SuperUser \in Registered
ASSUME LimitsAssumption == UserLimits \subseteq Nat \ {0}
ASSUME NoOneAssumption == NoOne \notin Conns
ASSUME ConnsAssumption == IsFiniteSet(Conns)

VARIABLES
    iMaxUsers,    \* the configured limit
    qqIds,        \* free session ids, drawn from the front
    qhUsers,      \* session id -> connection, for the ids in use
    state,        \* "none", "connected", "rejected" or "authenticated"
    uiSession,    \* ServerUser::uiSession, 0 before the first Authenticate
    qsName,       \* ServerUser::qsName of connections that sent Authenticate
    address,      \* peer of each connection
    underflow,    \* qqIds.dequeue() was called on an empty queue
    readDeleted,  \* a deleted ServerUser was read through qhUsers
    replaced      \* history: ids whose connection drew another one after them

vars == <<iMaxUsers, qqIds, qhUsers, state, uiSession, qsName, address,
          underflow, readDeleted, replaced>>

undefinedVars == <<underflow, readDeleted>>

States == {"none", "connected", "rejected", "authenticated"}
SessionIds(limit) == 1 .. 2 * limit - 1
AllIds == UNION {SessionIds(limit) : limit \in UserLimits}
InUse == DOMAIN qhUsers
Queued == {qqIds[i] : i \in 1 .. Len(qqIds)}

\* The ids of S in ascending order, as the loops over 1 .. 2 * iMaxUsers - 1
\* enqueue them.
Ascending(S) ==
    {q \in [1 .. Cardinality(S) -> S] :
        /\ \A i, j \in 1 .. Cardinality(S) : i < j => q[i] < q[j]
        /\ \A id \in S : \E i \in 1 .. Cardinality(S) : q[i] = id}

Init ==
    /\ iMaxUsers \in UserLimits
    /\ qqIds \in Ascending(SessionIds(iMaxUsers))
    /\ qhUsers = <<>>
    /\ state = [c \in Conns |-> "none"]
    /\ uiSession = [c \in Conns |-> 0]
    /\ qsName = [c \in Conns |-> NoOne]
    /\ address = [c \in Conns |-> NoOne]
    /\ underflow = FALSE
    /\ readDeleted = FALSE
    /\ replaced = {}

\* Entries of qhUsers whose ServerUser has been deleted.  Walking the table
\* with one in it is undefined, so a step that does needs Intact.
Dangling == {s \in InUse : state[qhUsers[s]] = "none"}
Intact == Dangling = {}

-----------------------------------------------------------------------------
\* newClient: turned away at once when no id is free.  The new object is none
\* that an entry still points to.
NewClient(c) ==
    /\ state[c] = "none"
    /\ \A s \in InUse : qhUsers[s] # c
    /\ qqIds # <<>>
    /\ state' = [state EXCEPT ![c] = "connected"]
    /\ \E a \in Addrs : address' = [address EXCEPT ![c] = a]
    /\ UNCHANGED <<iMaxUsers, qqIds, qhUsers, uiSession, qsName, undefinedVars, replaced>>

\* Authenticate is the first message, or a further one of a rejected client
\* whose socket is still closing.
MayAuthenticate(c) == state[c] \in {"connected", "rejected"}

\* Fault: only connections from the client's own address are looked at.
SameNameAndAddress(c, name) ==
    {qhUsers[s] : s \in {s \in InUse \ Dangling :
        qhUsers[s] # c /\ qsName[qhUsers[s]] = name /\ address[qhUsers[s]] = address[c]}}

\* The connections of qhUsers, other than c, that use the name.
SameName(c, name) ==
    {qhUsers[s] : s \in {s \in InUse \ Dangling :
        qhUsers[s] # c /\ qsName[qhUsers[s]] = name}}

\* The first match of an iteration over a hash table: any of them, or none.
OldUser(c, name) == IF SameName(c, name) = {} THEN {NoOne} ELSE SameName(c, name)

Without(f, ids) == [s \in DOMAIN f \ ids |-> f[s]]

\* qhUsers once the id at the front of the queue is entered for c.
Entered(c) ==
    [s \in InUse \cup {Head(qqIds)} |-> IF s = Head(qqIds) THEN c ELSE qhUsers[s]]

\* The id c had before is overwritten and nobody returns it.
Replaced(c) == replaced \cup (IF uiSession[c] = 0 THEN {} ELSE {uiSession[c]})

\* Wrong credentials, a name another address is using, or a full server.
Refused(c, name, old, genuine) ==
    \/ ~genuine
    \/ name \notin Registered /\ old # NoOne /\ address[old] # address[c]
    \/ name # SuperUser /\ Cardinality(InUse \cup {Head(qqIds)}) > iMaxUsers

\* The client is told why and its socket starts to close.
Reject(c, name) ==
    /\ qqIds' = Tail(qqIds)
    /\ qhUsers' = Entered(c)
    /\ uiSession' = [uiSession EXCEPT ![c] = Head(qqIds)]
    /\ qsName' = [qsName EXCEPT ![c] = name]
    /\ state' = [state EXCEPT ![c] = "rejected"]
    /\ replaced' = Replaced(c)
    /\ UNCHANGED <<iMaxUsers, address, undefinedVars>>

\* Faults: uiSession 0 is put back too; an id above a lowered limit is; half
\* of the pool is forgotten.
ReturnedAlsoZero(s) == IF s < 2 * iMaxUsers THEN <<s>> ELSE <<>>
ReturnedAnyway(s) == IF s > 0 THEN <<s>> ELSE <<>>
ReturnedLowerHalf(s) == IF s > 0 /\ s < iMaxUsers THEN <<s>> ELSE <<>>

\* Whether connectionClosed puts an id back.
Returned(s) == IF s > 0 /\ s < 2 * iMaxUsers THEN <<s>> ELSE <<>>

\* Admitted, and nobody else uses the name.
AdmitNew(c, name) ==
    /\ qqIds' = Tail(qqIds)
    /\ qhUsers' = Entered(c)
    /\ uiSession' = [uiSession EXCEPT ![c] = Head(qqIds)]
    /\ qsName' = [qsName EXCEPT ![c] = name]
    /\ state' = [state EXCEPT ![c] = "authenticated"]
    /\ replaced' = Replaced(c)
    /\ UNCHANGED <<iMaxUsers, address, undefinedVars>>

\* Fault: the ghost's entry stays in qhUsers.
AdmitKeepingGhost(c, name, old) ==
    /\ qqIds' = Tail(qqIds) \o Returned(uiSession[old])
    /\ qhUsers' = Entered(c)
    /\ uiSession' = [uiSession EXCEPT ![c] = Head(qqIds), ![old] = 0]
    /\ qsName' = [qsName EXCEPT ![c] = name, ![old] = NoOne]
    /\ state' = [state EXCEPT ![c] = "authenticated", ![old] = "none"]
    /\ address' = [address EXCEPT ![old] = NoOne]
    /\ replaced' = Replaced(c)
    /\ UNCHANGED <<iMaxUsers, undefinedVars>>

\* Admitted in place of a ghost: its socket is aborted, and its
\* connectionClosed runs before msgAuthenticate goes on.
AdmitKickingGhost(c, name, old) ==
    /\ qqIds' = Tail(qqIds) \o Returned(uiSession[old])
    /\ qhUsers' = Without(Entered(c), {uiSession[old]})
    /\ uiSession' = [uiSession EXCEPT ![c] = Head(qqIds), ![old] = 0]
    /\ qsName' = [qsName EXCEPT ![c] = name, ![old] = NoOne]
    /\ state' = [state EXCEPT ![c] = "authenticated", ![old] = "none"]
    /\ address' = [address EXCEPT ![old] = NoOne]
    /\ replaced' = Replaced(c)
    /\ UNCHANGED <<iMaxUsers, undefinedVars>>

\* The search for the name ends at the first match; an admission is announced
\* to everybody.
Authenticate(c) ==
    /\ MayAuthenticate(c)
    /\ qqIds # <<>>
    /\ \E name \in Names, genuine \in BOOLEAN : \E old \in OldUser(c, name) :
        \/ /\ Refused(c, name, old, genuine) /\ (Intact \/ old # NoOne)
           /\ Reject(c, name)
        \/ /\ ~Refused(c, name, old, genuine) /\ Intact
           /\ \/ old = NoOne /\ AdmitNew(c, name)
              \/ old # NoOne /\ AdmitKickingGhost(c, name, old)

\* newClient saw an id, but others drew the last ones before this client
\* authenticated.  What dequeue() then returns is undefined; the model stops.
AuthenticateWithoutId(c) ==
    /\ MayAuthenticate(c)
    /\ qqIds = <<>>
    /\ underflow' = TRUE
    /\ UNCHANGED <<iMaxUsers, qqIds, qhUsers, state, uiSession, qsName, address,
                   readDeleted, replaced>>

\* checkTimeout, the name search of msgAuthenticate or a broadcast comes to the
\* entry of a deleted user.  What it then reads is undefined; the model stops.
ReadDeleted ==
    /\ ~Intact
    /\ readDeleted' = TRUE
    /\ UNCHANGED <<iMaxUsers, qqIds, qhUsers, state, uiSession, qsName, address,
                   underflow, replaced>>

\* connectionClosed: the client left, its rejected socket closed, or
\* checkTimeout aborted it.  That an admitted user left is announced.
ConnectionClosed(c) ==
    /\ state[c] # "none"
    /\ state[c] = "authenticated" => Intact
    /\ state' = [state EXCEPT ![c] = "none"]
    /\ qhUsers' = Without(qhUsers, {uiSession[c]})
    /\ qqIds' = qqIds \o Returned(uiSession[c])
    /\ uiSession' = [uiSession EXCEPT ![c] = 0]
    /\ qsName' = [qsName EXCEPT ![c] = NoOne]
    /\ address' = [address EXCEPT ![c] = NoOne]
    /\ UNCHANGED <<iMaxUsers, undefinedVars, replaced>>

\* Fault: the pool is filled up without being cleared first.
SetMaxUsersAppending(limit) ==
    /\ limit # iMaxUsers
    /\ Intact
    /\ iMaxUsers' = limit
    /\ \E q \in Ascending(SessionIds(limit) \ InUse) : qqIds' = qqIds \o q
    /\ UNCHANGED <<qhUsers, state, uiSession, qsName, address, undefinedVars, replaced>>

\* setLiveConf "users": the pool is rebuilt from the ids not in use, and the
\* new limit is announced.
SetMaxUsers(limit) ==
    /\ limit # iMaxUsers
    /\ Intact
    /\ iMaxUsers' = limit
    /\ qqIds' \in Ascending(SessionIds(limit) \ InUse)
    /\ UNCHANGED <<qhUsers, state, uiSession, qsName, address, undefinedVars, replaced>>

Next ==
    /\ ~underflow /\ ~readDeleted
    /\ \/ \E c \in Conns :
            \/ NewClient(c)
            \/ Authenticate(c)
            \/ AuthenticateWithoutId(c)
            \/ ConnectionClosed(c)
       \/ ReadDeleted
       \/ \E limit \in UserLimits : SetMaxUsers(limit)

Spec == Init /\ [][Next]_vars

-----------------------------------------------------------------------------
TypeOK ==
    /\ iMaxUsers \in UserLimits
    /\ qqIds \in Seq(Nat)
    /\ InUse \subseteq Nat \ {0}
    /\ qhUsers \in [InUse -> Conns]
    /\ state \in [Conns -> States]
    /\ uiSession \in [Conns -> Nat]
    /\ qsName \in [Conns -> Names \cup {NoOne}]
    /\ address \in [Conns -> Addrs \cup {NoOne}]
    /\ underflow \in BOOLEAN
    /\ readDeleted \in BOOLEAN
    /\ replaced \subseteq Nat

\* No id is in the queue twice, so no two connections can draw the same one.
NoIdTwice == \A i, j \in 1 .. Len(qqIds) : qqIds[i] = qqIds[j] => i = j

\* No id is free and in use at once, and the queue holds ids of the current
\* limit only: also after the limit was lowered below an id in use.
NoIdFreeAndUsed == Queued \subseteq SessionIds(iMaxUsers) \ InUse

HasSession(c) == state[c] \in {"rejected", "authenticated"}
Held == {uiSession[c] : c \in {c \in Conns : HasSession(c)}}

\* No id is lost but by a second Authenticate: whatever order clients are
\* rejected, kicked and time out in, every other id of the current limit is
\* free or held by a connection, which will return it.
NoIdLost == SessionIds(iMaxUsers) \subseteq Queued \cup Held \cup replaced

\* qhUsers lists every connection that holds an id under that id, and the only
\* other entries, the ones that outlive their connection, are those under an
\* id a second Authenticate replaced.
TableMatches ==
    /\ \A s \in InUse :
        HasSession(qhUsers[s]) /\ uiSession[qhUsers[s]] = s <=> s \notin replaced
    /\ \A c \in Conns : HasSession(c) => uiSession[c] \in InUse /\ qhUsers[uiSession[c]] = c
    /\ \A c \in Conns : ~HasSession(c) => uiSession[c] = 0

\* "Username already in use": no two users on the server have the same name.
UniqueNames ==
    \A c, d \in Conns :
        state[c] = "authenticated" /\ state[d] = "authenticated" /\ qsName[c] = qsName[d]
        => c = d

\* A step that admits a user keeps the names unique, by refusing the name or
\* by kicking the ghost, unless a rejected client of that name still lingers.
NamesStayUnique ==
    [][UniqueNames /\ (\A c \in Conns : state[c] # "rejected") => UniqueNames']_vars

\* "Session ID pool (%1) empty, rejecting connection": a client is turned
\* away when no id is left, so none is ever drawn from an empty queue.
NeverUnderflows == ~underflow
=============================================================================
