------------------------------- MODULE AclCache -------------------------------
(***************************************************************************)
(* The permission cache of the server and everything that makes it stale.  *)
(*                                                                         *)
(* Both threads read permissions through acCache under qmCache and fill it *)
(* (Query).  Only the main thread changes what permissions follow from,    *)
(* and its handlers are cut where the other thread can get in: between a   *)
(* change and the clearACLCache that follows it.  main tells how far the   *)
(* handler in progress has come.                                           *)
(*                                                                         *)
(* Sessions here are authenticated, and session 1 is not among them: as a  *)
(* negative number it is the id of everyone who is not registered.         *)
(***************************************************************************)
EXTENDS Permissions

CONSTANTS
    Accounts,    \* registration ids, SuperUser's 0 may be one
    Edits,       \* bound: ACL edits, what they put in which channel
    Asked,       \* bound: the channels asked about, entered and with temporary groups
    Movable,     \* bound: the channels that are moved
    Tokened,     \* bound: the users that have the token
    Editors,     \* bound: the users that edit ACLs
    Watched,     \* bound: the users whose suppression is followed
    NotCached

ASSUME AccountsAssumption == Accounts \subseteq Nat /\ 1 \notin Users

ASSUME EditsAssumption ==
    \A edit \in Edits :
        /\ edit.c \in Channels /\ edit.inherit \in BOOLEAN
        /\ edit.acls \in Seq({edit.acls[i] : i \in DOMAIN edit.acls})
        /\ \A i \in DOMAIN edit.acls : IsEntry(edit.acls[i])
        /\ edit.group = NoGroup \/ edit.group \in GroupRecords
ASSUME NoGroupAssumption == NoGroup \notin GroupRecords
ASSUME BoundsAssumption == Asked \subseteq Channels /\ Movable \subseteq Channels /\ Editors \subseteq Users

VARIABLES
    registered,  \* the accounts there are
    acCache,     \* session -> channel -> permissions or NotCached
    bSuppress,   \* ServerUser::bSuppress
    shown,       \* what the clients were last told of it (suppress)
    main,        \* the main thread: where it stands in which handler
    overlooked   \* history: users whose permissions changed and whose cache
                 \* no handler cleared since

vars == <<treeVars, userVars, registered, acCache, bSuppress, shown, main, overlooked>>

Empty == [c \in Channels |-> NotCached]
Idle == [at |-> "idle", next |-> "idle", whom |-> {}, u |-> 0, c |-> NoChannel]
ClearFor(whom, next, u, c) == [at |-> "clear", next |-> next, whom |-> whom, u |-> u, c |-> c]
ClearThen(u) == ClearFor({u}, "idle", u, NoChannel)

\* Server::hasPermission: through the cache, which it fills; SuperUser's
\* permissions are never cached.
Lookup(u, c) == IF acCache[u][c] # NotCached /\ iId[u] # 0
                THEN acCache[u][c] ELSE EffectivePermissions(u, c)
Filled(cache, u, cs) ==
    IF iId[u] = 0 THEN cache
    ELSE [cache EXCEPT ![u] = [c \in Channels |-> IF c \in cs THEN Lookup(u, c) ELSE @[c]]]

Init ==
    /\ cParent = [c \in Channels |-> IF c = Root THEN NoChannel ELSE Root]
    /\ bInheritACL = [c \in Channels |-> TRUE]
    /\ qlACL = [c \in Channels |-> <<>>]
    /\ qhGroups = [c \in Channels |-> NoGroup]
    /\ registered = Accounts
    /\ iId = [u \in Users |-> -1]
    /\ cChannel = [u \in Users |-> NoChannel]
    /\ qslAccessTokens = [u \in Users |-> FALSE]
    /\ acCache = [u \in Users |-> Empty]
    /\ bSuppress = [u \in Users |-> FALSE]
    /\ shown = [u \in Users |-> FALSE]
    /\ main = Idle
    /\ overlooked = {}

-----------------------------------------------------------------------------
(* The cache. *)

\* A permission is asked for, by the main thread or the voice thread.
Query(u, c) ==
    /\ u \in Online /\ acCache[u][c] = NotCached /\ iId[u] # 0
    /\ acCache' = Filled(acCache, u, {c})
    /\ UNCHANGED <<treeVars, userVars, registered, bSuppress, shown, main, overlooked>>

\* Fault: the entries for channels the user is not in survive.
ClearedOwnOnly(whom) ==
    [u \in Users |-> [c \in Channels |-> IF u \in whom /\ c = cChannel[u] THEN NotCached
                                         ELSE acCache[u][c]]]

Cleared(whom) == [u \in Users |-> IF u \in whom THEN Empty ELSE acCache[u]]

\* What clearing leaves: the channel a user is in and, as long as the client
\* was told of few channels, the ones it was told of, looked up anew.
Refilled(cache, whom, told) ==
    [u \in Users |->
        [c \in Channels |->
            IF u \in whom /\ iId[u] # 0 /\ (c = cChannel[u] \/ <<u, c>> \in told)
            THEN EffectivePermissions(u, c) ELSE cache[u][c]]]

\* clearACLCache.  It also corrects bSuppress, and whichever way that went it
\* tells the clients that the user is suppressed.
ClearACLCache ==
    /\ main.at = "clear"
    /\ \E told \in SUBSET ((main.whom \cap (Online \cup {main.u})) \X Asked) :
           acCache' = Refilled(Cleared(main.whom), main.whom, told)
    /\ LET changed == {u \in main.whom \cap Online \cap Watched :
                         bSuppress[u] = ("Speak" \in EffectivePermissions(u, cChannel[u]))}
       IN  /\ bSuppress' = [u \in Users |-> (u \in changed) # bSuppress[u]]
           /\ shown' = [u \in Users |-> u \in changed \/ shown[u]]
    /\ IF main.next = "idle"
       THEN main' = Idle /\ overlooked' = overlooked \ main.whom
       ELSE main' = [main EXCEPT !.at = main.next] /\ UNCHANGED overlooked
    /\ UNCHANGED <<treeVars, userVars, registered>>

-----------------------------------------------------------------------------
(* Users come, go and move. *)

\* msgAuthenticate up to where it clears what a user that had the same place
\* in memory may have left in the cache.
Authenticate(u, id, tokens, c) ==
    /\ main = Idle /\ u \notin Online
    /\ \A v \in Online : id # -1 => iId[v] # id
    /\ iId' = [iId EXCEPT ![u] = id]
    /\ qslAccessTokens' = [qslAccessTokens EXCEPT ![u] = tokens]
    /\ bSuppress' = [bSuppress EXCEPT ![u] = FALSE]
    /\ shown' = [shown EXCEPT ![u] = FALSE]
    /\ main' = ClearFor({u}, "enter", u, c)
    /\ UNCHANGED <<treeVars, cChannel, registered, acCache, overlooked>>

\* The locked part of userEnterChannel: into the channel, without the cache.
Enters(u, c) ==
    /\ UNCHANGED <<treeVars, iId, qslAccessTokens, registered, overlooked>>
    /\ cChannel' = [cChannel EXCEPT ![u] = c]
    /\ bSuppress' = [bSuppress EXCEPT ![u] =
                      u \in Watched /\ "Speak" \notin EffectivePermissions(u, c)']
    /\ shown' = [shown EXCEPT ![u] = IF bSuppress'[u] # bSuppress[u] THEN bSuppress'[u] ELSE @]
    /\ main' = ClearThen(u)

\* The rest of msgAuthenticate: the channel the user left from or the root.
EnterAfterAuthenticate ==
    /\ main.at = "enter"
    /\ acCache' = Filled(acCache, main.u, {main.c})
    /\ \E u \in Users, c \in Channels :
        /\ u = main.u
        /\ c = IF "Enter" \in Lookup(u, main.c) THEN main.c ELSE Root
        /\ Enters(u, c)

\* userEnterChannel, whoever asked for it: the RPC interface may move anyone.
UserEnterChannel(u, c) ==
    /\ main = Idle /\ u \in Online /\ c # cChannel[u]
    /\ Enters(u, c)
    /\ UNCHANGED acCache

\* A second Authenticate message replaces the tokens.
SetTokens(u, tokens) ==
    /\ main = Idle /\ u \in Online
    /\ tokens \/ qslAccessTokens[u]
    /\ qslAccessTokens' = [qslAccessTokens EXCEPT ![u] = tokens]
    /\ main' = ClearThen(u)
    /\ UNCHANGED <<treeVars, iId, cChannel, registered, acCache, bSuppress, shown, overlooked>>

\* connectionClosed takes the user out of its channel, then clearTempGroups
\* out of the groups of all channels.
ConnectionClosed(u) ==
    /\ main = Idle /\ u \in Online
    /\ cChannel' = [cChannel EXCEPT ![u] = NoChannel]
    /\ main' = [Idle EXCEPT !.at = "clearTempGroups", !.u = u]
    /\ UNCHANGED <<treeVars, iId, qslAccessTokens, registered, acCache, bSuppress, shown, overlooked>>

\* Fault: only the root's groups are seen to.
TempGroupsOfRoot(cs) == {Root}

TempGroupsOf(cs) == cs

ClearTempGroups ==
    /\ main.at = "clearTempGroups"
    /\ qhGroups' = [c \in Channels |->
                       IF c \in TempGroupsOf(Channels) /\ qhGroups[c] # NoGroup
                       THEN [qhGroups[c] EXCEPT !.temp = @ \ {iId[main.u], -main.u}]
                       ELSE qhGroups[c]]
    /\ main' = ClearThen(main.u)
    /\ UNCHANGED <<cParent, bInheritACL, qlACL, userVars, registered, acCache,
                   bSuppress, shown, overlooked>>

-----------------------------------------------------------------------------
(* ACLs and groups change. *)

\* What an edit puts in place of a channel's entries and group; the temporary
\* members of the group stay.
Put(c, edit, entries, group) ==
    /\ bInheritACL' = [bInheritACL EXCEPT ![c] = edit.inherit]
    /\ qlACL' = [qlACL EXCEPT ![c] = entries]
    /\ qhGroups' = [qhGroups EXCEPT ![c] =
                       IF group = NoGroup THEN NoGroup
                       ELSE [group EXCEPT !.temp = IF qhGroups[c] = NoGroup THEN {}
                                                   ELSE qhGroups[c].temp]]
    /\ UNCHANGED <<cParent, userVars, registered, bSuppress, shown, overlooked>>

\* setACL of the RPC interface takes everything as it comes.
SetACL(c, edit) ==
    /\ main = Idle
    /\ Put(c, edit, edit.acls, edit.group)
    /\ main' = ClearFor(Users, "idle", 0, c)
    /\ UNCHANGED acCache

Known(acls) == EntriesFor(acls, registered \cup {-1})
KnownMembers(g) ==
    IF g = NoGroup THEN g
    ELSE [g EXCEPT !.add = @ \cap registered, !.remove = @ \cap registered]

\* Who may write a channel may edit it, and who may write the root, any.
MayEdit(u, c) == "Write" \in Lookup(u, c) \/ "Write" \in Lookup(u, Root)

MsgACL(u, c, edit) ==
    /\ main = Idle /\ u \in Online
    /\ MayEdit(u, c)
    /\ acCache' = Filled(acCache, u, IF "Write" \in Lookup(u, c) THEN {c} ELSE {c, Root})
    /\ Put(c, edit, Known(edit.acls), KnownMembers(edit.group))
    /\ main' = ClearFor(Users, "regrant", u, c)

\* Fault: the entry is added for all of those who would lose the channel's
\* subchannels, but not for the channel.
OwnEntryForSubs(u) ==
    [user |-> iId[u], group |-> [name |-> "hash", owner |-> u, invert |-> FALSE, local |-> FALSE],
     here |-> FALSE, subs |-> TRUE, allow |-> {"Write", "Traverse"}, deny |-> {}]

\* The entry for the one who edits: its account or, without one, its
\* certificate.
OwnEntry(u) ==
    [user |-> iId[u],
     group |-> [name |-> IF iId[u] >= 0 THEN "" ELSE "hash", owner |-> u,
                invert |-> FALSE, local |-> FALSE],
     here |-> TRUE, subs |-> FALSE, allow |-> {"Write", "Traverse"}, deny |-> {}]

\* The rest of msgACL: who locked itself out is let in again.
Regrant ==
    /\ main.at = "regrant"
    /\ LET u == main.u
           c == main.c
       IN  /\ acCache' = Filled(acCache, u, {c})
           /\ IF "Write" \in Lookup(u, c)
              THEN main' = Idle /\ overlooked' = {} /\ UNCHANGED qlACL
              ELSE /\ UNCHANGED overlooked
                   /\ qlACL' = [qlACL EXCEPT ![c] = Append(@, OwnEntry(u))]
                   /\ main' = ClearFor(Users, "idle", u, c)
    /\ UNCHANGED <<cParent, bInheritACL, qhGroups, userVars, registered, bSuppress, shown>>

NewGroup == [inherit |-> TRUE, inheritable |-> TRUE, add |-> {}, remove |-> {}, temp |-> {}]
GroupOf(c) == IF qhGroups[c] = NoGroup THEN NewGroup ELSE qhGroups[c]

\* addUserToGroup and removeUserFromGroup of the RPC interface.
Regroup(u, c, temp) ==
    /\ main = Idle /\ u \in Online
    /\ qhGroups' = [qhGroups EXCEPT ![c] = [GroupOf(c) EXCEPT !.temp = temp]]
    /\ main' = ClearThen(u)
    /\ UNCHANGED <<cParent, bInheritACL, qlACL, userVars, registered, acCache,
                   bSuppress, shown, overlooked>>

\* Fault: the account joins in place of the session.
AddAccountToGroup(u, c) == Regroup(u, c, GroupOf(c).temp \cup {iId[u]})

AddUserToGroup(u, c) == Regroup(u, c, GroupOf(c).temp \cup {-u})
RemoveUserFromGroup(u, c) == Regroup(u, c, GroupOf(c).temp \ {-u})

\* A channel is moved by a user or over the RPC interface; what it inherits
\* changes with it, and no cache is cleared.
MoveChannel(c, p) ==
    /\ main = Idle /\ c # Root /\ p # cParent[c]
    /\ \A i \in 1 .. Len(PathTo(p)) : PathTo(p)[i] # c
    /\ cParent' = [cParent EXCEPT ![c] = p]
    /\ overlooked' = overlooked \cup Online
    /\ UNCHANGED <<bInheritACL, qlACL, qhGroups, userVars, registered, acCache,
                   bSuppress, shown, main>>

-----------------------------------------------------------------------------
(* Accounts. *)

RegisterUser(u, id) ==
    /\ main = Idle /\ u \in Online /\ iId[u] < 0 /\ id \in Accounts \ registered
    /\ registered' = registered \cup {id}
    /\ iId' = [iId EXCEPT ![u] = id]
    /\ main' = ClearThen(u)
    /\ UNCHANGED <<treeVars, cChannel, qslAccessTokens, acCache, bSuppress, shown, overlooked>>

\* unregisterUser takes the account out of all entries and groups, clears the
\* cache of the user that has it ...
UnregisterUser(id) ==
    /\ main = Idle /\ id \in registered \ {0}
    /\ registered' = registered \ {id}
    /\ qlACL' = [c \in Channels |-> EntriesFor(qlACL[c], Int \ {id})]
    /\ qhGroups' = [c \in Channels |->
                       IF qhGroups[c] = NoGroup THEN NoGroup
                       ELSE [qhGroups[c] EXCEPT !.add = @ \ {id}, !.remove = @ \ {id}]]
    /\ main' = IF \E u \in Online : iId[u] = id
               THEN LET u == CHOOSE u \in Online : iId[u] = id
                    IN  ClearFor({u}, "forget", u, NoChannel)
               ELSE Idle
    /\ UNCHANGED <<cParent, bInheritACL, userVars, acCache, bSuppress, shown, overlooked>>

\* ... and only then resets the user's id.
ForgetId ==
    /\ main.at = "forget"
    /\ iId' = [iId EXCEPT ![main.u] = -1]
    /\ overlooked' = overlooked \cup {main.u}
    /\ main' = Idle
    /\ UNCHANGED <<treeVars, cChannel, qslAccessTokens, registered, acCache, bSuppress, shown>>

-----------------------------------------------------------------------------
Next ==
    \/ ClearACLCache \/ EnterAfterAuthenticate \/ ClearTempGroups \/ Regrant \/ ForgetId
    \/ \E u \in Users :
        \/ ConnectionClosed(u)
        \/ \E tokens \in {t \in BOOLEAN : t => u \in Tokened} :
            \/ SetTokens(u, tokens)
            \/ \E id \in registered \cup {-1}, c \in Asked \cup {Root} : Authenticate(u, id, tokens, c)
        \/ \E id \in Accounts : RegisterUser(u, id)
        \/ \E c \in Asked \cup {Root} : UserEnterChannel(u, c)
        \/ \E c \in Asked :
            \/ Query(u, c)
            \/ AddUserToGroup(u, c)
            \/ RemoveUserFromGroup(u, c)
    \/ \E edit \in Edits :
        \/ SetACL(edit.c, edit)
        \/ \E u \in Editors : MsgACL(u, edit.c, edit)
    \/ \E c \in Movable, p \in Channels : MoveChannel(c, p)
    \/ \E id \in registered : UnregisterUser(id)

Spec == Init /\ [][Next]_vars

-----------------------------------------------------------------------------
(* Properties. *)

TypeOK ==
    /\ cParent \in [Channels -> Channels \cup {NoChannel}]
    /\ bInheritACL \in [Channels -> BOOLEAN]
    /\ \A c \in Channels :
        /\ \A i \in DOMAIN qlACL[c] : IsEntry(qlACL[c][i])
        /\ qhGroups[c] = NoGroup \/ qhGroups[c].temp \subseteq {-u : u \in Users}
    /\ iId \in [Users -> Accounts \cup {-1}]
    /\ cChannel \in [Users -> Channels \cup {NoChannel}]
    /\ qslAccessTokens \in [Users -> BOOLEAN]
    /\ registered \subseteq Accounts
    /\ \A u \in Users, c \in Channels : acCache[u][c] = NotCached \/ acCache[u][c] \subseteq Perms
    /\ bSuppress \in [Users -> BOOLEAN] /\ shown \in [Users -> BOOLEAN]
    /\ main.at \in {"idle", "clear", "enter", "regrant", "clearTempGroups", "forget"}
    /\ overlooked \subseteq Users

Agrees(u) ==
    \A c \in Channels : acCache[u][c] # NotCached => acCache[u][c] = EffectivePermissions(u, c)

\* Between two handlers the cache of a user says what an evaluation would say,
\* whatever changed of the user, the groups and the ACLs, and whoever asked in
\* the middle of the handler; only moving a channel and unregistering the user
\* leave it behind (clearACLCache, Server.cpp:2155).
CacheFresh == main = Idle => \A u \in Online \ overlooked : Agrees(u)

\* The cache follows the account, "as the auth ACL depends on the user id"
\* (Messages.cpp:293), also when the account is taken away
\* (unregisterUser, Server.cpp:2005-2017).
CacheFollowsId == main = Idle => \A u \in Online : Agrees(u)

\* The walk over the ACLs of ChanACL::effectivePermissions amounts to this: who
\* is "missing traverse AND write in this channel" somewhere on the way
\* (ACL.cpp:172-173) has nothing, and everybody else what the last entry that
\* speaks of it, or the last channel that starts over, leaves (ACL.cpp:130-222).
\* There is one exception: the write flag outlives a channel that starts over
\* (ACL.cpp:140-142 resets only the permissions), so a Write from above it lets
\* through who should be barred, for all that the help says of Traverse
\* ("unable to access this channel and any sub-channels in any way",
\* ACL.cpp:258-260).
LastWordDecides ==
    main = Idle =>
        \A u \in Online, c \in Channels : iId[u] # 0 =>
            \/ EffectivePermissions(u, c) = LastWord(u, c)
            \/ Barred(u, PathTo(c)) /\ WriteOutlives(u, PathTo(c))

\* An entry of a channel above c takes both Traverse and Write from the user
\* when the permissions in c are evaluated.
BarredAbove(u, c) == iId[u] # 0 /\ c # Root /\ WalkTo(u, c, cParent[c]).blocked

\* Whoever edits the ACLs of a channel may still edit them when the handler is
\* done, whatever the edit took away, unless it is barred further up: the
\* entry msgACL adds does not help there (Messages.cpp:1972-1989).
EditorStays ==
    [][\A u \in Users, c \in Channels :
         main.at \in {"clear", "regrant"} /\ main.u = u /\ main.c = c /\ main' = Idle =>
         \/ "Write" \in EffectivePermissions(u, c)'
         \/ BarredAbove(u, c)']_vars

\* No group keeps a temporary member that has left: its session is drawn again
\* by somebody else (clearTempGroups, RPC.cpp:262-286).
TempMembersPresent ==
    \A c \in Channels : qhGroups[c] # NoGroup =>
        \A u \in Users : -u \in qhGroups[c].temp =>
            \/ u \in Online
            \/ (main.at = "clearTempGroups" /\ main.u = u)

\* What the clients were last told of a user's suppression is so: "True if the
\* user has been suppressed from talking" (Mumble.proto:206); clearACLCache
\* says "suppressed" when it lifts the suppression (Server.cpp:2188).
ShownIsSuppress == main = Idle => \A u \in Online : shown[u] = bSuppress[u]
==============================================================================
