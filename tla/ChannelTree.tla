----------------------------- MODULE ChannelTree -----------------------------
(***************************************************************************)
(* The channels of one virtual server, as the main thread of Server keeps  *)
(* them: the tree, the hash by id, the links, which channel each user is   *)
(* in, and the rows the database keeps of the permanent channels.          *)
(*                                                                         *)
(* A temporary channel is removed by an event posted when its last user    *)
(* leaves, which names the channel by id and runs after whatever other     *)
(* messages the main thread handles first.  An error of the database ends  *)
(* the server; it is then started again from the rows.                     *)
(*                                                                         *)
(* Permissions and channel limits are another component: here a request    *)
(* may be granted, and a user moved out of a removed channel may be let    *)
(* into any of the channels above it.                                      *)
(***************************************************************************)
EXTENDS Integers, FiniteSets

CONSTANTS
    Objs,           \* Channel objects: bound on channels existing at once
    Root,           \* the root channel
    NoChannel,      \* nullptr
    Users,          \* connected or not
    NestingLimit,   \* iChannelNestingLimit, which setLiveConf may also lower
                    \* while channels exist; here it stays
    TempOffset,     \* what createNewChannel adds to the id of a temporary channel
    MaxEvents,      \* bound: removals posted for one id
    MaxLinks,       \* bound: links at once
    Rpc             \* TRUE: an Ice controller also creates and moves channels

ASSUME ObjsAssumption == IsFiniteSet(Objs) /\ Root \in Objs /\ NoChannel \notin Objs
ASSUME LimitAssumption == NestingLimit \in Nat /\ MaxEvents \in Nat /\ MaxLinks \in Nat
ASSUME RpcAssumption == Rpc \in BOOLEAN
\* "Make sure temporary channel IDs will not collide with regular channel IDs":
\* that takes fewer permanent channels than the offset.  msgChannelState sees to
\* it, but addChannel of Ice does not ask for iChannelCountLimit, twice which is
\* the offset (Server.cpp:3137), and the limit may be lowered.
ASSUME OffsetAssumption == TempOffset \in Nat /\ TempOffset > Cardinality(Objs)

Ids == 0 .. Cardinality(Objs) + TempOffset

VARIABLES
    server,      \* "up", "stopped", or "database error"
    channels,    \* the Channel objects that exist
    iId,         \* their ids; 0 for objects that do not exist
    bTemporary,  \* whether they are temporary
    cParent,     \* parent; NoChannel for the root
    qhChannels,  \* id -> Channel object
    links,       \* sets {a, b} of channels linked to each other (qhLinks)
    cChannel,    \* User::cChannel; NoChannel when not connected
    events,      \* id -> number of posted ExecEvents that will remove it
    dbParent,    \* channel table: id -> parent id (the root's is its own)
    dbLinks,     \* channel link table: sets of two ids
    shared       \* history: channels that have, or had, their id in common with
                 \* another one

treeVars == <<channels, iId, bTemporary, cParent, qhChannels, links>>
dbVars == <<dbParent, dbLinks>>
vars == <<server, treeVars, cChannel, events, dbVars, shared>>

-----------------------------------------------------------------------------
(* The tree *)

\* A set of channels with all their parents, and one with all their children.
UpClosed(S) == \A c \in S : cParent[c] # NoChannel => cParent[c] \in S
DownClosed(S) == \A c \in channels : cParent[c] \in S => c \in S

\* c with everything above it: the chain of cParent.
Ancestors(c) ==
    {a \in channels : \A S \in SUBSET (channels \ {a}) : c \in S => ~UpClosed(S)}

\* c with everything below it (allChildren).
Subtree(c) == {d \in channels : c \in Ancestors(d)}

Level(c) == Cardinality(Ancestors(c)) - 1

\* The length of the longest chain of children below c.
Depth(c) ==
    LET below == [d \in Subtree(c) |-> Level(d) - Level(c)] IN
    CHOOSE n \in 0 .. Cardinality(Objs) :
        /\ \E d \in DOMAIN below : below[d] = n
        /\ \A d \in DOMAIN below : below[d] <= n

\* Fault: the depth of the moved channel is left out.
CanNestIgnoringDepth(p, channelDepth) == Level(p) < NestingLimit

CanNest(p, channelDepth) == Level(p) + channelDepth < NestingLimit

\* What a message or a remote call can name: the id is looked up in the hash.
Known == {qhChannels[i] : i \in DOMAIN qhChannels}

Occupants(c) == {u \in Users : cChannel[u] = c}

-----------------------------------------------------------------------------
TypeOK ==
    /\ server \in {"up", "stopped", "database error"}
    /\ channels \subseteq Objs
    /\ iId \in [Objs -> Ids]
    /\ bTemporary \in [Objs -> BOOLEAN]
    /\ cParent \in [Objs -> Objs \cup {NoChannel}]
    /\ DOMAIN qhChannels \subseteq Ids
    /\ qhChannels \in [DOMAIN qhChannels -> Objs]
    /\ links \subseteq SUBSET Objs
    /\ cChannel \in [Users -> Objs \cup {NoChannel}]
    /\ events \in [Ids -> 0 .. MaxEvents]
    /\ DOMAIN dbParent \subseteq Ids
    /\ dbParent \in [DOMAIN dbParent -> Ids]
    /\ dbLinks \subseteq SUBSET Ids /\ \A l \in dbLinks : Cardinality(l) = 2
    /\ shared \subseteq Objs

\* A server that has only its root channel (addServer).
Init ==
    /\ server = "up"
    /\ channels = {Root}
    /\ iId = [c \in Objs |-> 0]
    /\ bTemporary = [c \in Objs |-> FALSE]
    /\ cParent = [c \in Objs |-> NoChannel]
    /\ qhChannels = [i \in {0} |-> Root]
    /\ links = {}
    /\ cChannel = [u \in Users |-> NoChannel]
    /\ events = [i \in Ids |-> 0]
    /\ dbParent = [i \in {0} |-> 0]
    /\ dbLinks = {}
    /\ shared = {}

\* The process ends and forgets everything but the rows.
Halt(how) ==
    /\ server' = how
    /\ channels' = {}
    /\ iId' = [c \in Objs |-> 0]
    /\ bTemporary' = [c \in Objs |-> FALSE]
    /\ cParent' = [c \in Objs |-> NoChannel]
    /\ qhChannels' = [i \in {} |-> Root]
    /\ links' = {}
    /\ cChannel' = [u \in Users |-> NoChannel]
    /\ events' = [i \in Ids |-> 0]
    /\ shared' = {}

\* WRAPPER_END: the exception reaches ServerApplication::notify, which exits.
DatabaseError == Halt("database error") /\ UNCHANGED dbVars

-----------------------------------------------------------------------------
(* Users *)

\* Fault: the removal is posted only by a disconnect, not by a move.
RemovalOnDisconnectOnly(u, to) ==
    IF to = NoChannel /\ cChannel[u] # NoChannel /\ bTemporary[cChannel[u]]
       /\ Occupants(cChannel[u]) = {u}
    THEN {iId[cChannel[u]]} ELSE {}

\* The removal posted when u leaves for another channel or for good.
RemovalPosted(u, to) ==
    IF cChannel[u] # NoChannel /\ bTemporary[cChannel[u]] /\ Occupants(cChannel[u]) = {u}
    THEN {iId[cChannel[u]]} ELSE {}

PostRemoval(ids) ==
    /\ \A i \in ids : events[i] < MaxEvents
    /\ events' = [i \in Ids |-> IF i \in ids THEN events[i] + 1 ELSE events[i]]

\* Bound: nobody comes into an empty temporary channel when MaxEvents removals
\* are posted for its id or will be by whoever leaves; so a bound never keeps
\* a posted removal from running.
Due(i) ==
    events[i] + Cardinality({c \in channels : bTemporary[c] /\ iId[c] = i /\ Occupants(c) # {}})
Room(c) == bTemporary[c] /\ Occupants(c) = {} => Due(iId[c]) < MaxEvents

\* userEnterChannel, also for a user who has just connected.
EnterChannel(u, c) ==
    /\ server = "up"
    /\ c \in Known /\ c # cChannel[u] /\ Room(c)
    /\ cChannel' = [cChannel EXCEPT ![u] = c]
    /\ PostRemoval(RemovalPosted(u, c))
    /\ UNCHANGED <<server, treeVars, dbVars, shared>>

\* connectionClosed
Disconnect(u) ==
    /\ server = "up"
    /\ cChannel[u] # NoChannel
    /\ cChannel' = [cChannel EXCEPT ![u] = NoChannel]
    /\ PostRemoval(RemovalPosted(u, NoChannel))
    /\ UNCHANGED <<server, treeVars, dbVars, shared>>

-----------------------------------------------------------------------------
(* Creating and moving channels *)

\* The lowest id the channel table does not hold.
FreeId ==
    CHOOSE n \in 0 .. Cardinality(DOMAIN dbParent) :
        n \notin DOMAIN dbParent /\ \A m \in 0 .. n - 1 : m \in DOMAIN dbParent

\* Fault: temporary channels draw from the ids of permanent ones.
NewIdWithoutOffset(temporary) == FreeId

\* createNewChannel
NewId(temporary) == IF temporary THEN FreeId + TempOffset ELSE FreeId

Construct(c, p, temporary) ==
    LET id == NewId(temporary)
        same == {d \in channels : iId[d] = id} IN
    /\ channels' = channels \cup {c}
    /\ iId' = [iId EXCEPT ![c] = id]
    /\ bTemporary' = [bTemporary EXCEPT ![c] = temporary]
    /\ cParent' = [cParent EXCEPT ![c] = p]
    /\ qhChannels' = [i \in DOMAIN qhChannels \cup {id} |-> IF i = id THEN c ELSE qhChannels[i]]
    /\ shared' = IF same = {} THEN shared \ {c} ELSE shared \cup same \cup {c}
    /\ UNCHANGED links

\* msgChannelState for a new permanent channel, and addChannel of Ice.
CreatePermanent(c, p) ==
    /\ server = "up"
    /\ c \in Objs \ channels
    /\ p \in Known /\ ~bTemporary[p] /\ CanNest(p, 0)
    /\ Construct(c, p, FALSE)
    /\ dbParent' = [i \in DOMAIN dbParent \cup {FreeId} |->
                      IF i = FreeId THEN iId[p] ELSE dbParent[i]]
    /\ UNCHANGED <<server, cChannel, events, dbLinks>>

\* msgChannelState for a temporary channel: its creator is moved into it.
CreateTemporary(u, c, p) ==
    /\ server = "up"
    /\ c \in Objs \ channels
    /\ cChannel[u] # NoChannel
    /\ p \in Known /\ ~bTemporary[p] /\ CanNest(p, 0)
    /\ Due(NewId(TRUE)) < MaxEvents
    /\ Construct(c, p, TRUE)
    /\ cChannel' = [cChannel EXCEPT ![u] = c]
    /\ PostRemoval(RemovalPosted(u, c))
    /\ UNCHANGED <<server, dbVars>>

\* Fault: the walk up starts above p, so a channel may become its own parent.
MayMoveBelowItself(c, p) ==
    /\ c \in Known \ {Root} /\ p \in Known
    /\ p # cParent[c] /\ c \notin Ancestors(p) \ {p}
    /\ CanNest(p, Depth(c))

MayMove(c, p) ==
    /\ c \in Known \ {Root} /\ p \in Known
    /\ p # cParent[c] /\ c \notin Ancestors(p)
    /\ CanNest(p, Depth(c))

\* Fault: the row keeps the old parent.
SaveNothing(c, p) == UNCHANGED dbVars

\* updateChannelData
SaveParent(c, p) ==
    /\ dbParent' = IF bTemporary[c] THEN dbParent ELSE [dbParent EXCEPT ![iId[c]] = iId[p]]
    /\ UNCHANGED dbLinks

\* msgChannelState with a parent, and setChannelState of Ice.
MoveChannel(c, p) ==
    /\ server = "up"
    /\ MayMove(c, p) /\ (~bTemporary[p] \/ (Rpc /\ bTemporary[c]))
    /\ cParent' = [cParent EXCEPT ![c] = p]
    /\ SaveParent(c, p)
    /\ UNCHANGED <<server, channels, iId, bTemporary, qhChannels, links, cChannel, events, shared>>

\* Only the message handler checks that the parent is not temporary: a row
\* that names a parent without a row violates the table's foreign key.
PermanentBelowTemporary(c, p) ==
    /\ server = "up" /\ Rpc
    /\ p \in Known /\ bTemporary[p]
    /\ \/ c \in Objs \ channels /\ CanNest(p, 0)
       \/ c \in channels /\ ~bTemporary[c] /\ MayMove(c, p)
    /\ DatabaseError

-----------------------------------------------------------------------------
(* Links *)

\* Fault: the table takes a link of a channel to itself.
AcceptsAlsoSelf(a, b) == {iId[a], iId[b]} \notin dbLinks

\* addLink of the table: "Can't link a channel to itself", and its primary key.
Accepts(a, b) == a # b /\ {iId[a], iId[b]} \notin dbLinks

\* linkChannels: a permanent link is inserted whether or not it is there yet.
Link(a, b) ==
    /\ server = "up"
    /\ a \in Known /\ b \in Known
    /\ bTemporary[a] \/ bTemporary[b] \/ Accepts(a, b)
    /\ links' = links \cup {{a, b}} /\ Cardinality(links') <= MaxLinks
    /\ dbLinks' = IF bTemporary[a] \/ bTemporary[b] THEN dbLinks
                  ELSE dbLinks \cup {{iId[a], iId[b]}}
    /\ UNCHANGED <<server, channels, iId, bTemporary, cParent, qhChannels, cChannel, events,
                   dbParent, shared>>

\* addLink throws, also when it is another client that has just linked the two.
LinkRejectedByDatabase(a, b) ==
    /\ server = "up"
    /\ a \in Known /\ b \in Known /\ ~bTemporary[a] /\ ~bTemporary[b]
    /\ ~Accepts(a, b)
    /\ DatabaseError

Unlink(a, b) ==
    /\ server = "up"
    /\ a \in Known /\ b \in Known
    /\ links' = links \ {{a, b}}
    /\ dbLinks' = IF bTemporary[a] \/ bTemporary[b] THEN dbLinks
                  ELSE dbLinks \ {{iId[a], iId[b]}}
    /\ UNCHANGED <<server, channels, iId, bTemporary, cParent, qhChannels, cChannel, events,
                   dbParent, shared>>

-----------------------------------------------------------------------------
(* Removing channels *)

Rows(S) == {iId[c] : c \in {d \in S : ~bTemporary[d]}}

\* The foreign keys delete the links of a deleted channel with it.
DeleteRows(ids) ==
    /\ dbParent' = [i \in DOMAIN dbParent \ ids |-> dbParent[i]]
    /\ dbLinks' = {l \in dbLinks : l \cap ids = {}}

\* Fault: users of subchannels stay where they were.
MovedOutOfTopOnly(c, S) == Occupants(c)

MovedOut(c, S) == {u \in Users : cChannel[u] \in S}

\* Fault: links from elsewhere to the removed channels stay.
RemainingAfter(S) == {l \in links : ~(l \subseteq S)}

LinksWithout(S) == {l \in links : l \cap S = {}}

\* removeChannel: everything below c goes with it.  Its users are moved to
\* the parent of c, or further up while they may not enter; a temporary
\* channel that is emptied on the way posts its own removal once more.
RemoveChannel(c, pending) == \E S \in {Subtree(c)} :
    LET moved == MovedOut(c, S)
        emptied(i) == {d \in S : bTemporary[d] /\ iId[d] = i /\ Occupants(d) # {}}
    IN  /\ \E dest \in [moved -> {d \in Ancestors(cParent[c]) : Room(d)}] :
             cChannel' = [u \in Users |-> IF u \in moved THEN dest[u] ELSE cChannel[u]]
        /\ \A i \in Ids : pending[i] + Cardinality(emptied(i)) <= MaxEvents
        /\ events' = [i \in Ids |-> pending[i] + Cardinality(emptied(i))]
        /\ channels' = channels \ S
        /\ iId' = [d \in Objs |-> IF d \in S THEN 0 ELSE iId[d]]
        /\ bTemporary' = [d \in Objs |-> d \notin S /\ bTemporary[d]]
        /\ cParent' = [d \in Objs |-> IF d \in S THEN NoChannel ELSE cParent[d]]
        /\ qhChannels' = [i \in DOMAIN qhChannels \ {iId[d] : d \in S} |-> qhChannels[i]]
        /\ links' = LinksWithout(S)
        /\ DeleteRows(Rows(S))
        /\ shared' = shared \ S
        /\ UNCHANGED server

\* msgChannelRemove and removeChannel of Ice
RemoveRequested(c) ==
    /\ server = "up"
    /\ c \in Known \ {Root}
    /\ RemoveChannel(c, events)

\* customEvent: the posted removal runs and looks the id up again.
RunEvent(i) ==
    /\ server = "up"
    /\ events[i] > 0
    /\ LET pending == [events EXCEPT ![i] = @ - 1] IN
       \/ i \in DOMAIN qhChannels /\ RemoveChannel(qhChannels[i], pending)
       \/ /\ i \notin DOMAIN qhChannels
          /\ events' = pending
          /\ UNCHANGED <<server, treeVars, cChannel, dbVars, shared>>

-----------------------------------------------------------------------------
(* Crash and restart *)

\* The process is killed between two transactions: at any time, or while
\* removeChannel has deleted the rows of some of the channels, children first.
Crash ==
    /\ server = "up"
    /\ \/ UNCHANGED dbVars
       \/ \E c \in Known \ {Root} : \E S \in SUBSET Subtree(c) : DownClosed(S) /\ DeleteRows(Rows(S))
    /\ Halt("stopped")

\* readChildren: the rows that lie below the root's.
Loaded ==
    {i \in DOMAIN dbParent : \A S \in SUBSET DOMAIN dbParent :
        0 \in S /\ (\A j \in DOMAIN dbParent : dbParent[j] \in S => j \in S) => i \in S}

\* initializeChannels and initializeChannelLinks
Restart ==
    /\ server # "up"
    /\ server' = "up"
    /\ LET rows == Loaded IN
       \E obj \in [rows -> Objs] :
        /\ obj[0] = Root
        /\ \A i, j \in rows : obj[i] = obj[j] => i = j
        /\ channels' = {obj[i] : i \in rows}
        /\ qhChannels' = obj
        /\ iId' = [c \in Objs |-> IF \E i \in rows : obj[i] = c
                                  THEN CHOOSE i \in rows : obj[i] = c ELSE 0]
        /\ cParent' = [c \in Objs |-> IF \E i \in rows \ {0} : obj[i] = c
                         THEN obj[dbParent[CHOOSE i \in rows : obj[i] = c]] ELSE NoChannel]
        /\ links' = {{obj[i] : i \in l} : l \in {m \in dbLinks : m \subseteq rows}}
    /\ UNCHANGED <<bTemporary, cChannel, events, dbVars, shared>>

Next ==
    \/ \E u \in Users :
        \/ Disconnect(u)
        \/ \E c \in Objs : EnterChannel(u, c)
        \/ \E c, p \in Objs : CreateTemporary(u, c, p)
    \/ \E c, p \in Objs :
        \/ CreatePermanent(c, p)
        \/ MoveChannel(c, p)
        \/ PermanentBelowTemporary(c, p)
        \/ Link(c, p)
        \/ LinkRejectedByDatabase(c, p)
        \/ Unlink(c, p)
    \/ \E c \in Objs : RemoveRequested(c)
    \/ \E i \in Ids : RunEvent(i)
    \/ Crash
    \/ Restart

Spec == Init /\ [][Next]_vars

\* The event loop runs every event posted to it.
FairSpec == Spec /\ \A i \in Ids \ 0 .. TempOffset - 1 : WF_vars(RunEvent(i))

-----------------------------------------------------------------------------
\* The channels form one tree under the root: no move makes a cycle, and no
\* removal leaves a channel behind without a parent.
Rooted == \A c \in channels : Root \in Ancestors(c)

\* "Channel nesting limit reached": no channel is deeper than the limit,
\* also after whole subtrees have moved.
NestingRespected == \A c \in channels : Level(c) <= NestingLimit

\* No pointer outlives its channel: users are in channels that exist, and
\* links connect channels that exist.
NothingDangles ==
    /\ \A u \in Users : cChannel[u] # NoChannel => cChannel[u] \in channels
    /\ \A l \in links : l \subseteq channels

\* "Channel ID. This is unique per channel": no two channels that exist have
\* the same id (MumbleServer.ice:110; createNewChannel, Server.cpp:3128-3141).
IdsUnique == \A c, d \in channels : c # d => iId[c] # iId[d]

\* Whatever qhChannels finds exists and has the id it is found by, and it finds
\* every channel but a temporary one that had its id in common with another;
\* so permanent channels are always found.
HashMatches ==
    /\ \A c \in channels :
        \/ iId[c] \in DOMAIN qhChannels /\ qhChannels[iId[c]] = c
        \/ bTemporary[c] /\ c \in shared
    /\ \A i \in DOMAIN qhChannels : qhChannels[i] \in channels /\ iId[qhChannels[i]] = i

\* While the server runs, the rows are exactly its permanent channels, with
\* their parents and links; so a restart brings back what was there.
DatabaseMatches ==
    server = "up" =>
        LET permanent == {c \in channels : ~bTemporary[c]} IN
        /\ DOMAIN dbParent = {iId[c] : c \in permanent}
        /\ \A c \in permanent \ {Root} :
             cParent[c] \in channels /\ dbParent[iId[c]] = iId[cParent[c]]
        /\ dbLinks = {{iId[c] : c \in l} : l \in {m \in links : m \subseteq permanent}}

\* Whenever the server stops, all rows are reachable from the root's row.
DatabaseIsTree == Loaded = DOMAIN dbParent

\* An empty temporary channel is about to be removed, unless it had its id in
\* common with another: then what the removal finds may be the other, or nothing.
EmptyTemporaryIsDue ==
    \A c \in channels \ shared :
        bTemporary[c] /\ Occupants(c) = {} => events[iId[c]] > 0

\* A posted removal never takes a permanent channel with it, whatever ids
\* were freed and given out again since it was posted.
RemovesOnlyTemporary ==
    [][\A i \in Ids : RunEvent(i) => \A c \in channels \ channels' : bTemporary[c]]_vars

\* "will be removed when the last user leaves it": in the end it is gone, or
\* somebody has come in again, or its id was given to another one too.
EmptyTemporaryGoes ==
    \A c \in Objs :
        (c \in channels \ shared /\ bTemporary[c] /\ Occupants(c) = {})
            ~> (c \notin channels \ shared \/ Occupants(c) # {})
=============================================================================
